---------------------------- MODULE VersionClock ----------------------------
(***************************************************************************)
(* The version arithmetic of vector_clock.hpp: comparison, merge, the      *)
(* clock of a new write, and the resolution of the versions a read         *)
(* collects.                                                               *)
(*                                                                         *)
(* The protobuf map of counters is a total function: a node missing from   *)
(* the map counts 0, which is how compareVectorClocks reads it.  A node is *)
(* a number because writer_id takes part in a comparison (std::string's    *)
(* operator>).  A version stands for a VersionedValue; its value is the    *)
(* identifier of the Put execution that wrote it, so two versions with     *)
(* equal clocks but different identifiers are two different writes.        *)
(***************************************************************************)
EXTENDS Cluster

CONSTANTS PutIds,   \* identifiers of Put executions (the values written)
          Times     \* readings of nowMillis(): any node may read any of them

ASSUME IdAssumption == PutIds \subseteq Nat /\ Times \subseteq Nat

Clock == [Node -> Nat]

Version == [id : PutIds, clk : Clock, ts : Times, wr : Node]

\* std::optional: a set of at most one value.
AtMostOne(S) == \A v, w \in S : v = w

\* A clock with no counters: what a blind write sends as its context.
ZeroClock == [n \in Node |-> 0]

-----------------------------------------------------------------------------
(* compareVectorClocks: how a stands to b.                                 *)

Exceeds(a, b) == \E n \in Node : a[n] > b[n]

Compare(a, b) ==
  CASE ~Exceeds(a, b) /\ ~Exceeds(b, a) -> "EQUAL"
    []  Exceeds(a, b) /\ ~Exceeds(b, a) -> "DOMINATES"
    [] ~Exceeds(a, b) /\  Exceeds(b, a) -> "DOMINATED"
    [] OTHER                            -> "CONCURRENT"

-----------------------------------------------------------------------------
(* mergeClocks and buildNewClock.  The two optional inputs of              *)
(* buildNewClock are sets of at most one version.                          *)

\* Mutant: the counters are added up.
MergeClocks_Sum(a, b) == [n \in Node |-> a[n] + b[n]]

MergeClocks(a, b) == [n \in Node |-> IF a[n] >= b[n] THEN a[n] ELSE b[n]]

\* std::optional::value_or(VectorClock()).
ClockOr0(opt) == IF opt = {} THEN ZeroClock ELSE (CHOOSE v \in opt : TRUE).clk

\* Mutant: only the client's context counts, not what the coordinator holds.
BuildNewClock_ContextOnly(context, local, coordinator) ==
  [ClockOr0(context) EXCEPT ![coordinator] = @ + 1]

BuildNewClock(context, local, coordinator) ==
  [MergeClocks(ClockOr0(context), ClockOr0(local)) EXCEPT ![coordinator] = @ + 1]

-----------------------------------------------------------------------------
(* What a store keeps.  "held" is the set of at most one version that is   *)
(* there already; the incoming version replaces it unless the one held is  *)
(* equal or newer.                                                         *)

Replaces(held, incoming) ==
  \A v \in held : Compare(v.clk, incoming.clk) \in {"DOMINATED", "CONCURRENT"}

\* Mutants: no dominance check; the loser of a comparison stays as a sibling.
StoreReplicated_LastWins(held, incoming) == {incoming}
StoreReplicated_Siblings(held, incoming) ==
  IF Replaces(held, incoming) THEN held \cup {incoming} ELSE held

StoreReplicated(held, incoming) ==
  IF Replaces(held, incoming) THEN {incoming} ELSE held

-----------------------------------------------------------------------------
(* computeFrontier, resolveLWW and resolveGetResult.  "vs" is a function   *)
(* from arrival positions (natural numbers) to versions, as the vector of  *)
(* replies is.                                                             *)

\* Positions that survive: nothing in vs dominates them, and of versions with
\* equal clocks only the first to arrive is kept.
Frontier(vs) ==
  {i \in DOMAIN vs : \A j \in DOMAIN vs \ {i} :
      /\ Compare(vs[i].clk, vs[j].clk) # "DOMINATED"
      /\ j < i => Compare(vs[i].clk, vs[j].clk) # "EQUAL"}

\* (last_updated, writer_id) of v is above that of w.
LaterStamp(v, w) == v.ts > w.ts \/ (v.ts = w.ts /\ v.wr > w.wr)

\* The scan keeps its candidate on a full tie, so the first position wins.  A
\* set of one position, for any S that is finite and not empty.
ResolveLWW(vs, S) ==
  {i \in S : \A j \in S \ {i} :
      LaterStamp(vs[i], vs[j]) \/ (~LaterStamp(vs[j], vs[i]) /\ i < j)}

\* Mutant: the first reply that found something wins.
ResolveGetResult_FirstReply(vs) ==
  {vs[i] : i \in {k \in DOMAIN vs : \A j \in DOMAIN vs : k <= j}}

\* The winner: a set of one version, none if nothing was found.
ResolveGetResult(vs) == {vs[i] : i \in ResolveLWW(vs, Frontier(vs))}
=============================================================================
