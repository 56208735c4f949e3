------------------------- MODULE VersionClockProofs -------------------------
(***************************************************************************)
(* Facts about the version arithmetic, for every set of nodes.             *)
(***************************************************************************)
EXTENDS VersionClock, TLAPS

\* The order Compare decides: a is at most b everywhere and not equal to it.
Below(a, b) == (\A n \in Node : a[n] <= b[n]) /\ (\E n \in Node : a[n] < b[n])

(* compareVectorClocks answers DOMINATED exactly for the smaller clock.    *)
LEMMA DominatedIsBelow ==
  ASSUME NEW a \in Clock, NEW b \in Clock
  PROVE  Compare(a, b) = "DOMINATED" <=> Below(a, b)
<1>1. \A n \in Node : a[n] \in Nat /\ b[n] \in Nat
  BY DEF Clock
<1>2. Exceeds(a, b) <=> \E n \in Node : ~(a[n] <= b[n])
  BY <1>1 DEF Exceeds
<1>3. Exceeds(b, a) <=> \E n \in Node : a[n] < b[n]
  BY <1>1 DEF Exceeds
<1> QED
  BY <1>2, <1>3 DEF Compare, Below

(* ... and DOMINATES exactly for the larger one.                           *)
LEMMA DominatesIsAbove ==
  ASSUME NEW a \in Clock, NEW b \in Clock
  PROVE  Compare(a, b) = "DOMINATES" <=> Below(b, a)
<1>1. Compare(a, b) = "DOMINATES" <=> Compare(b, a) = "DOMINATED"
  BY DEF Compare
<1> QED
  BY <1>1, DominatedIsBelow

LEMMA BelowTransitive ==
  ASSUME NEW a \in Clock, NEW b \in Clock, NEW c \in Clock, Below(a, b), Below(b, c)
  PROVE  Below(a, c)
<1>1. \A n \in Node : a[n] \in Nat /\ b[n] \in Nat /\ c[n] \in Nat
  BY DEF Clock
<1> QED
  BY <1>1 DEF Below

(* mergeClocks returns a clock at least as large as both.                  *)
LEMMA MergeAbove ==
  ASSUME NEW a \in Clock, NEW b \in Clock
  PROVE  /\ MergeClocks(a, b) \in Clock
         /\ \A n \in Node : a[n] <= MergeClocks(a, b)[n] /\ b[n] <= MergeClocks(a, b)[n]
BY DEF MergeClocks, Clock

LEMMA OptionalClock ==
  ASSUME NEW S \in SUBSET Version
  PROVE  /\ ClockOr0(S) \in Clock
         /\ AtMostOne(S) => \A v \in S : ClockOr0(S) = v.clk
BY DEF ClockOr0, ZeroClock, Clock, Version, AtMostOne

(* buildNewClock: the new clock dominates the client's context and the     *)
(* coordinator's own copy.                                                 *)
LEMMA BuildAbove ==
  ASSUME NEW S \in SUBSET Version, NEW T \in SUBSET Version, NEW c \in Node,
         AtMostOne(S), AtMostOne(T)
  PROVE  /\ BuildNewClock(S, T, c) \in Clock
         /\ \A v \in S \cup T : Below(v.clk, BuildNewClock(S, T, c))
<1> DEFINE M == MergeClocks(ClockOr0(S), ClockOr0(T))
<1>1. ClockOr0(S) \in Clock /\ ClockOr0(T) \in Clock
  BY OptionalClock
<1>2. M \in Clock
  BY <1>1, MergeAbove
<1>3. BuildNewClock(S, T, c) = [M EXCEPT ![c] = M[c] + 1]
  BY DEF BuildNewClock
<1>4. BuildNewClock(S, T, c) \in Clock
  BY <1>2, <1>3 DEF Clock
<1>5. \A n \in Node : M[n] <= BuildNewClock(S, T, c)[n]
  BY <1>2, <1>3 DEF Clock
<1>6. M[c] < BuildNewClock(S, T, c)[c]
  BY <1>2, <1>3 DEF Clock
<1>7. ASSUME NEW v \in S \cup T PROVE Below(v.clk, BuildNewClock(S, T, c))
  <2>1. v.clk \in Clock /\ (v.clk = ClockOr0(S) \/ v.clk = ClockOr0(T))
    BY OptionalClock DEF Version
  <2>2. \A n \in Node : v.clk[n] <= M[n]
    BY <1>1, <2>1, MergeAbove
  <2>3. \A n \in Node : v.clk[n] \in Nat /\ M[n] \in Nat /\ BuildNewClock(S, T, c)[n] \in Nat
    BY <1>2, <1>4, <2>1 DEF Clock
  <2> HIDE DEF M
  <2>4. \A n \in Node : v.clk[n] <= BuildNewClock(S, T, c)[n]
    BY <1>5, <2>2, <2>3
  <2>5. v.clk[c] < BuildNewClock(S, T, c)[c]
    BY <1>6, <2>2, <2>3
  <2> QED
    BY <2>4, <2>5 DEF Below
<1> QED
  BY <1>4, <1>7

(* What a store holds after storeReplicatedWrite: what it held, or the     *)
(* incoming version, which then is not older than what it held.            *)
LEMMA StoreReplicatedKeeps ==
  ASSUME NEW held \in SUBSET Version, NEW incoming \in Version, AtMostOne(held)
  PROVE  /\ StoreReplicated(held, incoming) \in SUBSET Version
         /\ AtMostOne(StoreReplicated(held, incoming))
         /\ \/ StoreReplicated(held, incoming) = held
            \/ /\ StoreReplicated(held, incoming) = {incoming}
               /\ \A v \in held : ~Below(incoming.clk, v.clk)
<1>1. CASE Replaces(held, incoming)
  <2>1. ASSUME NEW v \in held PROVE ~Below(incoming.clk, v.clk)
    <3>1. Compare(v.clk, incoming.clk) # "DOMINATES"
      BY <1>1 DEF Replaces
    <3> QED
      BY <3>1, DominatesIsAbove DEF Version
  <2> QED
    BY <1>1, <2>1 DEF StoreReplicated, AtMostOne
<1>2. CASE ~Replaces(held, incoming)
  BY <1>2 DEF StoreReplicated
<1> QED
  BY <1>1, <1>2
=============================================================================
