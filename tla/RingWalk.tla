------------------------------ MODULE RingWalk ------------------------------
(***************************************************************************)
(* preferenceList (ring.hpp) as it runs: the walk over the tokens of a     *)
(* ring, from a key's hash, once around at most.  Placement states what    *)
(* the walk returns; here the walk is shown to return it, for a natural    *)
(* owner count n of N (preferenceListForKey) and of 1 (findSubstitute).    *)
(*                                                                         *)
(* Tokens and hashes are 64-bit words; only their order matters.           *)
(***************************************************************************)
EXTENDS Cluster, Sequences

CONSTANTS MaxToken,   \* tokens are 1 .. MaxToken
          MaxRing     \* bound on the tokens on the ring

ASSUME TokenAssumption == MaxToken \in Nat /\ MaxRing \in Nat

VARIABLES ring,           \* the argument: std::map from tokens to nodes
          key,            \* key_hash
          n,              \* N
          bad,            \* the nodes is_reachable rejects
          it,             \* the token under the iterator, 0 before the walk
          visited, seen, natural_count,
          pending_hints,  \* queue of natural owners waiting for a cover
          preference_list,
          pc

arguments == <<ring, key, n, bad>>
vars == <<ring, key, n, bad, it, visited, seen, natural_count, pending_hints,
          preference_list, pc>>

Token == 1 .. MaxToken
Rings == UNION {[S -> Node] : S \in {T \in SUBSET Token : Cardinality(T) <= MaxRing}}
-----------------------------------------------------------------------------
\* The smallest token of S.
First(S) == CHOOSE t \in S : \A u \in S : t <= u

\* ring.upper_bound(t), or ++it; begin() when that is the end.
After(t) ==
  LET above == {u \in DOMAIN ring : u > t}
  IN  First(IF above = {} THEN DOMAIN ring ELSE above)

Init ==
  /\ ring \in Rings /\ key \in 0 .. MaxToken
  /\ n \in {1, N} /\ bad \in SUBSET Node
  /\ it = 0 /\ visited = 0 /\ seen = {} /\ natural_count = 0
  /\ pending_hints = <<>> /\ preference_list = <<>> /\ pc = "start"

\* An empty ring is answered with an empty list.
Begin ==
  /\ pc = "start"
  /\ IF DOMAIN ring = {} THEN pc' = "done" /\ it' = it
                         ELSE pc' = "walk" /\ it' = After(key)
  /\ UNCHANGED <<arguments, visited, seen, natural_count, pending_hints,
                 preference_list>>

\* Mutant: the latest entry comes first.
Push_Front(entry) == preference_list' = <<entry>> \o preference_list

Push(entry) == preference_list' = Append(preference_list, entry)

Repeated(c) ==
  /\ c \in seen
  /\ UNCHANGED <<seen, natural_count, pending_hints, preference_list>>

\* Mutant: one owner more than asked for.
Natural_OneMore(c) ==
  /\ c \notin seen /\ seen' = seen \cup {c}
  /\ natural_count <= n /\ natural_count' = natural_count + 1
  /\ IF c \in bad
     THEN pending_hints' = Append(pending_hints, c) /\ UNCHANGED preference_list
     ELSE Push([node |-> c, hint |-> {}]) /\ UNCHANGED pending_hints

\* Among the first n distinct nodes: it stands for itself, or waits for a
\* cover.
Natural(c) ==
  /\ c \notin seen /\ seen' = seen \cup {c}
  /\ natural_count < n /\ natural_count' = natural_count + 1
  /\ IF c \in bad
     THEN pending_hints' = Append(pending_hints, c) /\ UNCHANGED preference_list
     ELSE Push([node |-> c, hint |-> {}]) /\ UNCHANGED pending_hints

\* Mutant: a cover takes the owner that was skipped last.
Cover_Stack(c) ==
  /\ c \notin seen /\ seen' = seen \cup {c}
  /\ natural_count >= n /\ c \notin bad /\ pending_hints # <<>>
  /\ Push([node |-> c, hint |-> {pending_hints[Len(pending_hints)]}])
  /\ pending_hints' = SubSeq(pending_hints, 1, Len(pending_hints) - 1)
  /\ UNCHANGED natural_count

\* Further on: a reachable node covers the owner that waits longest.
Cover(c) ==
  /\ c \notin seen /\ seen' = seen \cup {c}
  /\ natural_count >= n /\ c \notin bad /\ pending_hints # <<>>
  /\ Push([node |-> c, hint |-> {Head(pending_hints)}])
  /\ pending_hints' = Tail(pending_hints)
  /\ UNCHANGED natural_count

Pass(c) ==
  /\ c \notin seen /\ seen' = seen \cup {c}
  /\ natural_count >= n /\ (c \in bad \/ pending_hints = <<>>)
  /\ UNCHANGED <<natural_count, pending_hints, preference_list>>

\* Mutant: the walk ends with the last owner, before any cover is found.
Visit_OwnersOnly ==
  /\ pc = "walk"
  /\ Repeated(ring[it]) \/ Natural(ring[it]) \/ Cover(ring[it]) \/ Pass(ring[it])
  /\ visited' = visited + 1
  /\ IF natural_count' = n \/ visited' >= Cardinality(DOMAIN ring)
     THEN pc' = "done" /\ it' = it
     ELSE pc' = "walk" /\ it' = After(it)
  /\ UNCHANGED arguments

\* Mutant: a repeated node's token is not counted as visited.
Visit_DistinctOnly ==
  /\ pc = "walk"
  /\ Repeated(ring[it]) \/ Natural(ring[it]) \/ Cover(ring[it]) \/ Pass(ring[it])
  /\ visited' = Cardinality(seen')
  /\ IF Len(preference_list') = n \/ visited' >= Cardinality(DOMAIN ring)
     THEN pc' = "done" /\ it' = it
     ELSE pc' = "walk" /\ it' = After(it)
  /\ UNCHANGED arguments

\* One turn of the loop: the candidate, then the test for its end.
Visit ==
  /\ pc = "walk"
  /\ Repeated(ring[it]) \/ Natural(ring[it]) \/ Cover(ring[it]) \/ Pass(ring[it])
  /\ visited' = visited + 1
  /\ IF Len(preference_list') = n \/ visited' >= Cardinality(DOMAIN ring)
     THEN pc' = "done" /\ it' = it
     ELSE pc' = "walk" /\ it' = After(it)
  /\ UNCHANGED arguments

Next == Begin \/ Visit

Spec == Init /\ [][Next]_vars

\* The walk is a loop of one thread, and nothing in it waits.
FairSpec == Spec /\ WF_vars(Next)
-----------------------------------------------------------------------------
TypeOK ==
  /\ ring \in Rings /\ key \in 0 .. MaxToken /\ n \in {1, N} /\ bad \subseteq Node
  /\ it \in DOMAIN ring \cup {0} /\ visited \in 0 .. MaxRing
  /\ seen \subseteq Node /\ natural_count \in 0 .. n
  /\ pending_hints \in Seq(Node)
  /\ preference_list \in Seq([node : Node, hint : SUBSET Node])
  /\ pc \in {"start", "walk", "done"}

\* Clockwise distance from the key to the nearest token of x.
Distance(t) == IF t > key THEN t - key ELSE MaxToken + t - key
Position == [x \in Node |->
  LET own == {Distance(t) : t \in {u \in DOMAIN ring : ring[u] = x}}
  IN  IF own = {} THEN 2 * MaxToken + x ELSE First(own)]

OnRing == {ring[t] : t \in DOMAIN ring}

P(pos, k) == INSTANCE Placement WITH Pos <- pos, N <- k, W <- 1, R <- k

\* The walk ends with the entries Placement gives for the ring's nodes in the
\* order of their first tokens: every reachable natural owner, and a cover for
\* each of the others, longest-waiting first, as long as there are any; no
\* wraparound, early end or repeated token loses or repeats one.
WalkIsPlacement ==
  pc = "done" =>
    LET entries == {preference_list[i] : i \in DOMAIN preference_list}
    IN  /\ entries = P(Position, n)!PreferenceList(OnRing, bad)
        /\ Cardinality(entries) = Len(preference_list)

\* preferenceList with N = 1 returns the nearest node that is not rejected,
\* which is what findSubstitute takes it for, although that node is listed as
\* a cover and not as an owner.
WalkFindsNearest ==
  pc = "done" /\ n = 1 =>
    {preference_list[i].node : i \in DOMAIN preference_list}
      = P(Position, 1)!Nearest(OnRing \ bad)

\* Owners come before covers, and each in the order of the walk: forwardPut
\* and the fan-out go through the list as it stands.
ListInWalkOrder ==
  \A i, j \in DOMAIN preference_list : i < j =>
    \/ /\ preference_list[i].hint = {} /\ preference_list[j].hint # {}
    \/ /\ preference_list[i].hint = {} <=> preference_list[j].hint = {}
       /\ Position[preference_list[i].node] < Position[preference_list[j].node]

\* The walk comes to an end, whatever the ring and whoever is rejected.
Terminates == <>(pc = "done")
=============================================================================
