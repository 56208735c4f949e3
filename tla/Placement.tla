------------------------------ MODULE Placement ------------------------------
(***************************************************************************)
(* Where a key lives: what preferenceList (ring.hpp) returns, and the two  *)
(* callers of it in node_kv.cpp.                                           *)
(*                                                                         *)
(* The walk visits the ring's tokens clockwise from the key's hash and     *)
(* looks at each node once, at its first token, so a ring is the set of    *)
(* nodes that have tokens on it, and Pos is the order of their first       *)
(* tokens clockwise from the key.  Tokens are hashes of the node's name,   *)
(* so every node computes the same order.                                  *)
(***************************************************************************)
EXTENDS Cluster

CONSTANT Pos      \* clockwise position of a node's first token after the key

ASSUME PosAssumption ==
  /\ Pos \in [Node -> Nat]
  /\ \A m, n \in Node : Pos[m] = Pos[n] => m = n

\* PreferenceListEntry: the node, and the node it holds a hint for (a set of
\* at most one node: hint_for_node_id is optional).
Entry == [node : Node, hint : SUBSET Node]

\* How many nodes of S come before x.
Rank(S, x) == Cardinality({y \in S : Pos[y] < Pos[x]})

\* The first N distinct nodes of the walk, reachable or not.
NaturalOwners(ring, k) == {x \in ring : Rank(ring, x) < k}

\* Natural owners that are reachable stand for themselves.  The others queue
\* up, and the i-th of them is covered by the i-th reachable node after the
\* natural owners.
PreferenceList(ring, bad) ==
  LET natural == NaturalOwners(ring, N)
      pending == natural \cap bad
      spare   == (ring \ natural) \ bad
  IN  [node : natural \ bad, hint : {{}}]
      \cup {e \in [node : spare, hint : {{x} : x \in pending}] :
              \A x \in e.hint : Rank(spare, e.node) = Rank(pending, x)}

NodesOf(list) == {e.node : e \in list}

\* The first of S in walk order from the key: one node, none if S is empty.
Nearest(S) == {x \in S : \A y \in S : Pos[x] <= Pos[y]}

\* Mutant: the owner may stand in for itself.
Candidates_Owner(ring, bad, excluded, owner) == ring \ (bad \cup excluded)

\* findSubstitute: the nodes that may take over a write meant for owner.  The
\* walk with N = 1 returns the nearest of them.
Candidates(ring, bad, excluded, owner) == ring \ (bad \cup excluded \cup {owner})

\* forwardPut's loop: the list is tried in walk order, cyclically, from a
\* random start.  The next of the targets still untried.
NextTarget(untried, start) ==
  LET ahead == {x \in untried : Pos[x] >= Pos[start]}
  IN  Nearest(IF ahead = {} THEN untried ELSE ahead)
=============================================================================
