---------------------------- MODULE MCDriftStore ----------------------------
(***************************************************************************)
(* DriftStore for TLC: nodes are 1..k and stand around the key in that     *)
(* order.                                                                  *)
(***************************************************************************)
EXTENDS Progress

MCPos == [n \in Node |-> n]

\* Every node was started with the addresses of all the others.
MCSeeds == [n \in Node |-> Node \ {n}]

\* Every node was started with every address, its own among them.
MCOwnSeeds == [n \in Node |-> Node]

\* A constraint for runs with one Get: a read that began before any write was
\* acknowledged has nothing to cover, then or later, and is not followed.
ReadHasDuties == \A g \in GetIds : gets[g].pc # "free" => gets[g].before # {}

\* Bound: a node's ring loses one node, or is left with that node alone.
FewRemoved == \A n \in Node : Cardinality(Node \ ring[n]) <= 1 \/ ring[n] = {n}
=============================================================================
