------------------------------- MODULE Cluster -------------------------------
(***************************************************************************)
(* What is fixed when a cluster is started: its possible nodes and the     *)
(* quorum configuration main() accepts (node_main.cpp).                    *)
(***************************************************************************)
EXTENDS Naturals, FiniteSets

CONSTANTS Node,   \* node identifiers, ordered as writer_id strings are
          N,      \* replication factor
          W,      \* acks a Put needs
          R       \* replies a Get needs

ASSUME NodeAssumption == Node \subseteq Nat /\ IsFiniteSet(Node) /\ Node # {}

\* main() exits unless W <= N, R <= N and every write quorum meets every read
\* quorum.
ASSUME QuorumAssumption ==
  /\ N \in Nat \ {0} /\ W \in Nat \ {0} /\ R \in Nat \ {0}
  /\ W <= N /\ R <= N /\ W + R > N
=============================================================================
