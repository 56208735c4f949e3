---------------------------- MODULE MCMembership ----------------------------
(***************************************************************************)
(* Membership for TLC.                                                     *)
(***************************************************************************)
EXTENDS Membership

\* Every node is started with the last node's address as its only seed, the
\* last node without any.
MCSeeds == [n \in Node |-> IF \A m \in Node : m <= n THEN <<>>
                           ELSE <<CHOOSE m \in Node : \A k \in Node : k <= m>>]

\* The same, with an address before it at which nothing runs.
MCDeadSeeds == [n \in Node |-> IF MCSeeds[n] = <<>> THEN <<>> ELSE <<0>> \o MCSeeds[n]]

\* Three nodes, each started with the addresses of the other two.
MCTwoSeeds == <<<<2, 3>>, <<1, 3>>, <<1, 2>>>>
=============================================================================
