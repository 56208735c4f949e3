------------------------------ MODULE MCSession ------------------------------
(***************************************************************************)
(* Session for TLC: nodes are 1..k and stand around the key in that order. *)
(***************************************************************************)
EXTENDS Session

MCPos == [n \in Node |-> n]

\* Every node was started with the addresses of all the others.
MCSeeds == [n \in Node |-> Node \ {n}]

MCSeedNodes == <<1, 2>>

\* Bound: the calls that fail, between client and seed and among the nodes.
FewFailures == client.timeouts + spent.losses <= 2

\* Bound: a third Put is the client's own, made with what it has seen.
ThirdIsOwn == puts[3].pc # "free" => client.asked[3] # {}
=============================================================================
