------------------------------ MODULE Registers ------------------------------
(***************************************************************************)
(* What gossiped membership promises, without calls, answers or snapshots: *)
(* each node has one last-writer-wins register per subject.  A node writes *)
(* a register when it is started or told to remove a node, and otherwise   *)
(* replaces it only by something that somebody wrote and whose stamp wins. *)
(***************************************************************************)
EXTENDS Naturals

CONSTANTS Node, Value, Nothing, Beats(_, _)

VARIABLES register,   \* per node, per subject
          written     \* per subject, every value ever written

LearnedBy(n) ==
  \A x \in Node :
    \/ register'[n][x] = register[n][x]
    \/ /\ register'[n][x] \in written[x]
       /\ Beats(register'[n][x], register[n][x])

Others(n) == \A m \in Node \ {n} : register'[m] = register[m]

\* One merge, of any of the values written so far.
Learn(n) == LearnedBy(n) /\ Others(n) /\ UNCHANGED written

\* What register n of subject x becomes is written.
Written(n, x) ==
  /\ register'[n][x] \in Value
  /\ written' = [written EXCEPT ![x] = written[x] \cup {register'[n][x]}]

\* A value for subject x is written at n.
Write(n, x) ==
  /\ Written(n, x)
  /\ register'[n] = [register[n] EXCEPT ![x] = register'[n][x]]
  /\ Others(n)

\* A process starts: it has written its own register and knows no other.
Begin(n) ==
  /\ Written(n, n)
  /\ register'[n] = [x \in Node |-> IF x = n THEN register'[n][n] ELSE Nothing]
  /\ Others(n)

\* A process stops.
Forget(n) ==
  /\ register'[n] = [x \in Node |-> Nothing]
  /\ Others(n) /\ UNCHANGED written

Init ==
  /\ written \in [Node -> SUBSET Value]
  /\ register \in [Node -> [Node -> Value \cup {Nothing}]]
  /\ \A n, x \in Node : register[n][x] \in written[x] \cup {Nothing}

Next ==
  \E n \in Node :
    \/ Learn(n)
    \/ \E x \in Node : Write(n, x)
    \/ Begin(n)
    \/ Forget(n)

Spec == Init /\ [][Next]_<<register, written>>
=============================================================================
