---------------------------- MODULE SessionProofs ----------------------------
(***************************************************************************)
(* A DriftClient is one of the clients DriftStore allows for, and what its *)
(* puts write supersedes the context they were made with: for every        *)
(* cluster, every list of seeds, every number of calls, and crashes.       *)
(***************************************************************************)
EXTENDS Session, QuorumProofs, Integers

-----------------------------------------------------------------------------
(* What a step may do to a Put.                                            *)

\* The Put has its context still, for the version it will build.
Live == {"admitted", "routing", "commit", "forward", "waiting"}

\* Nothing but progress: the version, the context and an answer stay.
Moves(p) ==
  /\ puts'[p].ver = puts[p].ver /\ puts'[p].ctx = puts[p].ctx
  /\ puts'[p].forwarded = puts[p].forwarded
  /\ puts[p].pc # "free" => puts'[p].pc # "free"
  /\ puts'[p].pc \in Live => puts[p].pc \in Live
  /\ puts'[p].pc = "waiting" => puts[p].pc = "waiting" /\ puts'[p].child = puts[p].child
  /\ Done(p) => puts'[p].pc = puts[p].pc

AllMove == \A p \in PutIds : Moves(p)

LEMMA PutsAloneMove == ASSUME UNCHANGED puts PROVE AllMove
BY DEF AllMove, Moves

LEMMA AllMoveButOne ==
  ASSUME TypeOK, NEW p \in PutIds, NEW r, puts' = [puts EXCEPT ![p] = r],
         r.ver = puts[p].ver, r.ctx = puts[p].ctx, r.forwarded = puts[p].forwarded,
         puts[p].pc # "free" => r.pc # "free",
         r.pc \in Live => puts[p].pc \in Live,
         r.pc = "waiting" => puts[p].pc = "waiting" /\ r.child = puts[p].child,
         Done(p) => r.pc = puts[p].pc
  PROVE  AllMove
<1>1. puts \in [PutIds -> PutRec]
  BY TypeParts
<1>2. puts'[p] = r /\ \A q \in PutIds \ {p} : puts'[q] = puts[q]
  BY <1>1
<1>3. Moves(p)
  BY <1>2 DEF Moves
<1>4. \A q \in PutIds \ {p} : Moves(q)
  BY <1>2 DEF Moves
<1> QED
  BY <1>3, <1>4 DEF AllMove

LEMMA AllMoveSnapshotPut == ASSUME TypeOK, NEW p \in PutIds, SnapshotPut(p) PROVE AllMove
<1> DEFINE r == [puts[p] EXCEPT !.pc = "routing", !.bad = unreachable[puts[p].at]]
<1>1. puts[p] \in PutRec
  BY TypeParts
<1>2. /\ r.ver = puts[p].ver /\ r.ctx = puts[p].ctx /\ r.forwarded = puts[p].forwarded
      /\ r.pc = "routing"
  BY <1>1 DEF PutRec
<1>3. puts' = [puts EXCEPT ![p] = r] /\ puts[p].pc = "admitted"
  BY DEF SnapshotPut
<1> HIDE DEF r
<1> QED
  BY <1>2, <1>3, AllMoveButOne DEF Live, Done

LEMMA AllMoveRoutePut == ASSUME TypeOK, NEW p \in PutIds, RoutePut(p) PROVE AllMove
<1> DEFINE list == PreferenceList(ring[puts[p].at], puts[p].bad)
           to == NodesOf(list)
           goes(pc) == [puts[p] EXCEPT !.pc = pc, !.bad = {}]
           a == [goes(IF Cardinality(list) < W THEN "refused" ELSE "commit") EXCEPT !.pref = list]
           b == goes("refused")
           c(s) == [goes("forward") EXCEPT !.untried = to, !.start = s]
           Same(r) == /\ r.ver = puts[p].ver /\ r.ctx = puts[p].ctx
                      /\ r.forwarded = puts[p].forwarded
                      /\ r.pc \in {"refused", "commit", "forward"}
<1>1. puts[p] \in PutRec
  BY TypeParts
<1>2. /\ puts[p].pc = "routing"
      /\ \/ puts' = [puts EXCEPT ![p] = a]
         \/ puts' = [puts EXCEPT ![p] = b]
         \/ \E s \in to : puts' = [puts EXCEPT ![p] = c(s)]
  BY DEF RoutePut
<1> HIDE DEF list, to
<1>3. Same(a) /\ Same(b) /\ \A s : Same(c(s))
  BY <1>1 DEF PutRec
<1> HIDE DEF a, b, c
<1>4. \E r : puts' = [puts EXCEPT ![p] = r] /\ Same(r)
  BY <1>2, <1>3
<1> QED
  BY <1>2, <1>4, AllMoveButOne DEF Live, Done

LEMMA AllMovePutJoin == ASSUME TypeOK, NEW p \in PutIds, PutJoin(p) PROVE AllMove
<1> DEFINE r == [puts[p] EXCEPT !.pc = IF puts[p].acks < W THEN "short" ELSE "ok"]
<1>1. puts[p] \in PutRec
  BY TypeParts
<1>2. /\ r.ver = puts[p].ver /\ r.ctx = puts[p].ctx /\ r.forwarded = puts[p].forwarded
      /\ r.pc \in {"short", "ok"}
  BY <1>1 DEF PutRec
<1>3. puts' = [puts EXCEPT ![p] = r] /\ puts[p].pc = "fanout"
  BY DEF PutJoin
<1> HIDE DEF r
<1> QED
  BY <1>2, <1>3, AllMoveButOne DEF Live, Done

LEMMA AllMoveForwardFails == ASSUME TypeOK, NEW p \in PutIds, NEW t, ForwardFails(p, t) PROVE AllMove
<1> DEFINE r == [puts[p] EXCEPT !.untried = puts[p].untried \ {t}]
<1>1. puts[p] \in PutRec
  BY TypeParts
<1>2. /\ r.ver = puts[p].ver /\ r.ctx = puts[p].ctx /\ r.forwarded = puts[p].forwarded
      /\ r.pc = puts[p].pc
  BY <1>1 DEF PutRec
<1>3. puts' = [puts EXCEPT ![p] = r] /\ puts[p].pc = "forward"
  BY DEF ForwardFails
<1> HIDE DEF r
<1> QED
  BY <1>2, <1>3, AllMoveButOne DEF Live, Done

LEMMA AllMoveForwardBreaks == ASSUME TypeOK, NEW p \in PutIds, NEW q, ForwardBreaks(p, q) PROVE AllMove
<1> DEFINE r == [puts[p] EXCEPT !.pc = "forward", !.child = {}]
<1>1. puts[p] \in PutRec
  BY TypeParts
<1>2. /\ r.ver = puts[p].ver /\ r.ctx = puts[p].ctx /\ r.forwarded = puts[p].forwarded
      /\ r.pc = "forward"
  BY <1>1 DEF PutRec
<1>3. puts' = [puts EXCEPT ![p] = r] /\ puts[p].pc = "waiting"
  BY DEF ForwardBreaks
<1> HIDE DEF r
<1> QED
  BY <1>2, <1>3, AllMoveButOne DEF Live, Done

LEMMA AllMoveForwardExhausted == ASSUME TypeOK, NEW p \in PutIds, ForwardExhausted(p) PROVE AllMove
<1> DEFINE r == [puts[p] EXCEPT !.pc = "refused"]
<1>1. puts[p] \in PutRec
  BY TypeParts
<1>2. /\ r.ver = puts[p].ver /\ r.ctx = puts[p].ctx /\ r.forwarded = puts[p].forwarded
      /\ r.pc = "refused"
  BY <1>1 DEF PutRec
<1>3. puts' = [puts EXCEPT ![p] = r] /\ puts[p].pc = "forward"
  BY DEF ForwardExhausted
<1> HIDE DEF r
<1> QED
  BY <1>2, <1>3, AllMoveButOne DEF Live, Done

LEMMA AllMovePutAck == ASSUME TypeOK, NEW m \in rpcs, PutAck(m) PROVE AllMove
<1> DEFINE r == [puts[m.by] EXCEPT !.acks = puts[m.by].acks + 1,
                                   !.ackers = puts[m.by].ackers \cup {m.to},
                                   !.owners = IF m.hinted THEN puts[m.by].owners
                                              ELSE puts[m.by].owners \cup {m.to}]
<1>1. puts' = [puts EXCEPT ![m.by] = r] /\ puts \in [PutIds -> PutRec]
  BY TypeParts DEF PutAck
<1>2. CASE m.by \in PutIds
  <2>1. puts[m.by] \in PutRec
    BY <1>1, <1>2
  <2>2. /\ r.ver = puts[m.by].ver /\ r.ctx = puts[m.by].ctx /\ r.child = puts[m.by].child
        /\ r.forwarded = puts[m.by].forwarded /\ r.pc = puts[m.by].pc
    BY <2>1 DEF PutRec
  <2> HIDE DEF r
  <2> QED
    BY <1>1, <1>2, <2>2, AllMoveButOne
<1>3. CASE m.by \notin PutIds
  <2> HIDE DEF r
  <2>1. UNCHANGED puts
    BY <1>1, <1>3
  <2> QED
    BY <2>1, PutsAloneMove
<1> QED
  BY <1>2, <1>3

LEMMA AllMoveCrash == ASSUME TypeOK, NEW n \in Node, Crash(n) PROVE AllMove
<1> SUFFICES ASSUME NEW p \in PutIds PROVE Moves(p)
  BY DEF AllMove
<1>1. puts[p] \in PutRec
  BY TypeParts
<1>2. \/ puts'[p] = puts[p]
      \/ puts[p].pc # "free" /\ ~Done(p) /\ puts'[p] = [puts[p] EXCEPT !.pc = "dead"]
  BY DEF Crash
<1>3. CASE puts'[p] = puts[p]
  BY <1>3 DEF Moves
<1>4. CASE puts[p].pc # "free" /\ ~Done(p) /\ puts'[p] = [puts[p] EXCEPT !.pc = "dead"]
  <2>1. /\ puts'[p].ver = puts[p].ver /\ puts'[p].ctx = puts[p].ctx
        /\ puts'[p].forwarded = puts[p].forwarded /\ puts'[p].pc = "dead"
    BY <1>1, <1>4 DEF PutRec
  <2> QED
    BY <1>4, <2>1 DEF Moves, Live
<1> QED
  BY <1>2, <1>3, <1>4

\* The steps of Next that do more with a Put than Moves, named.
LEMMA StepMoves ==
  ASSUME TypeOK, Next
  PROVE  \/ AllMove
         \/ \E p \in PutIds : \E n \in Node : \E ctx : ClientPut(p, n, ctx)
         \/ \E p \in PutIds : \E e \in puts[p].pref, ts \in Times : PutCommit(p, e, ts)
         \/ \E p, q \in PutIds : \E t \in Node : ForwardSend(p, q, t)
         \/ \E p, q \in PutIds : ForwardRelay(p, q)
<1> DEFINE New == \E p \in PutIds : \E n \in Node : \E ctx : ClientPut(p, n, ctx)
           Commit == \E p \in PutIds : \E e \in puts[p].pref, ts \in Times : PutCommit(p, e, ts)
           Send == \E p, q \in PutIds : \E t \in Node : ForwardSend(p, q, t)
           Relay == \E p, q \in PutIds : ForwardRelay(p, q)
<1>1. ASSUME NEW p \in PutIds, PutStep(p) PROVE AllMove \/ New \/ Commit \/ Send \/ Relay
  <2>1. PutContacts \subseteq Node /\ puts[p].untried \subseteq Node /\ puts[p].child \subseteq PutIds
    BY PutFields, BoundAssumption DEF PutRec
  <2>2. (\E n \in PutContacts : \E ctx \in {{}} \cup {{v} : v \in Seen} : ClientPut(p, n, ctx)) => New
    BY <2>1
  <2>3. (\E e \in puts[p].pref, ts \in Times : PutCommit(p, e, ts)) => Commit
    OBVIOUS
  <2>4. ASSUME NEW t \in puts[p].untried
        PROVE  /\ ForwardFails(p, t) => AllMove
               /\ (\E q \in PutIds : ForwardSend(p, q, t)) => Send
    BY <2>1, AllMoveForwardFails
  <2>5. ASSUME NEW q \in puts[p].child
        PROVE  /\ ForwardBreaks(p, q) => AllMove
               /\ ForwardRelay(p, q) => Relay
    BY <2>1, AllMoveForwardBreaks
  <2>6. SnapshotPut(p) \/ RoutePut(p) \/ PutJoin(p) \/ ForwardExhausted(p) => AllMove
    BY AllMoveSnapshotPut, AllMoveRoutePut, AllMovePutJoin, AllMoveForwardExhausted
  <2> HIDE DEF New, Commit, Send, Relay
  <2> QED
    BY <1>1, <2>2, <2>3, <2>4, <2>5, <2>6 DEF PutStep
<1>2. ASSUME NEW g \in GetIds, GetStep(g) PROVE AllMove
  <2>1. UNCHANGED puts
    BY <1>2 DEF GetStep, ClientGet, SnapshotGet, RouteGet, ReadReplica, ReadFails, FinishGet
  <2> QED
    BY <2>1, PutsAloneMove
<1>3. ASSUME NEW m \in rpcs, RpcStep(m) PROVE AllMove
  <2>1. UNCHANGED puts \/ PutAck(m)
    BY <1>3 DEF RpcStep, RefuseWrite, StoreWrite, MarkHint, StoreHint, PutCallFails,
              SnapshotTask, Substitute, RepairDone, BackgroundCallFails, HintDelivered, HintRefused
  <2> QED
    BY <2>1, PutsAloneMove, AllMovePutAck
<1>4. ASSUME NEW n \in Node, NodeStep(n) PROVE AllMove
  <2>1. UNCHANGED puts \/ Crash(n)
    BY <1>4 DEF NodeStep, PingOk, MarkReachable, DeliverHints, GossipFails, Bootstrap, BootstrapFails,
                ChangeRing, Restart
  <2> QED
    BY <2>1, PutsAloneMove, AllMoveCrash
<1> HIDE DEF New, Commit, Send, Relay
<1>5. AllMove \/ New \/ Commit \/ Send \/ Relay
  BY <1>1, <1>2, <1>3, <1>4 DEF Next
<1> QED
  BY <1>5 DEF New, Commit, Send, Relay

-----------------------------------------------------------------------------
(* What Puts carry.                                                        *)

\* p was made with the context S: it holds S until it builds its version or
\* has an answer, and its version is above S.
Carries(p, S) ==
  /\ puts[p].pc # "free"
  /\ puts[p].pc \in Live => puts[p].ctx = S
  /\ \A v \in puts[p].ver, w \in S : Compare(w.clk, v.clk) = "DOMINATED"

\* A forwarded call was given the context of the Put it is for.
ChildrenCarry ==
  \A p \in PutIds : puts[p].pc = "waiting" =>
    puts[p].child \subseteq PutIds /\ \A q \in puts[p].child : Carries(q, puts[p].ctx)

\* An answer to a client stays, and so does what kind of call it answers.
PutStays(p) ==
  /\ Done(p) => puts'[p].pc = puts[p].pc /\ puts'[p].ver = puts[p].ver
  /\ puts[p].pc # "free" =>
       puts'[p].pc # "free" /\ puts'[p].forwarded = puts[p].forwarded
  /\ AtMostOne(puts'[p].ver)

OneVersion == \A p \in PutIds : AtMostOne(puts[p].ver)

KeepsCarrying ==
  /\ \A p \in PutIds : PutStays(p) /\ \A S : Carries(p, S) => Carries(p, S)'
  /\ ChildrenCarry'

LEMMA MoveKeeps == ASSUME ChildrenCarry, OneVersion, AllMove PROVE KeepsCarrying
<1>1. ASSUME NEW p \in PutIds, NEW S, Carries(p, S) PROVE Carries(p, S)'
  BY <1>1 DEF AllMove, Moves, Carries
<1>2. ASSUME NEW p \in PutIds PROVE PutStays(p)
  BY DEF AllMove, Moves, PutStays, OneVersion
<1>3. ASSUME NEW p \in PutIds, puts'[p].pc = "waiting", NEW q \in puts'[p].child
      PROVE  q \in PutIds /\ Carries(q, puts[p].ctx)' 
  <2>1. puts[p].pc = "waiting" /\ puts'[p].child = puts[p].child /\ puts'[p].ctx = puts[p].ctx
    BY <1>3 DEF AllMove, Moves
  <2>2. q \in PutIds /\ Carries(q, puts[p].ctx)
    BY <1>3, <2>1 DEF ChildrenCarry
  <2>3. PICK S : S = puts[p].ctx
    OBVIOUS
  <2>4. Carries(q, S)'
    BY <1>1, <2>2, <2>3
  <2> QED
    BY <2>1, <2>2, <2>3, <2>4 DEF Carries
<1> QED
  BY <1>1, <1>2, <1>3 DEF KeepsCarrying, ChildrenCarry

LEMMA ClientPutKeeps ==
  ASSUME TypeOK, ChildrenCarry, OneVersion, NEW p \in PutIds, NEW n, NEW ctx, ClientPut(p, n, ctx)
  PROVE  KeepsCarrying
<1> DEFINE r == NewPut(n, Admission(n), FALSE, ctx)
<1>1. /\ puts \in [PutIds -> PutRec] /\ puts[p].pc = "free"
      /\ puts' = [puts EXCEPT ![p] = r]
  BY TypeParts DEF ClientPut, Fresh
<1>2. r.pc # "waiting" /\ r.ver = {}
  BY DEF NewPut, Admission
<1> HIDE DEF r
<1>3. puts'[p] = r /\ \A q \in PutIds \ {p} : puts'[q] = puts[q]
  BY <1>1
<1>4. ASSUME NEW q \in PutIds, NEW S, Carries(q, S) PROVE q # p /\ Carries(q, S)'
  BY <1>1, <1>3, <1>4 DEF Carries
<1>5. ASSUME NEW q \in PutIds PROVE PutStays(q)
  BY <1>1, <1>2, <1>3 DEF PutStays, Done, OneVersion, AtMostOne
<1>6. ASSUME NEW w \in PutIds, puts'[w].pc = "waiting", NEW q \in puts'[w].child
      PROVE  q \in PutIds /\ Carries(q, puts[w].ctx)'
  <2>1. w # p /\ puts'[w] = puts[w]
    BY <1>2, <1>3, <1>6
  <2>2. q \in PutIds /\ Carries(q, puts[w].ctx)
    BY <1>6, <2>1 DEF ChildrenCarry
  <2>3. puts'[q] = puts[q]
    BY <1>3, <1>4, <2>2
  <2> QED
    BY <2>1, <2>2, <2>3 DEF Carries
<1> QED
  BY <1>4, <1>5, <1>6 DEF KeepsCarrying, ChildrenCarry

LEMMA CommitFlag ==
  ASSUME TypeOK, NEW p \in PutIds, NEW e, NEW ts, PutCommit(p, e, ts)
  PROVE  puts'[p].forwarded = puts[p].forwarded
<1> DEFINE past == UNION {{v.id} \cup puts[v.id].past : v \in puts[p].ctx \cup OwnCopy(p, e)}
           r == [puts[p] EXCEPT !.pc = "fanout", !.pref = {}, !.ctx = {},
                                !.ver = {CommitVer(p, e, ts)}, !.acks = 1,
                                !.ackers = {puts[p].at},
                                !.owners = IF e.hint = {} THEN {puts[p].at} ELSE {},
                                !.past = past]
<1>1. puts \in [PutIds -> PutRec] /\ puts[p] \in PutRec
  BY TypeParts
<1>2. puts' = [puts EXCEPT ![p] = r]
  BY DEF PutCommit, CommitVer
<1> HIDE DEF past
<1>3. r.forwarded = puts[p].forwarded
  BY <1>1 DEF PutRec
<1> HIDE DEF r
<1> QED
  BY <1>1, <1>2, <1>3

\* What a Put builds is above the context it holds.
LEMMA CommitKeeps ==
  ASSUME CausalInv, ChildrenCarry, OneVersion, NEW p \in PutIds, NEW e, NEW ts \in Times, PutCommit(p, e, ts)
  PROVE  KeepsCarrying
<1> DEFINE ver == CommitVer(p, e, ts)
<1>1. /\ ver \in Version /\ puts[p].ctx \subseteq Issued
      /\ \A v \in puts[p].ctx : Below(v.clk, ver.clk)
      /\ puts'[p].ver = {ver} /\ puts'[p].pc = "fanout"
      /\ puts'[p].forwarded = puts[p].forwarded
      /\ \A q \in PutIds \ {p} : puts'[q] = puts[q]
  BY CommitFacts, CommitFlag, CausalParts
<1>2. puts[p].pc = "commit"
  BY DEF PutCommit
<1> HIDE DEF ver
<1>3. \A w \in puts[p].ctx : Compare(w.clk, ver.clk) = "DOMINATED"
  <2> SUFFICES ASSUME NEW w \in puts[p].ctx PROVE Compare(w.clk, ver.clk) = "DOMINATED"
    OBVIOUS
  <2>1. w.clk \in Clock /\ ver.clk \in Clock
    BY <1>1, IssuedIsItsPut DEF Version
  <2> QED
    BY <1>1, <2>1, DominatedIsBelow
<1>4. ASSUME NEW q \in PutIds, NEW S, Carries(q, S) PROVE Carries(q, S)'
  <2>1. CASE q = p
    <3>1. puts[p].ctx = S
      BY <1>2, <1>4, <2>1 DEF Carries, Live
    <3> QED
      BY <1>1, <1>3, <2>1, <3>1 DEF Carries, Live
  <2>2. CASE q # p
    BY <1>1, <1>4, <2>2 DEF Carries
  <2> QED
    BY <2>1, <2>2
<1>5. ASSUME NEW q \in PutIds PROVE PutStays(q)
  BY <1>1, <1>2 DEF PutStays, Done, OneVersion, AtMostOne
<1>6. ASSUME NEW w \in PutIds, puts'[w].pc = "waiting", NEW q \in puts'[w].child
      PROVE  q \in PutIds /\ Carries(q, puts[w].ctx)'
  <2>1. w # p /\ puts'[w] = puts[w]
    BY <1>1, <1>6
  <2>2. q \in PutIds /\ Carries(q, puts[w].ctx)
    BY <1>6, <2>1 DEF ChildrenCarry
  <2>3. PICK S : S = puts[w].ctx
    OBVIOUS
  <2>4. Carries(q, S)'
    BY <1>4, <2>2, <2>3
  <2> QED
    BY <2>1, <2>2, <2>3, <2>4 DEF Carries
<1> QED
  BY <1>4, <1>5, <1>6 DEF KeepsCarrying, ChildrenCarry

LEMMA SendKeeps ==
  ASSUME CausalInv, ChildrenCarry, OneVersion, NEW p \in PutIds, NEW q \in PutIds, NEW t \in Node,
         ForwardSend(p, q, t)
  PROVE  KeepsCarrying
<1> DEFINE r == [puts[p] EXCEPT !.pc = "waiting", !.child = {q},
                                !.untried = puts[p].untried \ {t}]
           c == NewPut(t, Admission(t), TRUE, puts[p].ctx)
<1>1. puts \in [PutIds -> PutRec] /\ puts[p] \in PutRec
  BY CausalParts, TypeParts
<1>2. /\ puts' = [puts EXCEPT ![p] = r, ![q] = c]
      /\ puts[p].pc = "forward" /\ puts[q].pc = "free"
  BY DEF ForwardSend, Fresh
<1>3. /\ r.ver = puts[p].ver /\ r.ctx = puts[p].ctx /\ r.pc = "waiting" /\ r.child = {q}
      /\ r.forwarded = puts[p].forwarded
  BY <1>1 DEF PutRec
<1>4. c.ver = {} /\ c.ctx = puts[p].ctx /\ c.pc \in {"admitted", "refused"}
  BY DEF NewPut, Admission
<1> HIDE DEF r, c
<1>5. /\ p # q /\ puts'[q] = c /\ puts'[p] = r
      /\ \A x \in PutIds \ {p, q} : puts'[x] = puts[x]
  BY <1>1, <1>2
<1>6. ASSUME NEW x \in PutIds, NEW S, Carries(x, S) PROVE x # q /\ Carries(x, S)'
  <2>1. x # q
    BY <1>2, <1>6 DEF Carries
  <2>2. CASE x = p
    BY <1>2, <1>3, <1>5, <1>6, <2>2 DEF Carries, Live
  <2>3. CASE x # p
    BY <1>5, <1>6, <2>1, <2>3 DEF Carries
  <2> QED
    BY <2>1, <2>2, <2>3
<1>7. ASSUME NEW x \in PutIds PROVE PutStays(x)
  <2>1. CASE x = p
    BY <1>2, <1>3, <1>5, <2>1 DEF PutStays, Done, OneVersion
  <2>2. CASE x = q
    BY <1>2, <1>4, <1>5, <2>2 DEF PutStays, Done, AtMostOne
  <2>3. CASE x \notin {p, q}
    BY <1>5, <2>3 DEF PutStays, Done, OneVersion
  <2> QED
    BY <2>1, <2>2, <2>3
<1>8. Carries(q, puts[p].ctx)'
  BY <1>3, <1>4, <1>5 DEF Carries
<1>9. ASSUME NEW w \in PutIds, puts'[w].pc = "waiting", NEW x \in puts'[w].child
      PROVE  x \in PutIds /\ Carries(x, puts[w].ctx)'
  <2>1. CASE w = p
    BY <1>3, <1>5, <1>8, <1>9, <2>1
  <2>2. CASE w # p
    <3>1. puts'[w] = puts[w]
      BY <1>4, <1>5, <1>9, <2>2
    <3>2. x \in PutIds /\ Carries(x, puts[w].ctx)
      BY <1>9, <3>1 DEF ChildrenCarry
    <3>3. PICK S : S = puts[w].ctx
      OBVIOUS
    <3>4. Carries(x, S)'
      BY <1>6, <3>2, <3>3
    <3> QED
      BY <3>1, <3>2, <3>3, <3>4 DEF Carries
  <2> QED
    BY <2>1, <2>2
<1> QED
  BY <1>6, <1>7, <1>9 DEF KeepsCarrying, ChildrenCarry

\* A relayed version is above the context that was sent along.
LEMMA RelayKeeps ==
  ASSUME TypeOK, ChildrenCarry, OneVersion, NEW p \in PutIds, NEW q \in PutIds, ForwardRelay(p, q)
  PROVE  KeepsCarrying
<1> DEFINE r == [puts[p] EXCEPT !.pc = puts[q].pc, !.ver = puts[q].ver,
                                !.acks = puts[q].acks, !.ackers = puts[q].ackers]
<1>1. puts \in [PutIds -> PutRec] /\ puts[p] \in PutRec
  BY TypeParts
<1>2. /\ puts' = [puts EXCEPT ![p] = r] /\ puts[p].pc = "waiting" /\ q \in puts[p].child
      /\ puts[q].pc \in {"ok", "short", "refused"}
  BY DEF ForwardRelay, Done
<1>3. /\ r.ver = puts[q].ver /\ r.pc \in {"ok", "short", "refused"}
      /\ r.forwarded = puts[p].forwarded
  BY <1>1, <1>2 DEF PutRec
<1> HIDE DEF r
<1>4. puts'[p] = r /\ \A x \in PutIds \ {p} : puts'[x] = puts[x]
  BY <1>1, <1>2
<1>5. \A v \in puts[q].ver, w \in puts[p].ctx : Compare(w.clk, v.clk) = "DOMINATED"
  BY <1>2 DEF ChildrenCarry, Carries
<1>6. ASSUME NEW x \in PutIds, NEW S, Carries(x, S) PROVE Carries(x, S)'
  <2>1. CASE x = p
    <3>1. puts[p].ctx = S
      BY <1>2, <1>6, <2>1 DEF Carries, Live
    <3> QED
      BY <1>3, <1>4, <1>5, <2>1, <3>1 DEF Carries, Live
  <2>2. CASE x # p
    BY <1>4, <1>6, <2>2 DEF Carries
  <2> QED
    BY <2>1, <2>2
<1>7. ASSUME NEW x \in PutIds PROVE PutStays(x)
  BY <1>2, <1>3, <1>4 DEF PutStays, Done, OneVersion
<1>8. ASSUME NEW w \in PutIds, puts'[w].pc = "waiting", NEW x \in puts'[w].child
      PROVE  x \in PutIds /\ Carries(x, puts[w].ctx)'
  <2>1. puts'[w] = puts[w]
    BY <1>3, <1>4, <1>8
  <2>2. x \in PutIds /\ Carries(x, puts[w].ctx)
    BY <1>8, <2>1 DEF ChildrenCarry
  <2>3. PICK S : S = puts[w].ctx
    OBVIOUS
  <2>4. Carries(x, S)'
    BY <1>6, <2>2, <2>3
  <2> QED
    BY <2>1, <2>2, <2>3, <2>4 DEF Carries
<1> QED
  BY <1>6, <1>7, <1>8 DEF KeepsCarrying, ChildrenCarry

LEMMA NextKeeps ==
  ASSUME CausalInv, ChildrenCarry, OneVersion, [Next]_vars PROVE KeepsCarrying
<1>1. TypeOK
  BY CausalParts
<1>2. CASE UNCHANGED vars
  <2>1. UNCHANGED puts
    BY <1>2 DEF vars
  <2> QED
    BY <2>1, PutsAloneMove, MoveKeeps
<1>3. CASE Next
  BY <1>1, <1>3, StepMoves, MoveKeeps, ClientPutKeeps, CommitKeeps, SendKeeps, RelayKeeps
<1> QED
  BY <1>2, <1>3

-----------------------------------------------------------------------------
(* What a client has seen it has seen: the versions whose clocks a client  *)
(* may hold only become more.                                              *)

WonByOk ==
  \A g \in GetIds : AtMostOne(gets[g].win) /\ (gets[g].win # {} => gets[g].pc = "ok")

WinsStay == /\ \A g \in GetIds : gets[g].win # {} => gets'[g].win = gets[g].win
            /\ WonByOk'

LEMMA GetsAloneStay == ASSUME WonByOk, UNCHANGED gets PROVE WinsStay
BY DEF WinsStay, WonByOk

LEMMA OneGetStays ==
  ASSUME TypeOK, WonByOk, NEW g \in GetIds, NEW r, gets' = [gets EXCEPT ![g] = r],
         gets[g].pc # "ok", r.win = {} \/ r.win = gets[g].win \/ (r.pc = "ok" /\ AtMostOne(r.win))
  PROVE  WinsStay
<1>1. gets \in [GetIds -> GetRec]
  BY TypeParts
<1>2. gets[g].win = {}
  BY DEF WonByOk
<1>3. gets'[g] = r /\ \A h \in GetIds \ {g} : gets'[h] = gets[h]
  BY <1>1
<1> QED
  BY <1>2, <1>3 DEF WinsStay, WonByOk, AtMostOne

LEMMA GetStepStays ==
  ASSUME TypeOK, WonByOk, NEW g \in GetIds, GetStep(g) PROVE WinsStay
<1>1. gets[g] \in GetRec
  BY TypeParts
<1>2. ASSUME NEW n, ClientGet(g, n) PROVE WinsStay
  <2> DEFINE r == NewGet(n, IF isSelfRemoved(n) THEN "failed" ELSE "admitted", Acked)
  <2>1. gets' = [gets EXCEPT ![g] = r] /\ gets[g].pc = "free" /\ r.win = {}
    BY <1>2 DEF ClientGet, FreshGet, NewGet
  <2> HIDE DEF r
  <2> QED
    BY <2>1, OneGetStays
<1>3. ASSUME RouteGet(g) PROVE WinsStay
  <2> DEFINE list == PreferenceList(ring[gets[g].at], gets[g].bad)
             r == IF Cardinality(list) < R
                  THEN [gets[g] EXCEPT !.pc = "failed", !.bad = {}]
                  ELSE [gets[g] EXCEPT !.pc = "reading", !.bad = {}, !.pending = NodesOf(list)]
  <2>1. gets' = [gets EXCEPT ![g] = r] /\ gets[g].pc = "routing"
    BY <1>3 DEF RouteGet
  <2> HIDE DEF list
  <2>2. r.win = gets[g].win
    BY <1>1 DEF GetRec
  <2> HIDE DEF r
  <2> QED
    BY <2>1, <2>2, OneGetStays
<1>4. ASSUME NEW n, ReadReplica(g, n) PROVE WinsStay
  <2> DEFINE at == gets[g].at
             reply == [node |-> n, ver |-> IF n # at /\ isSelfRemoved(n) THEN {} ELSE kv[n]]
             r == [gets[g] EXCEPT !.pending = gets[g].pending \ {n},
                                  !.results = gets[g].results \cup {reply}]
  <2>1. gets' = [gets EXCEPT ![g] = r] /\ gets[g].pc = "reading"
    BY <1>4 DEF ReadReplica
  <2> HIDE DEF reply
  <2>2. r.win = gets[g].win
    BY <1>1 DEF GetRec
  <2> HIDE DEF r
  <2> QED
    BY <2>1, <2>2, OneGetStays
<1>5. ASSUME NEW n, ReadFails(g, n) PROVE WinsStay
  <2> DEFINE r == [gets[g] EXCEPT !.pending = gets[g].pending \ {n}]
  <2>1. gets' = [gets EXCEPT ![g] = r] /\ gets[g].pc = "reading"
    BY <1>5 DEF ReadFails
  <2>2. r.win = gets[g].win
    BY <1>1 DEF GetRec
  <2> HIDE DEF r
  <2> QED
    BY <2>1, <2>2, OneGetStays
<1>6. ASSUME NEW f, FinishGet(g, f) PROVE WinsStay
  <2> DEFINE a == [gets[g] EXCEPT !.pc = "failed"]
             b == [gets[g] EXCEPT !.pc = "none"]
             c(win) == [gets[g] EXCEPT !.pc = "ok", !.results = {}, !.win = {win}]
  <2>1. /\ gets[g].pc = "reading"
        /\ \/ gets' = [gets EXCEPT ![g] = a]
           \/ gets' = [gets EXCEPT ![g] = b]
           \/ \E win : gets' = [gets EXCEPT ![g] = c(win)]
    BY <1>6 DEF FinishGet
  <2>2. /\ a.win = gets[g].win /\ b.win = gets[g].win
        /\ \A win : c(win).pc = "ok" /\ AtMostOne(c(win).win)
    BY <1>1 DEF GetRec, AtMostOne
  <2> HIDE DEF a, b, c
  <2> QED
    BY <2>1, <2>2, OneGetStays
<1>7. ASSUME SnapshotGet(g) PROVE WinsStay
  <2> DEFINE r == [gets[g] EXCEPT !.pc = "routing", !.bad = unreachable[gets[g].at]]
  <2>1. gets' = [gets EXCEPT ![g] = r] /\ gets[g].pc = "admitted"
    BY <1>7 DEF SnapshotGet
  <2>2. r.win = gets[g].win
    BY <1>1 DEF GetRec
  <2> HIDE DEF r
  <2> QED
    BY <2>1, <2>2, OneGetStays
<1> QED
  BY <1>2, <1>3, <1>4, <1>5, <1>6, <1>7 DEF GetStep

LEMMA CrashStays == ASSUME TypeOK, WonByOk, NEW n \in Node, Crash(n) PROVE WinsStay
<1> SUFFICES ASSUME NEW g \in GetIds
             PROVE  /\ gets[g].win # {} => gets'[g].win = gets[g].win
                    /\ AtMostOne(gets'[g].win)
                    /\ gets'[g].win # {} => gets'[g].pc = "ok"
  BY DEF WinsStay, WonByOk
<1>1. gets[g] \in GetRec
  BY TypeParts
<1>2. \/ gets'[g] = gets[g]
      \/ gets[g].pc # "ok" /\ gets'[g] = [gets[g] EXCEPT !.pc = "dead"]
  BY DEF Crash
<1>3. CASE gets'[g] = gets[g]
  BY <1>3 DEF WonByOk
<1>4. CASE gets[g].pc # "ok" /\ gets'[g] = [gets[g] EXCEPT !.pc = "dead"]
  <2>1. gets[g].win = {}
    BY <1>4 DEF WonByOk
  <2>2. gets'[g].win = {}
    BY <1>1, <1>4, <2>1 DEF GetRec
  <2> QED
    BY <2>1, <2>2 DEF AtMostOne
<1> QED
  BY <1>2, <1>3, <1>4

LEMMA NextWins == ASSUME TypeOK, WonByOk, [Next]_vars PROVE WinsStay
<1>1. ASSUME NEW p \in PutIds, PutStep(p) PROVE UNCHANGED gets
  BY <1>1 DEF PutStep, ClientPut, SnapshotPut, RoutePut, PutJoin, ForwardExhausted, PutCommit,
              ForwardFails, ForwardSend, ForwardBreaks, ForwardRelay
<1>2. ASSUME NEW m \in rpcs, RpcStep(m) PROVE UNCHANGED gets
  BY <1>2 DEF RpcStep, RefuseWrite, StoreWrite, MarkHint, StoreHint, PutAck, PutCallFails,
              SnapshotTask, Substitute, RepairDone, BackgroundCallFails, HintDelivered, HintRefused
<1>3. ASSUME NEW n \in Node, NodeStep(n) PROVE UNCHANGED gets \/ Crash(n)
  BY <1>3 DEF NodeStep, PingOk, MarkReachable, DeliverHints, GossipFails, Bootstrap, BootstrapFails,
              ChangeRing, Restart
<1>4. UNCHANGED vars => UNCHANGED gets
  BY DEF vars
<1> QED
  BY <1>1, <1>2, <1>3, <1>4, GetsAloneStay, GetStepStays, CrashStays DEF Next

LEMMA SeenGrows == ASSUME KeepsCarrying, WinsStay PROVE Seen \subseteq Seen'
<1>1. ASSUME NEW p \in PutIds, Done(p), ~puts[p].forwarded, NEW v \in puts[p].ver
      PROVE  v \in Seen'
  <2>1. Done(p)' /\ ~puts'[p].forwarded /\ v \in puts'[p].ver
    BY <1>1 DEF KeepsCarrying, PutStays, Done
  <2> QED
    BY <2>1 DEF Seen
<1>2. ASSUME NEW g \in GetIds, NEW v \in gets[g].win PROVE v \in Seen'
  <2>1. v \in gets'[g].win
    BY DEF WinsStay
  <2> QED
    BY <2>1 DEF Seen
<1> QED
  BY <1>1, <1>2 DEF Seen

-----------------------------------------------------------------------------
(* The client.                                                             *)

\* A context a client may send: none, or the clock of a version it has seen.
MayHold == {{}} \cup {{v} : v \in Seen}

HoldsSeen == client.last_context \in MayHold /\ client.request \in MayHold

\* The call under way is a client's, not a forwarded one.
CallIsOwn ==
  \A p \in client.execution \cap PutIds : puts[p].pc # "free" /\ ~puts[p].forwarded

AskedCarried ==
  \A p \in PutIds : client.asked[p] # {} => Carries(p, client.asked[p])

SessionInv ==
  /\ CausalInv /\ ChildrenCarry /\ OneVersion /\ WonByOk
  /\ client \in ClientRec /\ HoldsSeen /\ CallIsOwn /\ AskedCarried

LEMMA AddressIsAContact ==
  ASSUME client \in ClientRec PROVE Address \in PutContacts /\ Address \in GetContacts
<1> DEFINE i == client.calls_made - 1 + client.attempt
           k == Len(SeedNodes)
<1>1. k \in Nat \ {0} /\ SeedNodes \in Seq(PutContacts \cap GetContacts)
  BY SeedAssumption
<1>2. i \in Int
  BY DEF ClientRec
<1> HIDE DEF i
<1>3. i % k \in 0 .. k - 1
  BY <1>1, <1>2
<1>4. (i % k) + 1 \in 1 .. k
  BY <1>1, <1>3
<1>5. Address = SeedNodes[(i % k) + 1]
  BY DEF Address, Position, i
<1> QED
  BY <1>1, <1>4, <1>5

\* What a step of the client does to the cluster is a step of DriftStore.
LEMMA ClientStepIsNext == ASSUME SessionInv, ClientStep PROVE [Next]_vars
<1>1. ASSUME NEW p \in PutIds, AttemptPut(p) PROVE Next
  <2>1. ClientPut(p, Address, client.request)
    BY <1>1 DEF AttemptPut
  <2>2. Address \in PutContacts /\ client.request \in {{}} \cup {{v} : v \in Seen}
    BY AddressIsAContact DEF SessionInv, HoldsSeen, MayHold
  <2>3. PutStep(p)
    BY <2>1, <2>2 DEF PutStep
  <2> QED
    BY <2>3 DEF Next
<1>2. ASSUME NEW g \in GetIds, AttemptGet(g) PROVE Next
  <2>1. ClientGet(g, Address) /\ Address \in GetContacts
    BY <1>2, AddressIsAContact DEF AttemptGet, SessionInv
  <2>2. GetStep(g)
    BY <2>1 DEF GetStep
  <2> QED
    BY <2>2 DEF Next
<1>3. ASSUME NEW p \in PutIds, PutReturns(p) PROVE UNCHANGED vars
  BY <1>3 DEF PutReturns
<1>4. ASSUME NEW g \in GetIds, GetReturns(g) PROVE UNCHANGED vars
  BY <1>4 DEF GetReturns
<1>5. Connect \/ BeginPut \/ BeginGet \/ AttemptFails \/ CallBreaks \/ GiveUp => UNCHANGED vars
  BY DEF Connect, BeginPut, BeginGet, Begin, AttemptFails, CallBreaks, NextSeed, GiveUp
<1> QED
  BY <1>1, <1>2, <1>3, <1>4, <1>5 DEF ClientStep

LEMMA SessionStepIsNext ==
  ASSUME SessionInv, [SessionNext]_<<vars, client>> PROVE [Next]_vars
BY ClientStepIsNext DEF SessionNext, Elsewhere

-----------------------------------------------------------------------------
(* The client's record after a step.                                       *)

\* A step of which the client's puts and its call see nothing, or the end.
LEMMA SameAsked ==
  ASSUME SessionInv, CausalInv', KeepsCarrying, WinsStay, client' \in ClientRec,
         client'.asked = client.asked,
         client'.execution \cap PutIds \subseteq client.execution,
         client'.last_context \in MayHold', client'.request \in MayHold'
  PROVE  SessionInv'
<1>1. ChildrenCarry' /\ OneVersion' /\ WonByOk'
  BY DEF KeepsCarrying, PutStays, OneVersion, WinsStay
<1>2. CallIsOwn'
  BY DEF SessionInv, CallIsOwn, KeepsCarrying, PutStays
<1>3. AskedCarried'
  <2> SUFFICES ASSUME NEW p \in PutIds, client'.asked[p] # {} PROVE Carries(p, client.asked[p])'
    BY DEF AskedCarried
  <2>1. PICK S : S = client.asked[p]
    OBVIOUS
  <2>2. Carries(p, S)'
    BY <2>1 DEF SessionInv, AskedCarried, KeepsCarrying
  <2> QED
    BY <2>1, <2>2 DEF Carries
<1> QED
  BY <1>1, <1>2, <1>3 DEF SessionInv, HoldsSeen

LEMMA MayHoldGrows ==
  ASSUME KeepsCarrying, WinsStay, NEW S \in MayHold PROVE S \in MayHold'
BY SeenGrows DEF MayHold

\* Steps that leave the cluster alone.
LEMMA ReturnedType ==
  ASSUME client \in ClientRec, NEW S \in SUBSET Version
  PROVE  LET r == Returned(S) IN
         /\ r \in ClientRec /\ r.asked = client.asked /\ r.execution = {}
         /\ r.last_context = S /\ r.request = {} /\ r.owned = client.owned
BY DEF Returned, ClientRec

LEMMA BegunType ==
  ASSUME client \in ClientRec, NEW kind \in {"put", "get"}, NEW S \in SUBSET Version
  PROVE  LET r == [client EXCEPT !.pc = kind, !.request = S,
                                 !.calls_made = client.calls_made + 1]
         IN  /\ r \in ClientRec /\ r.asked = client.asked /\ r.execution = client.execution
             /\ r.last_context = client.last_context /\ r.request = S
<1>1. client.calls_made + 1 \in Nat
  BY DEF ClientRec
<1> QED
  BY <1>1 DEF ClientRec

LEMMA NextSeedType ==
  ASSUME client \in ClientRec, NEW k \in 0 .. MaxTimeouts
  PROVE  LET r == [client EXCEPT !.attempt = client.attempt + 1, !.execution = {},
                                 !.timeouts = k]
         IN  /\ r \in ClientRec /\ r.asked = client.asked /\ r.execution = {}
             /\ r.last_context = client.last_context /\ r.request = client.request
<1>1. client.attempt + 1 \in Nat
  BY DEF ClientRec
<1> QED
  BY <1>1 DEF ClientRec

LEMMA QuietStep ==
  ASSUME SessionInv, CausalInv', KeepsCarrying, WinsStay,
         Connect \/ BeginPut \/ BeginGet \/ AttemptFails \/ CallBreaks \/ GiveUp
  PROVE  SessionInv'
<1>1. client \in ClientRec /\ client.last_context \in MayHold /\ client.request \in MayHold
      /\ {} \in MayHold
  BY DEF SessionInv, HoldsSeen, MayHold
<1>2. /\ client.last_context \in MayHold' /\ client.request \in MayHold' /\ {} \in MayHold'
      /\ client.last_context \in SUBSET Version
  BY <1>1, MayHoldGrows DEF ClientRec
<1>3. CASE Connect
  <2>1. client' = [client EXCEPT !.pc = "idle"]
    BY <1>3 DEF Connect
  <2>2. /\ client' \in ClientRec /\ client'.asked = client.asked
        /\ client'.execution = client.execution
        /\ client'.last_context = client.last_context /\ client'.request = client.request
    BY <1>1, <2>1 DEF ClientRec
  <2> QED
    BY <1>2, <2>2, SameAsked
<1>4. ASSUME NEW kind \in {"put", "get"}, NEW S, S \in {client.last_context, {}}, Begin(kind, S)
      PROVE  SessionInv'
  <2>1. client' = [client EXCEPT !.pc = kind, !.request = S,
                                 !.calls_made = client.calls_made + 1]
    BY <1>4 DEF Begin
  <2>2. /\ client' \in ClientRec /\ client'.asked = client.asked
        /\ client'.execution = client.execution
        /\ client'.last_context = client.last_context /\ client'.request = S
    BY <1>1, <1>2, <1>4, <2>1, BegunType, ZenonT(40)
  <2> QED
    BY <1>2, <1>4, <2>2, SameAsked
<1>5. ASSUME NEW forced, NextSeed(forced) PROVE SessionInv'
  <2>1. PICK k \in {client.timeouts, client.timeouts + 1} :
          /\ k # client.timeouts => client.timeouts < MaxTimeouts
          /\ client' = [client EXCEPT !.attempt = client.attempt + 1, !.execution = {},
                                      !.timeouts = k]
    <3>1. [client EXCEPT !.attempt = client.attempt + 1, !.execution = {}] =
          [client EXCEPT !.attempt = client.attempt + 1, !.execution = {},
                         !.timeouts = client.timeouts]
      BY <1>1 DEF ClientRec
    <3> QED
      BY <1>5, <3>1 DEF NextSeed
  <2>2. k \in 0 .. MaxTimeouts
    BY <1>1, <2>1, SeedAssumption DEF ClientRec
  <2>3. /\ client' \in ClientRec /\ client'.asked = client.asked /\ client'.execution = {}
        /\ client'.last_context = client.last_context /\ client'.request = client.request
    BY <1>1, <2>1, <2>2, NextSeedType
  <2> QED
    BY <1>2, <2>3, SameAsked
<1>6. CASE GiveUp
  <2>1. client' = Returned(client.last_context)
    BY <1>6 DEF GiveUp
  <2> QED
    BY <1>1, <1>2, <2>1, ReturnedType, SameAsked
<1> QED
  BY <1>3, <1>4, <1>5, <1>6 DEF BeginPut, BeginGet, AttemptFails, CallBreaks

\* A response, with the version in it.
LEMMA OverStep ==
  ASSUME SessionInv, CausalInv', KeepsCarrying, WinsStay,
         NEW S \in SUBSET Version, S \in MayHold, NEW owned \in SUBSET Version,
         client' = [Returned(S) EXCEPT !.owned = owned]
  PROVE  SessionInv'
<1> DEFINE r == Returned(S)
<1>1. /\ r \in ClientRec /\ r.asked = client.asked /\ r.execution = {}
      /\ r.last_context = S /\ r.request = {}
  BY ReturnedType DEF SessionInv
<1>2. client' = [r EXCEPT !.owned = owned]
  OBVIOUS
<1> HIDE DEF r
<1>3. /\ client' \in ClientRec /\ client'.asked = client.asked /\ client'.execution = {}
      /\ client'.last_context = S /\ client'.request = {}
  BY <1>1, <1>2 DEF ClientRec
<1>4. S \in MayHold' /\ {} \in MayHold'
  BY MayHoldGrows DEF MayHold
<1> QED
  BY <1>3, <1>4, SameAsked

LEMMA PutReturnsStep ==
  ASSUME SessionInv, CausalInv', KeepsCarrying, WinsStay, NEW p \in PutIds, PutReturns(p)
  PROVE  SessionInv'
<1> DEFINE S == IF puts[p].ver = {} THEN client.last_context ELSE puts[p].ver
           owned == client.owned \cup (IF puts[p].pc = "ok" THEN puts[p].ver ELSE {})
<1>1. client' = [Returned(S) EXCEPT !.owned = client.owned \cup
                   (IF puts[p].pc = "ok" THEN puts[p].ver ELSE {})]
  BY DEF PutReturns
<1>2. client \in ClientRec /\ client.last_context \in MayHold /\ puts[p].ver \subseteq Version
  BY CausalParts, PutFields DEF SessionInv, HoldsSeen
<1>3. puts[p].ver # {} => puts[p].ver \in MayHold
  <2> SUFFICES ASSUME NEW v \in puts[p].ver PROVE puts[p].ver \in MayHold
    OBVIOUS
  <2>1. puts[p].ver = {v}
    BY DEF SessionInv, OneVersion, AtMostOne
  <2>2. Done(p) /\ ~puts[p].forwarded
    BY DEF PutReturns, SessionInv, CallIsOwn
  <2>3. v \in Seen
    BY <2>2 DEF Seen
  <2> QED
    BY <2>1, <2>3 DEF MayHold
<1>4. S \in MayHold /\ S \in SUBSET Version /\ owned \in SUBSET Version
  BY <1>2, <1>3 DEF ClientRec
<1> HIDE DEF S
<1> QED
  BY <1>1, <1>4, OverStep

LEMMA GetReturnsStep ==
  ASSUME SessionInv, CausalInv', KeepsCarrying, WinsStay, NEW g \in GetIds, GetReturns(g)
  PROVE  SessionInv'
<1> DEFINE S == IF gets[g].pc = "ok" THEN gets[g].win ELSE client.last_context
<1>1. client' = Returned(S)
  BY DEF GetReturns
<1>2. client \in ClientRec /\ client.last_context \in MayHold /\ gets[g].win \subseteq Version
  BY CausalParts, GetFields DEF SessionInv, HoldsSeen
<1>3. gets[g].win \in MayHold
  <2>1. CASE gets[g].win = {}
    BY <2>1 DEF MayHold
  <2>2. ASSUME NEW v \in gets[g].win PROVE gets[g].win \in MayHold
    <3>1. gets[g].win = {v} /\ v \in Seen
      BY DEF SessionInv, WonByOk, AtMostOne, Seen
    <3> QED
      BY <3>1 DEF MayHold
  <2> QED
    BY <2>1, <2>2
<1>4. S \in MayHold /\ S \in SUBSET Version
  BY <1>2, <1>3 DEF ClientRec
<1> HIDE DEF S
<1>5. S \in MayHold' /\ {} \in MayHold'
  BY <1>4, MayHoldGrows DEF MayHold
<1>6. /\ client' \in ClientRec /\ client'.asked = client.asked /\ client'.execution = {}
      /\ client'.last_context = S /\ client'.request = {}
  BY <1>1, <1>2, <1>4, ReturnedType
<1> QED
  BY <1>5, <1>6, SameAsked

\* An attempt gives its Put the context of the call.
LEMMA AttemptPutStep ==
  ASSUME SessionInv, CausalInv', KeepsCarrying, WinsStay, NEW p \in PutIds, AttemptPut(p)
  PROVE  SessionInv'
<1> DEFINE asked == [client.asked EXCEPT ![p] = client.request]
           r == NewPut(Address, Admission(Address), FALSE, client.request)
<1>1. /\ client' = [client EXCEPT !.execution = {p}, !.asked = asked]
      /\ puts' = [puts EXCEPT ![p] = r]
  BY DEF AttemptPut, ClientPut
<1>2. /\ client \in ClientRec /\ client.last_context \in MayHold /\ client.request \in MayHold
      /\ puts \in [PutIds -> PutRec]
  BY CausalParts, TypeParts DEF SessionInv, HoldsSeen
<1>3. /\ client.asked \in [PutIds -> SUBSET Version] /\ client.request \in SUBSET Version
  BY <1>2 DEF ClientRec
<1>4. asked \in [PutIds -> SUBSET Version]
  BY <1>3
<1>5. /\ asked[p] = client.request /\ \A q \in PutIds \ {p} : asked[q] = client.asked[q]
  BY <1>3
<1> HIDE DEF asked
<1>6. /\ client' \in ClientRec /\ client'.asked = asked /\ client'.execution = {p}
      /\ client'.last_context = client.last_context /\ client'.request = client.request
  BY <1>1, <1>2, <1>4 DEF ClientRec, Ids
<1>7. /\ r.ctx = client.request /\ r.ver = {} /\ ~r.forwarded
      /\ r.pc # "free"
  BY DEF NewPut, Admission
<1> HIDE DEF r
<1>8. puts'[p] = r
  BY <1>1, <1>2
<1>9. HoldsSeen'
  BY <1>2, <1>6, MayHoldGrows DEF HoldsSeen
<1>10. CallIsOwn'
  BY <1>6, <1>7, <1>8 DEF CallIsOwn
<1>11. AskedCarried'
  <2> SUFFICES ASSUME NEW q \in PutIds, client'.asked[q] # {} PROVE Carries(q, client.asked[q])'
    BY DEF AskedCarried
  <2>1. CASE q = p
    <3>1. client'.asked[q] = client.request
      BY <1>5, <1>6, <2>1
    <3> QED
      BY <1>7, <1>8, <2>1, <3>1 DEF Carries
  <2>2. CASE q # p
    <3>1. PICK S : S = client.asked[q]
      OBVIOUS
    <3>2. client'.asked[q] = S
      BY <1>5, <1>6, <2>2, <3>1
    <3>3. Carries(q, S)'
      BY <3>1, <3>2 DEF SessionInv, AskedCarried, KeepsCarrying
    <3> QED
      BY <3>2, <3>3 DEF Carries
  <2> QED
    BY <2>1, <2>2
<1>12. ChildrenCarry' /\ OneVersion' /\ WonByOk'
  BY DEF KeepsCarrying, PutStays, OneVersion, WinsStay
<1> QED
  BY <1>6, <1>9, <1>10, <1>11, <1>12 DEF SessionInv

LEMMA AttemptGetStep ==
  ASSUME SessionInv, CausalInv', KeepsCarrying, WinsStay, NEW g \in GetIds, AttemptGet(g)
  PROVE  SessionInv'
<1>1. client' = [client EXCEPT !.execution = {g}]
  BY DEF AttemptGet
<1>2. client \in ClientRec /\ client.last_context \in MayHold /\ client.request \in MayHold
  BY DEF SessionInv, HoldsSeen
<1>3. /\ client' \in ClientRec /\ client'.asked = client.asked /\ client'.execution = {g}
      /\ client'.last_context = client.last_context /\ client'.request = client.request
  BY <1>1, <1>2 DEF ClientRec, Ids
<1>4. g \notin PutIds
  BY BoundAssumption
<1>5. client.last_context \in MayHold' /\ client.request \in MayHold'
  BY <1>2, MayHoldGrows
<1> QED
  BY <1>3, <1>4, <1>5, SameAsked

LEMMA SessionStep == SessionInv /\ [SessionNext]_<<vars, client>> => SessionInv'
<1> SUFFICES ASSUME SessionInv, [SessionNext]_<<vars, client>> PROVE SessionInv'
  OBVIOUS
<1>1. [Next]_vars /\ CausalInv /\ TypeOK
  BY SessionStepIsNext, CausalParts DEF SessionInv
<1>2. CausalInv' /\ KeepsCarrying /\ WinsStay
  BY <1>1, CausalNext, NextKeeps, NextWins DEF SessionInv
<1>3. CASE UNCHANGED client
  <2>1. /\ client' \in ClientRec /\ client'.asked = client.asked
        /\ client'.execution = client.execution
        /\ client'.last_context \in MayHold' /\ client'.request \in MayHold'
    BY <1>2, <1>3, MayHoldGrows DEF SessionInv, HoldsSeen
  <2> QED
    BY <1>2, <2>1, SameAsked
<1>4. CASE ClientStep
  BY <1>2, <1>4, QuietStep, PutReturnsStep, GetReturnsStep, AttemptPutStep, AttemptGetStep
  DEF ClientStep
<1> QED
  BY <1>3, <1>4 DEF SessionNext, Elsewhere

LEMMA SessionStart == SessionInit => SessionInv
<1> SUFFICES ASSUME SessionInit PROVE SessionInv
  OBVIOUS
<1>1. Init /\ ClientInit /\ CausalInv
  BY CausalInit DEF SessionInit
<1>2. \A p \in PutIds : puts[p].pc = "free" /\ puts[p].ver = {}
  BY <1>1 DEF Init, NewPut
<1>3. \A g \in GetIds : gets[g].win = {}
  BY <1>1 DEF Init, NewGet
<1>4. ChildrenCarry /\ OneVersion /\ WonByOk
  BY <1>2, <1>3 DEF ChildrenCarry, OneVersion, WonByOk, AtMostOne
<1>5. client \in ClientRec
  BY <1>1, SeedAssumption DEF ClientInit, ClientRec
<1>6. HoldsSeen /\ CallIsOwn /\ AskedCarried
  BY <1>1 DEF ClientInit, HoldsSeen, MayHold, CallIsOwn, AskedCarried
<1> QED
  BY <1>1, <1>4, <1>5, <1>6 DEF SessionInv

-----------------------------------------------------------------------------
\* What a client is sent, and what its puts carry, in every reachable state.
THEOREM SessionInvariant == SessionSpec => []SessionInv
BY SessionStart, SessionStep, PTL DEF SessionSpec

(* A DriftClient asks nothing of the cluster that DriftStore does not      *)
(* allow a client: it calls one of the nodes clients call, and the context *)
(* it sends, first or retried, is none or the clock of a version it was    *)
(* answered with (driftclient.hpp, last_context_).                         *)
THEOREM SessionIsAClient == SessionSpec => Spec
<1>1. SessionInit => Init
  BY DEF SessionInit
<1>2. SessionInv /\ [SessionNext]_<<vars, client>> => [Next]_vars
  BY SessionStepIsNext
<1> QED
  BY <1>1, <1>2, SessionInvariant, PTL DEF SessionSpec, Spec

(* Whatever node an attempt of put reached, forwarded or not, first or     *)
(* retried: what it wrote supersedes what the client had seen when it      *)
(* called put.                                                             *)
THEOREM PutsSupersede == SessionSpec => []PutSupersedesContext
<1>1. SessionInv => PutSupersedesContext
  BY DEF SessionInv, AskedCarried, Carries, PutSupersedesContext
<1> QED
  BY <1>1, SessionInvariant, PTL

(* The client's record is well formed, and last_context_ is one version's. *)
THEOREM ClientTypeCorrect == SessionSpec => []ClientTypeOK
<1>1. SessionInv => ClientTypeOK
  BY DEF SessionInv, HoldsSeen, MayHold, ClientTypeOK, AtMostOne
<1> QED
  BY <1>1, SessionInvariant, PTL

-----------------------------------------------------------------------------
(* The context a session holds covers its own writes.                      *)

\* What is known of the call under way and of the writes acknowledged so far.
CallUnderWay ==
  /\ client.owned \subseteq Acked
  /\ client.pc = "put" => client.request = client.last_context
  /\ \A p \in client.execution \cap PutIds :
       client.pc = "put" /\ client.asked[p] = client.request
  /\ \A g \in client.execution \cap GetIds :
       client.pc = "get" /\ client.owned \subseteq gets[g].before

OkWins == \A g \in GetIds : gets[g].pc = "ok" => gets[g].win # {}

CacheInv == CallUnderWay /\ OkWins /\ CacheCoversOwnWrites

LEMMA OkWinsNext == ASSUME TaskInv, OkWins, Next PROVE OkWins'
<1> SUFFICES ASSUME NEW g \in GetIds, gets'[g].pc = "ok" PROVE gets'[g].win # {}
  BY DEF OkWins
<1>1. GetMove(g)
  BY TaskParts, GetsMove
<1>2. CASE gets'[g] = gets[g]
  BY <1>2 DEF OkWins
<1>3. CASE Ends(g)
  BY <1>3, TaskParts, EndsFields
<1>4. ~Asks(g) /\ ~Lists(g) /\ ~Hears(g) /\ ~Misses(g) /\ ~Stops(g)
  BY DEF Asks, Lists, Hears, Misses, Stops
<1> QED
  BY <1>1, <1>2, <1>3, <1>4 DEF GetMove

\* An acknowledgement is for good.
LEMMA AckedStays ==
  ASSUME TaskInv, Next, NEW v \in Acked
  PROVE  /\ v \in Acked' /\ v \in Version /\ v.id \in PutIds
         /\ puts'[v.id] = puts[v.id]
<1>1. PICK p \in PutIds : v \in puts[p].ver /\ puts[p].pc = "ok" /\ ~puts[p].forwarded
  BY DEF Acked
<1>2. puts'[p] = puts[p]
  BY <1>1, DoneStays DEF Done
<1>3. v \in Issued /\ Done(v.id)
  BY <1>1 DEF Issued, Done, TaskInv, DoneIds
<1>4. v \in Version /\ v.id \in PutIds
  BY <1>3, TaskParts, IssuedIsItsPut
<1> QED
  BY <1>1, <1>2, <1>3, <1>4, DoneStays DEF Acked

\* A step that leaves the call and the cache as they are.
LEMMA OthersKeepCache ==
  ASSUME TaskInv, CacheInv, [Next]_vars, UNCHANGED <<client.owned, client.last_context>>
  PROVE  OkWins' /\ CacheCoversOwnWrites' /\ client.owned \subseteq Acked'
<1>1. CASE UNCHANGED vars
  BY <1>1 DEF vars, CacheInv, OkWins, CacheCoversOwnWrites, QuorumsMeet, NoConflict, Issued,
              AckedByOwners, CallUnderWay, Acked
<1>2. CASE Next
  <2>1. OkWins'
    BY <1>2, OkWinsNext DEF CacheInv
  <2>2. ASSUME NEW w \in client.owned
        PROVE  w \in Acked' /\ puts'[w.id] = puts[w.id]
    BY <1>2, AckedStays DEF CacheInv, CallUnderWay
  <2>3. QuorumsMeet' => QuorumsMeet
    BY <1>2, TaskParts, NoCrashYet, NoChangeYet, NoConflictYet DEF QuorumsMeet
  <2>4. CacheCoversOwnWrites'
    <3> SUFFICES ASSUME QuorumsMeet', NEW w \in client.owned, AckedByOwners(w)'
                 PROVE  \E c \in client.last_context : AtLeast(c, w)
      BY DEF CacheCoversOwnWrites
    <3>1. AckedByOwners(w)
      BY <2>2 DEF AckedByOwners
    <3> QED
      BY <2>3, <3>1 DEF CacheInv, CacheCoversOwnWrites
  <2> QED
    BY <2>1, <2>2, <2>4
<1> QED
  BY <1>1, <1>2

\* A read that was asked for knows the writes acknowledged by then.
LEMMA OthersKeepCall ==
  ASSUME TaskInv, CacheInv, [Next]_vars, UNCHANGED client
  PROVE  CallUnderWay'
<1>1. client.owned \subseteq Acked'
  BY OthersKeepCache
<1>2. ASSUME NEW g \in client.execution \cap GetIds PROVE client.owned \subseteq gets'[g].before
  <2>1. client.owned \subseteq gets[g].before /\ client.owned \subseteq Acked
    BY DEF CacheInv, CallUnderWay
  <2>2. CASE UNCHANGED vars
    BY <2>1, <2>2 DEF vars
  <2>3. CASE Next
    BY <2>1, <2>3, BeforeMoves DEF Asks
  <2> QED
    BY <2>2, <2>3
<1> QED
  BY <1>1, <1>2 DEF CacheInv, CallUnderWay

\* A call ends, with the context S in the cache.
LEMMA ReturnKeeps ==
  ASSUME SessionInv, TaskInv, CacheInv, UNCHANGED vars, NEW S, NEW owned,
         client'.pc = "idle", client'.execution = {}, client'.last_context = S,
         client'.owned = owned, owned \subseteq Acked,
         QuorumsMeet => \A w \in owned : AckedByOwners(w) => \E c \in S : AtLeast(c, w)
  PROVE  CacheInv'
<1>1. OkWins' /\ CallUnderWay'
  BY DEF CacheInv, OkWins, CallUnderWay, vars, Acked
<1>2. CacheCoversOwnWrites'
  BY DEF CacheCoversOwnWrites, QuorumsMeet, NoConflict, Issued, AckedByOwners, vars
<1> QED
  BY <1>1, <1>2 DEF CacheInv

LEMMA PutReturnKeeps ==
  ASSUME SessionInv, TaskInv, CacheInv, NEW p \in PutIds, PutReturns(p) PROVE CacheInv'
<1> DEFINE ver == puts[p].ver
           S == IF ver = {} THEN client.last_context ELSE ver
           owned == client.owned \cup (IF puts[p].pc = "ok" THEN ver ELSE {})
<1>1. UNCHANGED vars /\ client' = [Returned(S) EXCEPT !.owned = owned] /\ p \in client.execution
  BY DEF PutReturns
<1>2. client \in ClientRec /\ client.last_context \subseteq Version /\ ver \subseteq Version
  BY TaskParts, PutFields DEF SessionInv, ClientRec
<1>3. Returned(S) \in ClientRec /\ Returned(S).pc = "idle" /\ Returned(S).execution = {}
      /\ Returned(S).last_context = S
  <2>1. S \in SUBSET Version
    BY <1>2
  <2> HIDE DEF S
  <2> QED
    BY <1>2, <2>1 DEF Returned, ClientRec
<1>4. client'.pc = "idle" /\ client'.execution = {} /\ client'.last_context = S
      /\ client'.owned = owned
  <2> HIDE DEF S, owned
  <2> QED
    BY <1>1, <1>3 DEF ClientRec
<1>5. ~puts[p].forwarded /\ AtMostOne(ver)
  BY <1>1 DEF SessionInv, CallIsOwn, OneVersion
<1>6. owned \subseteq Acked
  BY <1>5 DEF CacheInv, CallUnderWay, Acked
<1>7. ASSUME NEW v \in ver, NEW c \in client.last_context PROVE AtLeast(v, c)
  <2>1. c \in client.asked[p]
    BY <1>1 DEF CacheInv, CallUnderWay
  <2>2. Compare(c.clk, v.clk) = "DOMINATED"
    BY <2>1 DEF SessionInv, AskedCarried, Carries
  <2> QED
    BY <2>2 DEF AtLeast, Compare
<1>8. ASSUME QuorumsMeet, NEW w \in owned, AckedByOwners(w) PROVE \E c \in S : AtLeast(c, w)
  <2>1. CASE w \in client.owned
    <3>1. PICK c \in client.last_context : AtLeast(c, w)
      BY <1>8, <2>1 DEF CacheInv, CacheCoversOwnWrites
    <3>2. w \in Version
      BY <2>1 DEF SessionInv, ClientRec
    <3>3. CASE ver = {}
      BY <3>1, <3>3
    <3>4. ASSUME NEW v \in ver PROVE AtLeast(v, w)
      BY <1>2, <1>7, <3>1, <3>2, AtLeastTransitive
    <3> QED
      BY <3>3, <3>4
  <2>2. CASE w \notin client.owned
    <3>1. w \in ver
      BY <2>2
    <3> QED
      BY <1>2, <3>1, AtLeastItself
  <2> QED
    BY <2>1, <2>2
<1> HIDE DEF S, owned
<1> QED
  BY <1>1, <1>4, <1>6, <1>8, ReturnKeeps

LEMMA GetReturnKeeps ==
  ASSUME SessionInv, TaskInv, ReadInv, CacheInv, NEW g \in GetIds, GetReturns(g) PROVE CacheInv'
<1> DEFINE S == IF gets[g].pc = "ok" THEN gets[g].win ELSE client.last_context
<1>1. UNCHANGED vars /\ client' = Returned(S) /\ g \in client.execution
  BY DEF GetReturns
<1>2. client \in ClientRec /\ gets[g].win \subseteq Version
  BY TaskParts, GetFields DEF SessionInv
<1>3. S \in SUBSET Version
  BY <1>2 DEF ClientRec
<1>4. client'.pc = "idle" /\ client'.execution = {} /\ client'.last_context = S
      /\ client'.owned = client.owned
  <2> HIDE DEF S
  <2> QED
    BY <1>1, <1>2, <1>3 DEF Returned, ClientRec
<1>5. ASSUME QuorumsMeet, NEW w \in client.owned, AckedByOwners(w)
      PROVE  \E c \in S : AtLeast(c, w)
  <2>1. CASE gets[g].pc = "ok"
    <3>1. w \in gets[g].before
      BY <1>1 DEF CacheInv, CallUnderWay
    <3>2. \A c \in gets[g].win : AtLeast(c, w)
      BY <1>5, <3>1 DEF ReadInv, ReadCoversAcked
    <3> QED
      BY <2>1, <3>2 DEF CacheInv, OkWins
  <2>2. CASE gets[g].pc # "ok"
    BY <1>5, <2>2 DEF CacheInv, CacheCoversOwnWrites
  <2> QED
    BY <2>1, <2>2
<1>6. client.owned \subseteq Acked
  BY DEF CacheInv, CallUnderWay
<1> HIDE DEF S
<1> QED
  BY <1>1, <1>4, <1>5, <1>6, ReturnKeeps

LEMMA AttemptKeeps ==
  ASSUME SessionInv, TaskInv, CacheInv, ClientStep,
         (\E p \in PutIds : AttemptPut(p)) \/ \E g \in GetIds : AttemptGet(g)
  PROVE  CacheInv'
<1>1. [Next]_vars
  BY ClientStepIsNext
<1>2. client \in ClientRec
  BY DEF SessionInv
<1>3. CASE \E p \in PutIds : AttemptPut(p)
  <2>1. PICK p \in PutIds : AttemptPut(p)
    BY <1>3
  <2>2. /\ client' = [client EXCEPT !.execution = {p},
                        !.asked = [client.asked EXCEPT ![p] = client.request]]
        /\ client.pc = "put" /\ client.asked \in [PutIds -> SUBSET Version]
    BY <1>2, <2>1 DEF AttemptPut, Attempting, ClientRec
  <2>3. /\ client'.pc = "put" /\ client'.execution = {p} /\ client'.request = client.request
        /\ client'.last_context = client.last_context /\ client'.owned = client.owned
        /\ client'.asked[p] = client.request
    BY <1>2, <2>2 DEF ClientRec
  <2>4. OkWins' /\ CacheCoversOwnWrites' /\ client.owned \subseteq Acked'
    BY <1>1, <2>3, OthersKeepCache
  <2>5. p \notin GetIds
    BY BoundAssumption
  <2>6. CallUnderWay'
    BY <2>2, <2>3, <2>4, <2>5 DEF CacheInv, CallUnderWay
  <2> QED
    BY <2>4, <2>6 DEF CacheInv
<1>4. CASE \E g \in GetIds : AttemptGet(g)
  <2>1. PICK g \in GetIds : AttemptGet(g)
    BY <1>4
  <2>2. /\ client' = [client EXCEPT !.execution = {g}] /\ client.pc = "get"
        /\ ClientGet(g, Address)
    BY <2>1 DEF AttemptGet, Attempting
  <2>3. /\ client'.pc = "get" /\ client'.execution = {g}
        /\ client'.last_context = client.last_context /\ client'.owned = client.owned
    BY <1>2, <2>2 DEF ClientRec
  <2>4. OkWins' /\ CacheCoversOwnWrites' /\ client.owned \subseteq Acked'
    BY <1>1, <2>3, OthersKeepCache
  <2>5. gets'[g].before = Acked
    BY <2>2, TaskParts, TypeParts DEF ClientGet, NewGet
  <2>6. g \notin PutIds
    BY BoundAssumption
  <2>7. CallUnderWay'
    BY <2>3, <2>4, <2>5, <2>6 DEF CacheInv, CallUnderWay
  <2> QED
    BY <2>4, <2>7 DEF CacheInv
<1> QED
  BY <1>3, <1>4

\* A call begins, moves on to the next seed or is given up.
LEMMA QuietKeeps ==
  ASSUME SessionInv, TaskInv, CacheInv,
         Connect \/ BeginPut \/ BeginGet \/ AttemptFails \/ CallBreaks \/ GiveUp
  PROVE  CacheInv'
<1>1. UNCHANGED vars
  BY DEF Connect, BeginPut, BeginGet, Begin, AttemptFails, CallBreaks, NextSeed, GiveUp
<1>2. client \in ClientRec
  BY DEF SessionInv
<1>3. UNCHANGED <<client.owned, client.last_context>> /\ CallUnderWay' => CacheInv'
  BY <1>1, OthersKeepCache DEF CacheInv
<1>4. Acked' = Acked /\ \A g \in GetIds : gets'[g] = gets[g]
  BY <1>1 DEF vars, Acked
<1>5. CASE Connect
  <2>1. /\ client'.pc = "idle" /\ client'.execution = client.execution
        /\ client'.last_context = client.last_context /\ client'.owned = client.owned
        /\ client.pc = "new"
    BY <1>2, <1>5 DEF Connect, ClientRec
  <2> QED
    BY <1>3, <1>4, <2>1 DEF CacheInv, CallUnderWay
<1>6. ASSUME NEW kind \in {"put", "get"}, NEW S, kind = "put" => S = client.last_context,
             Begin(kind, S)
      PROVE  CacheInv'
  <2>1. /\ client'.pc = kind /\ client'.execution = client.execution
        /\ client'.last_context = client.last_context /\ client'.owned = client.owned
        /\ client'.request = S /\ client.pc = "idle"
    BY <1>2, <1>6 DEF Begin, ClientRec
  <2> QED
    BY <1>3, <1>4, <1>6, <2>1 DEF CacheInv, CallUnderWay
<1>7. ASSUME NEW forced, NextSeed(forced) PROVE CacheInv'
  <2>1. /\ client'.pc = client.pc /\ client'.execution = {}
        /\ client'.last_context = client.last_context /\ client'.owned = client.owned
        /\ client'.request = client.request
    BY <1>2, <1>7 DEF NextSeed, ClientRec
  <2> QED
    BY <1>3, <1>4, <2>1 DEF CacheInv, CallUnderWay
<1>8. CASE GiveUp
  <2>1. /\ client'.pc = "idle" /\ client'.execution = {}
        /\ client'.last_context = client.last_context /\ client'.owned = client.owned
    BY <1>2, <1>8 DEF GiveUp, Returned, ClientRec
  <2> QED
    BY <1>3, <1>4, <2>1 DEF CacheInv, CallUnderWay
<1>9. CASE BeginPut
  BY <1>6, <1>9 DEF BeginPut
<1>10. CASE BeginGet
  BY <1>6, <1>10 DEF BeginGet
<1> QED
  BY <1>5, <1>7, <1>8, <1>9, <1>10 DEF AttemptFails, CallBreaks

LEMMA CacheNext ==
  ASSUME SessionInv, TaskInv, ReadInv, CacheInv, [SessionNext]_<<vars, client>>
  PROVE  CacheInv'
<1>1. CASE UNCHANGED client
  <2>1. [Next]_vars
    BY SessionStepIsNext
  <2> QED
    BY <1>1, <2>1, OthersKeepCache, OthersKeepCall DEF CacheInv
<1>2. CASE ClientStep
  BY <1>2, QuietKeeps, AttemptKeeps, PutReturnKeeps, GetReturnKeeps DEF ClientStep
<1> QED
  BY <1>1, <1>2 DEF SessionNext, Elsewhere

LEMMA CacheInit == SessionInit => CacheInv
<1> SUFFICES ASSUME SessionInit PROVE CacheInv
  OBVIOUS
<1>1. \A g \in GetIds : gets[g].pc = "free"
  BY DEF SessionInit, Init, NewGet
<1>2. client.owned = {} /\ client.execution = {} /\ client.pc = "new"
  BY DEF SessionInit, ClientInit
<1> QED
  BY <1>1, <1>2 DEF CacheInv, CallUnderWay, OkWins, CacheCoversOwnWrites

(* Read your writes, as far as a session can have it: without crashes,     *)
(* membership changes and concurrent writes, and with no more nodes than a *)
(* key has owners, last_context_ covers every write acknowledged to the    *)
(* client that W owners took.  A refusal, an answer that comes too late, a *)
(* call given up and a read leave it so.                                   *)
THEOREM SessionKeepsItsWrites == SessionSpec => []CacheCoversOwnWrites
<1>1. SessionInit => CacheInv
  BY CacheInit
<1>2. SessionInv /\ TaskInv /\ ReadInv /\ CacheInv /\ [SessionNext]_<<vars, client>> => CacheInv'
  BY CacheNext
<1>3. CacheInv => CacheCoversOwnWrites
  BY DEF CacheInv
<1> QED
  BY <1>1, <1>2, <1>3, SessionIsAClient, SessionInvariant, TaskInvariant, ReadInvariant, PTL
  DEF SessionSpec
=============================================================================
