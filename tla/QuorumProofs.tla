----------------------------- MODULE QuorumProofs -----------------------------
(***************************************************************************)
(* What an acknowledgement of a driftstore cluster is worth: theorems      *)
(* about AckedNeverVanishes, HintGivenUpOnlyWhenHeld, ReadCoversAcked,     *)
(* QuorumDistinct and WinnerDecided, for every cluster, every quorum       *)
(* configuration and every value of the bounds.                            *)
(***************************************************************************)
EXTENDS CausalityProofs, DoubtProofs, WellFoundedInduction

-----------------------------------------------------------------------------
(* The order of versions by their clocks.                                  *)

\* S holds v or a version that supersedes it.
Covered(S, v) == \E x \in S : AtLeast(x, v)

LEMMA AtLeastIsAbove ==
  ASSUME NEW v \in Version, NEW w \in Version
  PROVE  AtLeast(v, w) <=> \A n \in Node : w.clk[n] <= v.clk[n]
<1>1. \A n \in Node : v.clk[n] \in Nat /\ w.clk[n] \in Nat
  BY DEF Version, Clock
<1>2. Exceeds(w.clk, v.clk) <=> \E n \in Node : ~(w.clk[n] <= v.clk[n])
  BY <1>1 DEF Exceeds
<1>3. AtLeast(v, w) <=> ~Exceeds(w.clk, v.clk)
  BY DEF AtLeast, Compare
<1> QED
  BY <1>2, <1>3

LEMMA AtLeastItself == ASSUME NEW v \in Version PROVE AtLeast(v, v)
<1>1. \A n \in Node : v.clk[n] \in Nat
  BY DEF Version, Clock
<1> QED
  BY <1>1, AtLeastIsAbove

LEMMA AtLeastTransitive ==
  ASSUME NEW u \in Version, NEW v \in Version, NEW w \in Version, AtLeast(u, v), AtLeast(v, w)
  PROVE  AtLeast(u, w)
<1>1. \A n \in Node : u.clk[n] \in Nat /\ v.clk[n] \in Nat /\ w.clk[n] \in Nat
  BY DEF Version, Clock
<1> QED
  BY <1>1, AtLeastIsAbove

LEMMA EqualIsAtLeast ==
  ASSUME NEW v \in Version, NEW w \in Version, Compare(v.clk, w.clk) = "EQUAL"
  PROVE  AtLeast(w, v)
BY DEF AtLeast, Compare

\* Of two versions that are not concurrent, one that is not below is above.
LEMMA NotBelowIsAtLeast ==
  ASSUME NEW v \in Version, NEW w \in Version,
         Compare(v.clk, w.clk) # "CONCURRENT", ~Below(w.clk, v.clk)
  PROVE  AtLeast(w, v)
<1>1. v.clk \in Clock /\ w.clk \in Clock
  BY DEF Version
<1>2. Compare(w.clk, v.clk) # "DOMINATED"
  BY <1>1, DominatedIsBelow
<1> QED
  BY <1>2 DEF AtLeast, Compare

LEMMA CoveredTransitive ==
  ASSUME NEW S \in SUBSET Version, NEW v \in Version, NEW w \in Version,
         Covered(S, v), AtLeast(v, w)
  PROVE  Covered(S, w)
BY AtLeastTransitive DEF Covered

\* After storeReplicatedWrite a store covers the version it was given.
LEMMA StoreReplicatedCovers ==
  ASSUME NEW held \in SUBSET Version, NEW v \in Version
  PROVE  Covered(StoreReplicated(held, v), v)
<1>1. CASE Replaces(held, v)
  BY <1>1, AtLeastItself DEF StoreReplicated, Covered
<1>2. CASE ~Replaces(held, v)
  <2>1. PICK x \in held : Compare(x.clk, v.clk) \notin {"DOMINATED", "CONCURRENT"}
    BY <1>2 DEF Replaces
  <2>2. AtLeast(x, v)
    BY <2>1 DEF AtLeast, Compare
  <2> QED
    BY <1>2, <2>2 DEF StoreReplicated, Covered
<1> QED
  BY <1>1, <1>2

\* A slot that moves forward and is not emptied covers what it held.
LEMMA ForwardCovers ==
  ASSUME CausalInv, NoConflict, NEW held \in SUBSET Issued, AtMostOne(held),
         NEW next, SlotForward(held, next), next = {} => held = {}, NEW v \in held
  PROVE  Covered(next, v)
<1>1. PICK w \in next : TRUE
  OBVIOUS
<1>2. v \in Version
  BY IssuedIsItsPut
<1>3. CASE next \subseteq held
  <2>1. w = v
    BY <1>3 DEF AtMostOne
  <2> QED
    BY <1>2, <2>1, AtLeastItself DEF Covered
<1>4. CASE \A x \in next : x \in Issued /\ \A y \in held : ~Below(x.clk, y.clk)
  <2>1. w \in Issued /\ w \in Version /\ ~Below(w.clk, v.clk)
    BY <1>4, IssuedIsItsPut
  <2>2. Compare(v.clk, w.clk) # "CONCURRENT"
    BY <2>1 DEF NoConflict
  <2> QED
    BY <1>2, <2>1, <2>2, NotBelowIsAtLeast DEF Covered
<1> QED
  BY <1>3, <1>4 DEF SlotForward

-----------------------------------------------------------------------------
(* The bounds only ever grow.                                              *)

LEMMA CallFailsSpent ==
  ASSUME TypeOK, NEW n, CallFails(n)
  PROVE  spent'.crashes = spent.crashes /\ spent'.changes = spent.changes
BY TypeParts DEF CallFails, Spent

LEMMA BreaksSpent ==
  ASSUME TypeOK, NEW m, Breaks(m)
  PROVE  spent'.crashes = spent.crashes /\ spent'.changes = spent.changes
BY CallFailsSpent DEF Breaks

LEMMA NextSpent ==
  ASSUME TypeOK, Next
  PROVE  \/ spent'.crashes = spent.crashes /\ spent'.changes = spent.changes
         \/ \E n \in Node : Crash(n)
         \/ \E n \in Node, view \in SUBSET Node : ChangeRing(n, view)
<1> DEFINE Same == spent'.crashes = spent.crashes /\ spent'.changes = spent.changes
<1>1. UNCHANGED spent => Same
  OBVIOUS
<1>2. ASSUME NEW p \in PutIds, PutStep(p) PROVE Same
  BY <1>1, <1>2, CallFailsSpent
  DEF PutStep, ClientPut, SnapshotPut, RoutePut, PutCommit, PutJoin, ForwardSend, ForwardFails, ForwardBreaks,
      ForwardRelay, ForwardExhausted
<1>3. ASSUME NEW g \in GetIds, GetStep(g) PROVE Same
  BY <1>1, <1>3, CallFailsSpent DEF GetStep, ClientGet, SnapshotGet, RouteGet, ReadReplica, ReadFails, FinishGet
<1>4. ASSUME NEW m \in rpcs, RpcStep(m) PROVE Same
  BY <1>1, <1>4, BreaksSpent
  DEF RpcStep, RefuseWrite, StoreWrite, MarkHint, StoreHint, PutAck, PutCallFails, SnapshotTask, Substitute,
      RepairDone, BackgroundCallFails, HintDelivered, HintRefused
<1>5. ASSUME NEW n \in Node, NodeStep(n)
      PROVE  Same \/ Crash(n) \/ \E view \in SUBSET Node : ChangeRing(n, view)
  BY <1>1, <1>5, CallFailsSpent
  DEF NodeStep, PingOk, MarkReachable, DeliverHints, GossipFails, Bootstrap, BootstrapFails, Restart
<1> HIDE DEF Same
<1>6. Same \/ (\E n \in Node : Crash(n)) \/ \E n \in Node, view \in SUBSET Node : ChangeRing(n, view)
  BY <1>2, <1>3, <1>4, <1>5 DEF Next
<1> QED
  BY <1>6 DEF Same

LEMMA NoCrashYet ==
  ASSUME TypeOK, Next, spent'.crashes = 0
  PROVE  spent.crashes = 0 /\ \A n \in Node : ~Crash(n)
<1>1. spent \in Spent
  BY TypeParts
<1>2. \A n \in Node : Crash(n) => spent'.crashes = spent.crashes + 1
  BY <1>1 DEF Crash, Spent
<1>3. \A n \in Node, view \in SUBSET Node : ChangeRing(n, view) => spent'.crashes = spent.crashes
  BY <1>1 DEF ChangeRing, Spent
<1>4. spent.crashes \in Nat
  BY <1>1, BoundAssumption DEF Spent
<1> QED
  BY <1>2, <1>3, <1>4, NextSpent

LEMMA NoChangeYet ==
  ASSUME TypeOK, Next, spent'.changes = 0
  PROVE  spent.changes = 0 /\ \A n \in Node, view \in SUBSET Node : ~ChangeRing(n, view)
<1>1. spent \in Spent
  BY TypeParts
<1>2. \A n \in Node : Crash(n) => spent'.changes = spent.changes
  BY <1>1 DEF Crash, Spent
<1>3. \A n \in Node, view \in SUBSET Node : ChangeRing(n, view) => spent'.changes = spent.changes + 1
  BY <1>1 DEF ChangeRing, Spent
<1>4. spent.changes \in Nat
  BY <1>1, BoundAssumption DEF Spent
<1> QED
  BY <1>2, <1>3, <1>4, NextSpent

-----------------------------------------------------------------------------
(* The life of a Put.                                                      *)

\* It is still without a version, or was refused.
Waits(p) ==
  /\ puts[p].pc \in Early /\ puts'[p].pc \in Early \cup {"refused"}
  /\ puts'[p].ver = puts[p].ver
  /\ puts'[p].owners \subseteq puts[p].owners
  /\ puts'[p].acks = puts[p].acks \/ puts'[p].acks = 0

\* It relays the answer of another.
Relays(p) ==
  /\ puts[p].pc \in Early
  /\ \E q \in PutIds : /\ Done(q) /\ puts'[p].pc = puts[q].pc /\ puts'[p].ver = puts[q].ver
                       /\ puts'[p].acks = puts[q].acks /\ puts'[p].ackers = puts[q].ackers
  /\ puts'[p].owners = puts[p].owners

Commits(p) == \E e \in puts[p].pref, ts \in Times : PutCommit(p, e, ts)

Counts(p) == \E m \in rpcs : m.by = p /\ PutAck(m)

SamePut(p) ==
  /\ puts'[p].ver = puts[p].ver /\ puts'[p].at = puts[p].at /\ puts'[p].acks = puts[p].acks
  /\ puts'[p].ackers = puts[p].ackers /\ puts'[p].owners = puts[p].owners

Joins(p) ==
  /\ puts[p].pc = "fanout" /\ puts'[p].pc \in {"ok", "short"}
  /\ puts'[p].pc = "ok" => puts[p].acks >= W
  /\ \A m \in rpcs : m.kind = "put" => m.by # p
  /\ SamePut(p)

Dies(p) ==
  /\ ~Done(p) /\ puts'[p].pc = "dead" /\ SamePut(p)
  /\ \E n \in Node : Crash(n) /\ puts[p].at = n

PutMove(p) ==
  \/ puts'[p] = puts[p]
  \/ Waits(p) \/ Relays(p) \/ Commits(p) \/ Counts(p) \/ Joins(p) \/ Dies(p)

LEMMA OnePutMoves ==
  ASSUME TypeOK, NEW p \in PutIds, NEW r, puts' = [puts EXCEPT ![p] = r],
         puts'[p] = r => PutMove(p)
  PROVE  \A q \in PutIds : PutMove(q)
<1>1. puts \in [PutIds -> PutRec]
  BY TypeParts
<1>2. puts'[p] = r /\ \A q \in PutIds \ {p} : puts'[q] = puts[q]
  BY <1>1
<1> QED
  BY <1>2 DEF PutMove

LEMMA MovesClientPut ==
  ASSUME CausalInv, NEW p \in PutIds, NEW n, NEW ctx, ClientPut(p, n, ctx)
  PROVE  \A q \in PutIds : PutMove(q)
<1> DEFINE r == NewPut(n, Admission(n), FALSE, ctx)
<1>1. puts[p].pc = "free" /\ puts[p].ver = {} /\ puts' = [puts EXCEPT ![p] = r]
  BY CausalParts DEF ClientPut, Fresh, Early
<1>2. r.pc \in {"refused", "admitted"} /\ r.ver = {} /\ r.owners = {} /\ r.acks = 0
  BY AdmissionType DEF NewPut
<1> HIDE DEF r
<1>3. puts'[p] = r => Waits(p)
  BY <1>1, <1>2 DEF Waits, Early
<1> QED
  BY <1>1, <1>3, CausalParts, OnePutMoves DEF PutMove

LEMMA MovesWaiting ==
  ASSUME CausalInv, NEW p \in PutIds, NEW r, puts' = [puts EXCEPT ![p] = r],
         puts[p].pc \in Early, r.pc \in Early \cup {"refused"},
         r.ver = puts[p].ver, r.owners = puts[p].owners, r.acks = puts[p].acks
  PROVE  \A q \in PutIds : PutMove(q)
<1>1. puts'[p] = r => Waits(p)
  BY DEF Waits
<1> QED
  BY <1>1, CausalParts, OnePutMoves DEF PutMove

LEMMA MovesSnapshotPut ==
  ASSUME CausalInv, NEW p \in PutIds, SnapshotPut(p) PROVE \A q \in PutIds : PutMove(q)
<1> DEFINE r == [puts[p] EXCEPT !.pc = "routing", !.bad = unreachable[puts[p].at]]
<1>1. puts[p] \in PutRec /\ puts[p].pc = "admitted" /\ puts' = [puts EXCEPT ![p] = r]
  BY CausalParts, TypeParts DEF SnapshotPut
<1>2. /\ r.pc = "routing" /\ r.ver = puts[p].ver /\ r.owners = puts[p].owners
      /\ r.acks = puts[p].acks
  BY <1>1 DEF PutRec
<1> HIDE DEF r
<1>3. puts[p].pc \in Early /\ r.pc \in Early
  BY <1>1, <1>2 DEF Early
<1> QED
  BY <1>1, <1>2, <1>3, MovesWaiting

LEMMA MovesRoutePut ==
  ASSUME CausalInv, NEW p \in PutIds, RoutePut(p) PROVE \A q \in PutIds : PutMove(q)
<1> DEFINE list == PreferenceList(ring[puts[p].at], puts[p].bad)
           to == NodesOf(list)
           goes(pc) == [puts[p] EXCEPT !.pc = pc, !.bad = {}]
           a == [goes(IF Cardinality(list) < W THEN "refused" ELSE "commit") EXCEPT !.pref = list]
           b == goes("refused")
           c(s) == [goes("forward") EXCEPT !.untried = to, !.start = s]
           Waiting(r) == /\ r.pc \in Early \cup {"refused"}
                         /\ r.ver = puts[p].ver /\ r.owners = puts[p].owners /\ r.acks = puts[p].acks
<1>1. puts[p] \in PutRec /\ puts[p].pc \in Early
  BY CausalParts, TypeParts DEF RoutePut, Early
<1>2. \/ puts' = [puts EXCEPT ![p] = a]
      \/ puts' = [puts EXCEPT ![p] = b]
      \/ \E s \in to : puts' = [puts EXCEPT ![p] = c(s)]
  BY DEF RoutePut
<1> HIDE DEF list, to
<1>3. Waiting(a)
  BY <1>1 DEF PutRec, Early
<1>4. Waiting(b)
  BY <1>1 DEF PutRec
<1>5. \A s : Waiting(c(s))
  BY <1>1 DEF PutRec, Early
<1> HIDE DEF a, b, c
<1> QED
  BY <1>1, <1>2, <1>3, <1>4, <1>5, MovesWaiting

LEMMA MovesPutJoin ==
  ASSUME CausalInv, NEW p \in PutIds, PutJoin(p) PROVE \A q \in PutIds : PutMove(q)
<1> DEFINE r == [puts[p] EXCEPT !.pc = IF puts[p].acks < W THEN "short" ELSE "ok"]
<1>1. puts[p] \in PutRec /\ puts[p].acks \in Nat /\ W \in Nat
  BY CausalParts, TypeParts, QuorumAssumption DEF PutRec
<1>2. /\ r.ver = puts[p].ver /\ r.at = puts[p].at /\ r.acks = puts[p].acks
      /\ r.ackers = puts[p].ackers /\ r.owners = puts[p].owners
      /\ r.pc \in {"ok", "short"} /\ (r.pc = "ok" => puts[p].acks >= W)
  BY <1>1 DEF PutRec
<1>3. puts' = [puts EXCEPT ![p] = r]
  BY DEF PutJoin
<1> HIDE DEF r
<1>4. puts'[p] = r => Joins(p)
  BY <1>2 DEF Joins, SamePut, PutJoin
<1> QED
  BY <1>3, <1>4, CausalParts, OnePutMoves DEF PutMove

LEMMA MovesForwardSend ==
  ASSUME CausalInv, NEW p \in PutIds, NEW q \in PutIds, NEW t, ForwardSend(p, q, t)
  PROVE  \A x \in PutIds : PutMove(x)
<1> DEFINE r == [puts[p] EXCEPT !.pc = "waiting", !.child = {q},
                                !.untried = puts[p].untried \ {t}]
           c == NewPut(t, Admission(t), TRUE, puts[p].ctx)
<1>1. puts \in [PutIds -> PutRec] /\ puts[p] \in PutRec
  BY CausalParts, TypeParts
<1>2. /\ puts' = [puts EXCEPT ![p] = r, ![q] = c]
      /\ puts[p].pc = "forward" /\ puts[q].pc = "free"
  BY DEF ForwardSend, Fresh
<1>3. r.pc = "waiting" /\ r.ver = puts[p].ver /\ r.owners = puts[p].owners /\ r.acks = puts[p].acks
  BY <1>1 DEF PutRec
<1>4. c.pc \in {"refused", "admitted"} /\ c.ver = {} /\ c.owners = {} /\ c.acks = 0
  BY AdmissionType DEF NewPut
<1>5. puts[q].ver = {}
  BY <1>2, CausalParts DEF Early
<1> HIDE DEF r, c
<1>6. p # q /\ puts'[q] = c /\ puts'[p] = r /\ \A x \in PutIds \ {p, q} : puts'[x] = puts[x]
  BY <1>1, <1>2
<1>7. Waits(p)
  BY <1>2, <1>3, <1>6 DEF Waits, Early
<1>8. Waits(q)
  BY <1>2, <1>4, <1>5, <1>6 DEF Waits, Early
<1> QED
  BY <1>6, <1>7, <1>8 DEF PutMove

LEMMA MovesForwardFails ==
  ASSUME CausalInv, NEW p \in PutIds, NEW t, ForwardFails(p, t)
  PROVE  \A q \in PutIds : PutMove(q)
<1> DEFINE r == [puts[p] EXCEPT !.untried = puts[p].untried \ {t}]
<1>1. puts[p] \in PutRec /\ puts[p].pc = "forward" /\ puts' = [puts EXCEPT ![p] = r]
  BY CausalParts, TypeParts DEF ForwardFails
<1>2. /\ r.pc = puts[p].pc /\ r.ver = puts[p].ver /\ r.owners = puts[p].owners
      /\ r.acks = puts[p].acks
  BY <1>1 DEF PutRec
<1> HIDE DEF r
<1>3. puts[p].pc \in Early
  BY <1>1 DEF Early
<1> QED
  BY <1>1, <1>2, <1>3, MovesWaiting

LEMMA MovesForwardBreaks ==
  ASSUME CausalInv, NEW p \in PutIds, NEW q, ForwardBreaks(p, q)
  PROVE  \A x \in PutIds : PutMove(x)
<1> DEFINE r == [puts[p] EXCEPT !.pc = "forward", !.child = {}]
<1>1. puts[p] \in PutRec /\ puts[p].pc = "waiting" /\ puts' = [puts EXCEPT ![p] = r]
  BY CausalParts, TypeParts DEF ForwardBreaks
<1>2. /\ r.pc = "forward" /\ r.ver = puts[p].ver /\ r.owners = puts[p].owners
      /\ r.acks = puts[p].acks
  BY <1>1 DEF PutRec
<1> HIDE DEF r
<1>3. puts[p].pc \in Early /\ r.pc \in Early
  BY <1>1, <1>2 DEF Early
<1> QED
  BY <1>1, <1>2, <1>3, MovesWaiting

LEMMA MovesForwardRelay ==
  ASSUME CausalInv, NEW p \in PutIds, NEW q \in PutIds, ForwardRelay(p, q)
  PROVE  \A x \in PutIds : PutMove(x)
<1> DEFINE r == [puts[p] EXCEPT !.pc = puts[q].pc, !.ver = puts[q].ver,
                                !.acks = puts[q].acks, !.ackers = puts[q].ackers]
<1>1. puts[p] \in PutRec /\ puts[p].pc = "waiting" /\ puts' = [puts EXCEPT ![p] = r] /\ Done(q)
  BY CausalParts, TypeParts DEF ForwardRelay
<1>2. /\ r.pc = puts[q].pc /\ r.ver = puts[q].ver /\ r.owners = puts[p].owners
      /\ r.acks = puts[q].acks /\ r.ackers = puts[q].ackers
  BY <1>1 DEF PutRec
<1> HIDE DEF r
<1>3. puts[p].pc \in Early
  BY <1>1 DEF Early
<1>4. puts'[p] = r => Relays(p)
  BY <1>1, <1>2, <1>3 DEF Relays
<1> QED
  BY <1>1, <1>4, CausalParts, OnePutMoves DEF PutMove

LEMMA MovesForwardExhausted ==
  ASSUME CausalInv, NEW p \in PutIds, ForwardExhausted(p)
  PROVE  \A x \in PutIds : PutMove(x)
<1> DEFINE r == [puts[p] EXCEPT !.pc = "refused"]
<1>1. puts[p] \in PutRec /\ puts[p].pc = "forward" /\ puts' = [puts EXCEPT ![p] = r]
  BY CausalParts, TypeParts DEF ForwardExhausted
<1>2. /\ r.pc = "refused" /\ r.ver = puts[p].ver /\ r.owners = puts[p].owners
      /\ r.acks = puts[p].acks
  BY <1>1 DEF PutRec
<1> HIDE DEF r
<1>3. puts[p].pc \in Early
  BY <1>1 DEF Early
<1> QED
  BY <1>1, <1>2, <1>3, MovesWaiting

LEMMA MovesPutCommit ==
  ASSUME CausalInv, NEW p \in PutIds, NEW e \in puts[p].pref, NEW ts \in Times, PutCommit(p, e, ts)
  PROVE  \A x \in PutIds : PutMove(x)
<1>1. \A q \in PutIds \ {p} : puts'[q] = puts[q]
  BY CommitFacts
<1>2. Commits(p)
  BY DEF Commits
<1> QED
  BY <1>1, <1>2 DEF PutMove

LEMMA MovesPutAck ==
  ASSUME CausalInv, NEW m \in rpcs, PutAck(m) PROVE \A x \in PutIds : PutMove(x)
<1>1. puts \in [PutIds -> PutRec]
  BY CausalParts, TypeParts
<1>2. \A q \in PutIds : q # m.by => puts'[q] = puts[q]
  BY <1>1 DEF PutAck
<1>3. \A q \in PutIds : q = m.by => Counts(q)
  BY DEF Counts
<1> QED
  BY <1>2, <1>3 DEF PutMove

LEMMA MovesCrash ==
  ASSUME CausalInv, NEW n \in Node, Crash(n) PROVE \A x \in PutIds : PutMove(x)
<1> SUFFICES ASSUME NEW p \in PutIds PROVE PutMove(p)
  OBVIOUS
<1>1. puts[p] \in PutRec
  BY CausalParts, TypeParts
<1>2. CASE puts[p].at = n /\ puts[p].pc # "free" /\ ~Done(p)
  <2>1. puts'[p] = [puts[p] EXCEPT !.pc = "dead"]
    BY <1>2 DEF Crash
  <2>2. Dies(p)
    BY <1>1, <1>2, <2>1 DEF Dies, SamePut, PutRec
  <2> QED
    BY <2>2 DEF PutMove
<1>3. CASE ~(puts[p].at = n /\ puts[p].pc # "free" /\ ~Done(p))
  BY <1>3 DEF Crash, PutMove
<1> QED
  BY <1>2, <1>3

\* Whatever happens, a Put moves in one of these ways.
LEMMA PutsMove == ASSUME CausalInv, Next PROVE \A p \in PutIds : PutMove(p)
<1>1. UNCHANGED puts => \A p \in PutIds : PutMove(p)
  BY DEF PutMove
<1>2. ASSUME NEW x \in PutIds, PutStep(x) PROVE \A p \in PutIds : PutMove(p)
  <2>1. \A q \in puts[x].child : q \in PutIds
    BY CausalParts, TypeParts DEF PutRec
  <2> QED
    BY <1>2, <2>1, MovesClientPut, MovesSnapshotPut, MovesRoutePut, MovesPutCommit, MovesPutJoin, MovesForwardSend,
       MovesForwardFails, MovesForwardBreaks, MovesForwardRelay, MovesForwardExhausted
    DEF PutStep
<1>3. ASSUME NEW g \in GetIds, GetStep(g) PROVE UNCHANGED puts
  BY <1>3 DEF GetStep, ClientGet, SnapshotGet, RouteGet, ReadReplica, ReadFails, FinishGet
<1>4. ASSUME NEW m \in rpcs, RpcStep(m) PROVE UNCHANGED puts \/ PutAck(m)
  BY <1>4 DEF RpcStep, RefuseWrite, StoreWrite, MarkHint, StoreHint, PutCallFails, SnapshotTask, Substitute,
              RepairDone, BackgroundCallFails, HintDelivered, HintRefused
<1>5. ASSUME NEW n \in Node, NodeStep(n) PROVE UNCHANGED puts \/ Crash(n)
  BY <1>5 DEF NodeStep, PingOk, MarkReachable, DeliverHints, GossipFails, ChangeRing, Restart,
              Bootstrap, BootstrapFails
<1> QED
  BY <1>1, <1>2, <1>3, <1>4, <1>5, MovesPutAck, MovesCrash DEF Next

-----------------------------------------------------------------------------
(* The life of a ReplicateWrite call.                                      *)

\* x is what has become of the call m.
Follows(x, m) ==
  /\ x.by = m.by /\ x.from = m.from /\ x.to = m.to /\ x.ver = m.ver /\ x.hinted = m.hinted
  /\ x.kind \in {m.kind, "orphan"}

\* A call that has just been sent.
SentBack(x)  == x.st = "sent" /\ x.kind \in {"hint", "repair"} /\ ~x.hinted

SentFirst(x) ==
  /\ x.st = "sent" /\ x.kind = "put"
  /\ \E p \in PutIds : Commits(p) /\ x.by = p /\ x.from = puts[p].at /\ puts'[p].ver = {x.ver}

SentNext(x) ==
  /\ x.st = "sent" /\ x.kind = "put" /\ UNCHANGED puts
  /\ \E m \in rpcs : m.kind = "put" /\ x.by = m.by /\ x.from = m.from /\ x.ver = m.ver

\* A call served, refused, broken or left to itself.
Served(x) ==
  \E m \in rpcs :
    /\ Follows(x, m)
    /\ \/ x.st = m.st
       \/ x.st \in {"refused", "broken", "failed", "searching"}
       \/ x.st = "marked" /\ m.hinted
       \/ x.st = "stored" /\ (m.st = "marked" \/ Covered(kv'[m.to], m.ver))
    /\ x.kind = "put" => UNCHANGED puts \/ \E n \in Node : Crash(n) /\ x.from # n

CallMove(x) == x \in rpcs \/ SentBack(x) \/ SentFirst(x) \/ SentNext(x) \/ Served(x)

LEMMA CallFields ==
  ASSUME NEW kind, NEW by, NEW from, NEW to, NEW ver, NEW owner, NEW hinted, NEW excluded
  PROVE  LET c == Call(kind, by, from, to, ver, owner, hinted, excluded)
         IN  /\ c.kind = kind /\ c.by = by /\ c.from = from /\ c.to = to /\ c.ver = ver
             /\ c.hinted = hinted /\ c.st = "sent"
BY DEF Call

LEMMA MoveAnswer ==
  ASSUME TypeOK, NEW m \in rpcs, NEW st, Answer(m, st), UNCHANGED puts,
         \/ st = "refused"
         \/ st = "stored" /\ (m.st = "marked" \/ Covered(kv'[m.to], m.ver))
  PROVE  \A x \in rpcs' : CallMove(x)
<1> DEFINE a == [m EXCEPT !.st = st]
<1>1. m \in RpcRec
  BY RpcFields
<1>2. Follows(a, m) /\ a.st = st
  BY <1>1 DEF RpcRec, Follows
<1>3. \A x \in rpcs' : x \in rpcs \/ x = a
  BY DEF Answer
<1> HIDE DEF a
<1>4. Served(a)
  BY <1>2 DEF Served
<1> QED
  BY <1>3, <1>4 DEF CallMove

LEMMA MoveLeftover ==
  ASSUME TypeOK, NEW m \in rpcs PROVE \A x \in Leftover(m) : CallMove(x)
<1>1. m \in RpcRec
  BY RpcFields
<1> DEFINE a == [m EXCEPT !.kind = "orphan"]
<1>2. Follows(a, m) /\ a.st = m.st /\ a.kind = "orphan"
  BY <1>1 DEF RpcRec, Follows
<1>3. \A x \in Leftover(m) : x = a
  BY DEF Leftover
<1> HIDE DEF a
<1>4. Served(a)
  BY <1>2 DEF Served
<1> QED
  BY <1>3, <1>4 DEF CallMove

LEMMA MoveSubstitute ==
  ASSUME TypeOK, NEW m \in rpcs, Substitute(m) PROVE \A x \in rpcs' : CallMove(x)
<1> DEFINE c(x) == Call("put", m.by, m.from, x, m.ver, m.owner, TRUE, m.excluded)
           S == Nearest(Candidates(ring[m.from], m.bad, m.excluded, m.owner))
<1>1. /\ rpcs' = (rpcs \ {m}) \cup {c(x) : x \in S}
      /\ m.kind = "put" /\ UNCHANGED puts
  BY DEF Substitute
<1>2. \A x : /\ c(x).kind = "put" /\ c(x).by = m.by /\ c(x).from = m.from /\ c(x).ver = m.ver
             /\ c(x).st = "sent"
  BY DEF Call
<1> HIDE DEF S, c
<1>3. \A x : SentNext(c(x))
  BY <1>1, <1>2 DEF SentNext
<1> QED
  BY <1>1, <1>3 DEF CallMove

LEMMA MoveSnapshotTask ==
  ASSUME TypeOK, NEW m \in rpcs, SnapshotTask(m) PROVE \A x \in rpcs' : CallMove(x)
<1> DEFINE a == [m EXCEPT !.st = "searching", !.bad = unreachable[m.from],
                          !.excluded = m.excluded \cup {m.to}]
<1>1. m \in RpcRec
  BY RpcFields
<1>2. Follows(a, m) /\ a.st = "searching"
  BY <1>1 DEF RpcRec, Follows
<1>3. (\A x \in rpcs' : x \in rpcs \/ x = a) /\ UNCHANGED puts
  BY DEF SnapshotTask
<1> HIDE DEF a
<1>4. Served(a)
  BY <1>2, <1>3 DEF Served
<1> QED
  BY <1>3, <1>4 DEF CallMove

LEMMA MovePutCallFails ==
  ASSUME TypeOK, NEW m \in rpcs, PutCallFails(m) PROVE \A x \in rpcs' : CallMove(x)
<1> DEFINE a == [m EXCEPT !.st = "failed"]
<1>1. m \in RpcRec
  BY RpcFields
<1>2. Follows(a, m) /\ a.st = "failed"
  BY <1>1 DEF RpcRec, Follows
<1>3. (\A x \in rpcs' : x \in rpcs \/ x \in Leftover(m) \/ x = a) /\ UNCHANGED puts
  BY DEF PutCallFails
<1> HIDE DEF a
<1>4. Served(a)
  BY <1>2, <1>3 DEF Served
<1> QED
  BY <1>3, <1>4, MoveLeftover DEF CallMove

LEMMA MoveRpcStep ==
  ASSUME CausalInv, NEW m \in rpcs, RpcStep(m) PROVE \A x \in rpcs' : CallMove(x)
<1>1. TypeOK /\ m \in RpcRec /\ m.ver \in Version /\ m.to \in Node
  BY CausalParts, RpcFields
<1>2. rpcs' \subseteq rpcs => \A x \in rpcs' : CallMove(x)
  BY DEF CallMove
<1>3. CASE RefuseWrite(m)
  BY <1>1, <1>3, MoveAnswer DEF RefuseWrite
<1>4. CASE StoreWrite(m)
  <2>1. /\ kv \in [Node -> SUBSET Version]
        /\ kv' = [kv EXCEPT ![m.to] = StoreReplicated(kv[m.to], m.ver)]
    BY <1>4, CausalParts, TypeParts DEF StoreWrite
  <2>2. Covered(kv'[m.to], m.ver)
    BY <1>1, <2>1, StoreReplicatedCovers
  <2> QED
    BY <1>1, <1>4, <2>2, MoveAnswer DEF StoreWrite
<1>5. CASE MarkHint(m)
  <2> DEFINE a == [m EXCEPT !.st = "marked"]
  <2>1. Follows(a, m) /\ a.st = "marked"
    BY <1>1 DEF RpcRec, Follows
  <2>2. \A x \in rpcs' : x \in rpcs \/ x = a
    BY <1>5 DEF MarkHint
  <2> HIDE DEF a
  <2>3. Served(a)
    BY <1>5, <2>1 DEF Served, MarkHint
  <2> QED
    BY <2>2, <2>3 DEF CallMove
<1>6. CASE StoreHint(m)
  BY <1>1, <1>6, MoveAnswer DEF StoreHint, Serves
<1>7. CASE SnapshotTask(m) \/ Substitute(m)
  BY <1>1, <1>7, MoveSnapshotTask, MoveSubstitute
<1>8. CASE PutCallFails(m)
  BY <1>1, <1>8, MovePutCallFails
<1>9. CASE BackgroundCallFails(m)
  BY <1>1, <1>9, MoveLeftover DEF BackgroundCallFails, CallMove
<1>10. CASE PutAck(m) \/ RepairDone(m) \/ HintDelivered(m) \/ HintRefused(m)
  BY <1>2, <1>10 DEF PutAck, RepairDone, HintDelivered, HintRefused
<1> QED
  BY <1>3, <1>4, <1>5, <1>6, <1>7, <1>8, <1>9, <1>10 DEF RpcStep

LEMMA MoveBack ==
  \A kind \in {"hint", "repair"} : \A by, from, to, ver, owner :
    SentBack(Call(kind, by, from, to, ver, owner, FALSE, {}))
BY DEF SentBack, Call

LEMMA MovePutStep ==
  ASSUME CausalInv, NEW p \in PutIds, PutStep(p) PROVE \A x \in rpcs' : CallMove(x)
<1>1. CASE UNCHANGED rpcs
  BY <1>1 DEF CallMove
<1>2. CASE \E e \in puts[p].pref, ts \in Times : PutCommit(p, e, ts)
  <2>1. PICK e \in puts[p].pref, ts \in Times : PutCommit(p, e, ts)
    BY <1>2
  <2> DEFINE ver == CommitVer(p, e, ts)
             c(f) == Call("put", p, puts[p].at, f.node, ver, OwnerOf(f), f.hint # {},
                          NodesOf(puts[p].pref))
  <2>2. puts'[p].ver = {ver} /\ Commits(p)
    BY <1>2, <2>1, CommitFacts DEF Commits
  <2>3. rpcs' = rpcs \cup {c(f) : f \in puts[p].pref \ {e}}
    BY <2>1 DEF PutCommit, CommitVer, OwnCopy
  <2>4. \A f : /\ c(f).kind = "put" /\ c(f).by = p /\ c(f).from = puts[p].at /\ c(f).ver = ver
               /\ c(f).st = "sent"
    BY DEF Call
  <2> HIDE DEF ver, c
  <2>5. \A x \in rpcs' : x \in rpcs \/ SentFirst(x)
    BY <2>2, <2>3, <2>4 DEF SentFirst
  <2> QED
    BY <2>5 DEF CallMove
<1> QED
  BY <1>1, <1>2 DEF PutStep, ClientPut, SnapshotPut, RoutePut, PutJoin, ForwardExhausted, ForwardFails,
                    ForwardSend, ForwardBreaks, ForwardRelay

\* The replies of f that found a version, and how a read ends.
Found(f) == {i \in DOMAIN f : f[i].ver # {}}

Versions(f) == [i \in Found(f) |-> CHOOSE v \in f[i].ver : TRUE]

Answers(g, win) ==
  gets' = [gets EXCEPT ![g] = [gets[g] EXCEPT !.pc = "ok", !.results = {}, !.win = {win}]]

Repairs(g, win) ==
  /\ \/ UNCHANGED kv
     \/ kv' = [kv EXCEPT ![gets[g].at] = StoreReplicated(kv[gets[g].at], win)]
  /\ \A x \in rpcs' : x \in rpcs \/ SentBack(x)

LEMMA FinishGetCases ==
  ASSUME NEW g \in GetIds, NEW f, FinishGet(g, f), TypeOK
  PROVE  /\ f \in Arrivals(g) /\ gets[g].pc = "reading" /\ gets[g].pending = {}
         /\ UNCHANGED <<hints, puts, spent, ring>>
         /\ \/ gets' = [gets EXCEPT ![g].pc = "failed"] /\ UNCHANGED <<kv, rpcs>>
            \/ /\ Cardinality(gets[g].results) >= R /\ Found(f) = {}
               /\ gets' = [gets EXCEPT ![g].pc = "none"] /\ UNCHANGED <<kv, rpcs>>
            \/ /\ Cardinality(gets[g].results) >= R
               /\ \E win \in ResolveGetResult(Versions(f)) : Answers(g, win) /\ Repairs(g, win)
<1> DEFINE at == gets[g].at
           found == {i \in DOMAIN f : f[i].ver # {}}
           vs == [i \in found |-> CHOOSE v \in f[i].ver : TRUE]
           stale(win) == {r.node : r \in {x \in gets[g].results :
                            \A v \in x.ver : Compare(v.clk, win.clk) # "EQUAL"}}
           c(n, win) == Call("repair", g, at, n, win, n, FALSE, {})
<1>1. kv \in [Node -> SUBSET Version]
  BY TypeParts
<1>2. found = Found(f) /\ vs = Versions(f)
  BY DEF Found, Versions
<1>3. /\ f \in Arrivals(g) /\ gets[g].pc = "reading" /\ gets[g].pending = {}
      /\ UNCHANGED <<hints, puts, spent, ring>>
      /\ \/ gets' = [gets EXCEPT ![g].pc = "failed"] /\ UNCHANGED <<kv, rpcs>>
         \/ /\ Cardinality(gets[g].results) >= R /\ found = {}
            /\ gets' = [gets EXCEPT ![g].pc = "none"] /\ UNCHANGED <<kv, rpcs>>
         \/ /\ Cardinality(gets[g].results) >= R
            /\ \E win \in ResolveGetResult(vs) :
                 /\ Answers(g, win)
                 /\ kv' = [kv EXCEPT ![at] = IF at \in stale(win) THEN StoreReplicated(kv[at], win)
                                                                 ELSE kv[at]]
                 /\ rpcs' = rpcs \cup {c(n, win) : n \in stale(win) \ {at}}
  BY DEF FinishGet, Answers
<1>4. \A n, win : SentBack(c(n, win))
  BY DEF SentBack, Call
<1> HIDE DEF found, vs, stale, c
<1>5. ASSUME NEW win,
             kv' = [kv EXCEPT ![at] = IF at \in stale(win) THEN StoreReplicated(kv[at], win)
                                                          ELSE kv[at]],
             rpcs' = rpcs \cup {c(n, win) : n \in stale(win) \ {at}}
      PROVE  Repairs(g, win)
  BY <1>1, <1>4, <1>5 DEF Repairs
<1>6. CASE \E win \in ResolveGetResult(vs) :
             /\ Answers(g, win)
             /\ kv' = [kv EXCEPT ![at] = IF at \in stale(win) THEN StoreReplicated(kv[at], win)
                                                             ELSE kv[at]]
             /\ rpcs' = rpcs \cup {c(n, win) : n \in stale(win) \ {at}}
  BY <1>2, <1>3, <1>5, <1>6, ZenonT(40)
<1> QED
  BY <1>2, <1>3, <1>6

LEMMA MoveGetStep ==
  ASSUME CausalInv, NEW g \in GetIds, GetStep(g) PROVE \A x \in rpcs' : CallMove(x)
<1>1. CASE UNCHANGED rpcs
  BY <1>1 DEF CallMove
<1>2. CASE \E f \in Arrivals(g) : FinishGet(g, f)
  <2>1. \A x \in rpcs' : x \in rpcs \/ SentBack(x)
    BY <1>2, CausalParts, FinishGetCases DEF Repairs
  <2> QED
    BY <2>1 DEF CallMove
<1> QED
  BY <1>1, <1>2 DEF GetStep, ClientGet, SnapshotGet, RouteGet, ReadReplica, ReadFails

LEMMA MoveCrash ==
  ASSUME CausalInv, DoubtInv, NEW n \in Node, Crash(n) PROVE \A x \in rpcs' : CallMove(x)
<1> SUFFICES ASSUME NEW x \in rpcs', x \notin rpcs PROVE Served(x)
  BY DEF CallMove
<1>1. PICK m \in rpcs : \/ m.from = n /\ x = [m EXCEPT !.kind = "orphan"]
                        \/ m.to = n /\ x = [m EXCEPT !.st = "broken"]
  BY DEF Crash, Severed
<1>2. m \in RpcRec /\ m.from # m.to
  BY CausalParts, RpcFields, DoubtParts DEF Outward
<1>3. CASE m.from = n /\ x = [m EXCEPT !.kind = "orphan"]
  <2>1. Follows(x, m) /\ x.st = m.st /\ x.kind = "orphan"
    BY <1>2, <1>3 DEF RpcRec, Follows
  <2> QED
    BY <2>1 DEF Served
<1>4. CASE m.to = n /\ x = [m EXCEPT !.st = "broken"]
  <2>1. Follows(x, m) /\ x.st = "broken" /\ x.from # n
    BY <1>2, <1>4 DEF RpcRec, Follows
  <2> QED
    BY <2>1 DEF Served
<1> QED
  BY <1>1, <1>3, <1>4

LEMMA MoveNodeStep ==
  ASSUME CausalInv, DoubtInv, NEW n \in Node, NodeStep(n) PROVE \A x \in rpcs' : CallMove(x)
<1>1. CASE UNCHANGED rpcs
  BY <1>1 DEF CallMove
<1>2. ASSUME NEW t \in Node, DeliverHints(n, t) PROVE \A x \in rpcs' : CallMove(x)
  <2>1. \A x \in rpcs' : x \in rpcs \/ SentBack(x)
    BY <1>2, MoveBack DEF DeliverHints
  <2> QED
    BY <2>1 DEF CallMove
<1> QED
  BY <1>1, <1>2, MoveCrash DEF NodeStep, PingOk, MarkReachable, GossipFails, ChangeRing, Restart,
                               Bootstrap, BootstrapFails

\* Whatever happens, a call comes about in one of these ways.
LEMMA CallsMove == ASSUME CausalInv, DoubtInv, Next PROVE \A x \in rpcs' : CallMove(x)
BY MovePutStep, MoveGetStep, MoveRpcStep, MoveNodeStep DEF Next

-----------------------------------------------------------------------------
(* What the handlers know of their tasks, whatever happens.                *)

\* A task runs for a Put that waits for it, with the Put's own version.
TasksRun ==
  \A m \in rpcs : m.kind = "put" =>
    /\ m.by \in PutIds /\ puts[m.by].pc = "fanout"
    /\ puts[m.by].ver = {m.ver} /\ puts[m.by].at = m.from

\* A delivered hint travels as a plain write, and only hints are marked.
PlainCalls == \A m \in rpcs : (m.kind = "hint" => ~m.hinted) /\ (m.st = "marked" => m.hinted)

FanoutOwn ==
  \A p \in PutIds : puts[p].pc = "fanout" =>
    puts[p].at \in puts[p].ackers /\ \A v \in puts[p].ver : v.id = p

NoAcksYet == \A p \in PutIds : puts[p].pc \in Early => puts[p].owners = {} /\ puts[p].acks = 0

\* A version in an answer is one whose own Put has ended.
DoneIds == \A p \in PutIds : Done(p) => \A v \in puts[p].ver : Done(v.id)

TwoAckers == \A p \in PutIds : puts[p].acks >= 2 => \E x, y \in puts[p].ackers : x # y

TaskInv ==
  /\ CausalInv /\ DoubtInv
  /\ TasksRun /\ PlainCalls /\ FanoutOwn /\ NoAcksYet /\ DoneIds /\ TwoAckers

LEMMA TaskParts ==
  ASSUME TaskInv
  PROVE  /\ CausalInv /\ DoubtInv /\ TypeOK
         /\ \A m \in rpcs : m.kind = "put" =>
              /\ m.by \in PutIds /\ puts[m.by].pc = "fanout"
              /\ puts[m.by].ver = {m.ver} /\ puts[m.by].at = m.from
         /\ \A m \in rpcs : (m.kind = "hint" => ~m.hinted) /\ (m.st = "marked" => m.hinted)
         /\ \A p \in PutIds : puts[p].pc = "fanout" =>
              puts[p].at \in puts[p].ackers /\ \A v \in puts[p].ver : v.id = p
         /\ \A p \in PutIds : puts[p].pc \in Early =>
              puts[p].owners = {} /\ puts[p].acks = 0 /\ puts[p].ver = {}
         /\ \A p \in PutIds : Done(p) => \A v \in puts[p].ver : Done(v.id)
         /\ \A p \in PutIds : puts[p].acks >= 2 => \E x, y \in puts[p].ackers : x # y
BY CausalParts DEF TaskInv, TasksRun, PlainCalls, FanoutOwn, NoAcksYet, DoneIds, TwoAckers

LEMMA CommitsFields ==
  ASSUME CausalInv, NEW p \in PutIds, Commits(p)
  PROVE  /\ puts[p].pc = "commit"
         /\ puts'[p].pc = "fanout" /\ puts'[p].at = puts[p].at
         /\ puts'[p].acks = 1 /\ puts'[p].ackers = {puts[p].at}
         /\ \E v : puts'[p].ver = {v} /\ v.id = p
         /\ \A q \in PutIds \ {p} : puts'[q] = puts[q]
<1>1. PICK e \in puts[p].pref, ts \in Times : PutCommit(p, e, ts)
  BY DEF Commits
<1>2. puts[p] \in PutRec /\ puts \in [PutIds -> PutRec]
  BY CausalParts, TypeParts
<1> DEFINE ver == CommitVer(p, e, ts)
           past == UNION {{v.id} \cup puts[v.id].past : v \in puts[p].ctx \cup OwnCopy(p, e)}
           r == [puts[p] EXCEPT !.pc = "fanout", !.pref = {}, !.ctx = {}, !.ver = {ver},
                                !.acks = 1, !.ackers = {puts[p].at},
                                !.owners = IF e.hint = {} THEN {puts[p].at} ELSE {},
                                !.past = past]
<1>3. puts' = [puts EXCEPT ![p] = r] /\ puts[p].pc = "commit"
  BY <1>1 DEF PutCommit, CommitVer, OwnCopy
<1>4. /\ puts'[p].ver = {ver} /\ ver.id = p /\ puts'[p].pc = "fanout"
      /\ \A q \in PutIds \ {p} : puts'[q] = puts[q]
  BY <1>1, CommitFacts
<1> HIDE DEF ver, past
<1>5. r.at = puts[p].at /\ r.acks = 1 /\ r.ackers = {puts[p].at}
  BY <1>2 DEF PutRec
<1> HIDE DEF r
<1>6. puts'[p] = r
  BY <1>2, <1>3
<1> QED
  BY <1>3, <1>4, <1>5, <1>6

LEMMA AckFields ==
  ASSUME TaskInv, NEW m \in rpcs, PutAck(m)
  PROVE  /\ m.by \in PutIds /\ puts[m.by].pc = "fanout" /\ puts'[m.by].pc = "fanout"
         /\ puts'[m.by].at = puts[m.by].at /\ puts'[m.by].ver = puts[m.by].ver
         /\ puts[m.by].ver = {m.ver} /\ puts[m.by].at = m.from /\ m.from # m.to
         /\ puts'[m.by].acks = puts[m.by].acks + 1
         /\ puts'[m.by].ackers = puts[m.by].ackers \cup {m.to}
         /\ puts'[m.by].owners = IF m.hinted THEN puts[m.by].owners
                                 ELSE puts[m.by].owners \cup {m.to}
<1> DEFINE r == [puts[m.by] EXCEPT !.acks = puts[m.by].acks + 1,
                                   !.ackers = puts[m.by].ackers \cup {m.to},
                                   !.owners = IF m.hinted THEN puts[m.by].owners
                                              ELSE puts[m.by].owners \cup {m.to}]
<1>1. /\ m.by \in PutIds /\ puts[m.by].pc = "fanout" /\ m.from # m.to
      /\ puts[m.by].ver = {m.ver} /\ puts[m.by].at = m.from
  BY TaskParts, DoubtParts DEF PutAck, Outward
<1>2. puts' = [puts EXCEPT ![m.by] = r] /\ puts \in [PutIds -> PutRec]
  BY TaskParts, TypeParts DEF PutAck
<1>3. puts[m.by] \in PutRec
  BY <1>1, <1>2
<1>4. /\ r.pc = puts[m.by].pc /\ r.at = puts[m.by].at /\ r.ver = puts[m.by].ver
      /\ r.acks = puts[m.by].acks + 1 /\ r.ackers = puts[m.by].ackers \cup {m.to}
      /\ r.owners = IF m.hinted THEN puts[m.by].owners ELSE puts[m.by].owners \cup {m.to}
  BY <1>3 DEF PutRec
<1> HIDE DEF r
<1>5. puts'[m.by] = r
  BY <1>1, <1>2
<1> QED
  BY <1>1, <1>4, <1>5

\* A Put that has answered does not change any more.
LEMMA DoneStays ==
  ASSUME TaskInv, Next, NEW p \in PutIds, Done(p) PROVE puts'[p] = puts[p]
<1>1. PutMove(p)
  BY TaskParts, PutsMove
<1>2. ~Counts(p)
  BY AckFields DEF Counts, Done
<1>3. ~Commits(p)
  BY TaskParts, CommitsFields DEF Done
<1> QED
  BY <1>1, <1>2, <1>3 DEF PutMove, Waits, Relays, Joins, Dies, Done, Early

\* No task survives a crash of its node.
LEMMA CrashCalls ==
  ASSUME DoubtInv, NEW n \in Node, Crash(n), NEW x \in rpcs', x.kind = "put"
  PROVE  x.from # n
<1>1. \A m \in rpcs : [m EXCEPT !.kind = "orphan"].kind = "orphan"
  BY DoubtParts, RpcFields DEF RpcRec
<1>2. CASE x \in rpcs /\ x.from # n
  BY <1>2
<1>3. CASE \E m \in rpcs : m.to = n /\ (x = m \/ x = [m EXCEPT !.st = "broken"])
  <2>1. PICK m \in rpcs : m.to = n /\ (x = m \/ x = [m EXCEPT !.st = "broken"])
    BY <1>3
  <2>2. m \in RpcRec /\ m.from # m.to
    BY DoubtParts, RpcFields DEF Outward
  <2> QED
    BY <2>1, <2>2 DEF RpcRec
<1> QED
  BY <1>1, <1>2, <1>3 DEF Crash, Severed

LEMMA TaskRunsOn ==
  ASSUME TaskInv, Next, NEW m \in rpcs, m.kind = "put", m \in rpcs'
  PROVE  puts'[m.by].pc = "fanout" /\ puts'[m.by].ver = {m.ver} /\ puts'[m.by].at = m.from
<1> DEFINE p == m.by
<1>1. p \in PutIds /\ puts[p].pc = "fanout" /\ puts[p].ver = {m.ver} /\ puts[p].at = m.from
  BY TaskParts
<1>2. PutMove(p)
  BY <1>1, TaskParts, PutsMove
<1>3. ~Commits(p)
  BY <1>1, TaskParts, CommitsFields
<1>4. ~Waits(p) /\ ~Relays(p) /\ ~Joins(p)
  BY <1>1 DEF Waits, Relays, Joins, Early
<1>5. ~Dies(p)
  BY <1>1, TaskParts, CrashCalls DEF Dies
<1>6. CASE Counts(p)
  BY <1>1, <1>6, AckFields DEF Counts
<1> QED
  BY <1>1, <1>2, <1>3, <1>4, <1>5, <1>6 DEF PutMove

LEMMA TasksRunNext == ASSUME TaskInv, Next PROVE TasksRun'
<1> SUFFICES ASSUME NEW x \in rpcs', x.kind = "put"
             PROVE  /\ x.by \in PutIds /\ puts'[x.by].pc = "fanout"
                    /\ puts'[x.by].ver = {x.ver} /\ puts'[x.by].at = x.from
  BY DEF TasksRun
<1>1. CallMove(x)
  BY TaskParts, CallsMove
<1>2. CASE x \in rpcs
  BY <1>2, TaskParts, TaskRunsOn
<1>3. CASE SentFirst(x)
  BY <1>3, TaskParts, CommitsFields DEF SentFirst
<1>4. CASE SentNext(x)
  BY <1>4, TaskParts DEF SentNext
<1>5. CASE Served(x)
  <2>1. PICK m \in rpcs : Follows(x, m) /\ (UNCHANGED puts \/ \E n \in Node : Crash(n) /\ x.from # n)
    BY <1>5 DEF Served
  <2>2. /\ m.by = x.by /\ m.ver = x.ver /\ m.from = x.from /\ m.kind = "put"
    BY <2>1 DEF Follows
  <2>3. /\ x.by \in PutIds /\ puts[x.by].pc = "fanout"
        /\ puts[x.by].ver = {x.ver} /\ puts[x.by].at = x.from
    BY <2>2, TaskParts
  <2>4. CASE \E n \in Node : Crash(n) /\ x.from # n
    BY <2>3, <2>4 DEF Crash
  <2> QED
    BY <2>1, <2>3, <2>4
<1>6. ~SentBack(x)
  BY DEF SentBack
<1> QED
  BY <1>1, <1>2, <1>3, <1>4, <1>5, <1>6 DEF CallMove

LEMMA PlainCallsNext == ASSUME TaskInv, Next PROVE PlainCalls'
<1> SUFFICES ASSUME NEW x \in rpcs'
             PROVE  (x.kind = "hint" => ~x.hinted) /\ (x.st = "marked" => x.hinted)
  BY DEF PlainCalls
<1>1. CallMove(x)
  BY TaskParts, CallsMove
<1>2. CASE x \in rpcs
  BY <1>2, TaskParts
<1>3. CASE SentFirst(x) \/ SentNext(x) \/ SentBack(x)
  BY <1>3 DEF SentFirst, SentNext, SentBack
<1>4. CASE Served(x)
  BY <1>4, TaskParts DEF Served, Follows
<1> QED
  BY <1>1, <1>2, <1>3, <1>4 DEF CallMove

LEMMA PutsNext ==
  ASSUME TaskInv, Next PROVE FanoutOwn' /\ NoAcksYet' /\ DoneIds' /\ TwoAckers'
<1> SUFFICES ASSUME NEW p \in PutIds
             PROVE  /\ puts'[p].pc = "fanout" =>
                         puts'[p].at \in puts'[p].ackers /\ \A v \in puts'[p].ver : v.id = p
                    /\ puts'[p].pc \in Early => puts'[p].owners = {} /\ puts'[p].acks = 0
                    /\ Done(p)' => \A v \in puts'[p].ver : Done(v.id)'
                    /\ puts'[p].acks >= 2 => \E x, y \in puts'[p].ackers : x # y
  BY DEF FanoutOwn, NoAcksYet, DoneIds, TwoAckers
<1>1. PutMove(p)
  BY TaskParts, PutsMove
<1>2. \A q \in PutIds : Done(q) => Done(q)'
  BY DoneStays DEF Done
<1>3. \A q \in PutIds : \A v \in puts[q].ver : v.id \in PutIds
  BY TaskParts, IssuedIsItsPut DEF Issued
<1>4. CASE puts'[p] = puts[p]
  BY <1>2, <1>3, <1>4, TaskParts DEF Done
<1>5. CASE Waits(p)
  BY <1>5, TaskParts DEF Waits, Early, Done
<1>6. CASE Relays(p)
  <2>1. PICK q \in PutIds : /\ Done(q) /\ puts'[p].pc = puts[q].pc /\ puts'[p].ver = puts[q].ver
                            /\ puts'[p].acks = puts[q].acks /\ puts'[p].ackers = puts[q].ackers
    BY <1>6 DEF Relays
  <2>2. puts'[p].pc \in {"ok", "short", "refused"}
    BY <2>1 DEF Done
  <2>3. \A v \in puts'[p].ver : Done(v.id)'
    BY <1>2, <1>3, <2>1, TaskParts
  <2> QED
    BY <2>1, <2>2, <2>3, TaskParts DEF Early
<1>7. CASE Commits(p)
  BY <1>7, TaskParts, CommitsFields DEF Early, Done
<1>8. CASE Counts(p)
  <2>1. PICK m \in rpcs : m.by = p /\ PutAck(m)
    BY <1>8 DEF Counts
  <2>2. /\ puts[p].pc = "fanout" /\ puts'[p].pc = "fanout"
        /\ puts'[p].at = puts[p].at /\ puts'[p].ver = puts[p].ver
        /\ puts[p].at = m.from /\ m.from # m.to
        /\ puts'[p].ackers = puts[p].ackers \cup {m.to}
    BY <2>1, AckFields
  <2>3. puts[p].at \in puts[p].ackers /\ \A v \in puts[p].ver : v.id = p
    BY <2>2, TaskParts
  <2> QED
    BY <2>2, <2>3 DEF Early, Done
<1>9. CASE Joins(p)
  BY <1>9, TaskParts DEF Joins, SamePut, Early, Done
<1>10. CASE Dies(p)
  BY <1>10, TaskParts DEF Dies, SamePut, Early, Done
<1> QED
  BY <1>1, <1>4, <1>5, <1>6, <1>7, <1>8, <1>9, <1>10 DEF PutMove

LEMMA TaskInit == Init => TasksRun /\ PlainCalls /\ FanoutOwn /\ NoAcksYet /\ DoneIds /\ TwoAckers
<1> SUFFICES ASSUME Init
             PROVE  TasksRun /\ PlainCalls /\ FanoutOwn /\ NoAcksYet /\ DoneIds /\ TwoAckers
  OBVIOUS
<1>1. \A p \in PutIds : puts[p].pc = "free" /\ puts[p].owners = {} /\ puts[p].acks = 0
  BY DEF Init, NewPut
<1>2. TasksRun /\ PlainCalls
  BY DEF Init, TasksRun, PlainCalls
<1>3. FanoutOwn /\ NoAcksYet /\ DoneIds /\ TwoAckers
  BY <1>1 DEF FanoutOwn, NoAcksYet, DoneIds, TwoAckers, Done
<1> QED
  BY <1>2, <1>3

(* Where the tasks of a put stand: which calls are out, what they carry,   *)
(* and whom their acks are counted from.                                   *)
THEOREM TaskInvariant == Spec => []TaskInv
<1>1. TaskInv /\ Next => TasksRun' /\ PlainCalls' /\ FanoutOwn' /\ NoAcksYet' /\ DoneIds' /\ TwoAckers'
  BY TasksRunNext, PlainCallsNext, PutsNext
<1>2. TaskInv /\ UNCHANGED vars =>
        TasksRun' /\ PlainCalls' /\ FanoutOwn' /\ NoAcksYet' /\ DoneIds' /\ TwoAckers'
  BY DEF TaskInv, vars, TasksRun, PlainCalls, FanoutOwn, NoAcksYet, DoneIds, TwoAckers, Done
<1>3. TaskInv <=> /\ CausalInv /\ DoubtInv /\ TasksRun /\ PlainCalls /\ FanoutOwn /\ NoAcksYet
                  /\ DoneIds /\ TwoAckers
  BY DEF TaskInv
<1> QED
  BY <1>1, <1>2, <1>3, TaskInit, CausalInvariant, DoubtInvariant, PTL DEF Spec

-----------------------------------------------------------------------------
(* A Put answers with the acks it has counted.                             *)

OkCounted ==
  \A p \in PutIds : /\ puts[p].pc = "ok" => puts[p].acks >= W
                    /\ puts[p].acks >= 1 => puts[p].ackers # {}

LEMMA OkCountedNext == ASSUME TaskInv, OkCounted, Next PROVE OkCounted'
<1> SUFFICES ASSUME NEW p \in PutIds
             PROVE  /\ puts'[p].pc = "ok" => puts'[p].acks >= W
                    /\ puts'[p].acks >= 1 => puts'[p].ackers # {}
  BY DEF OkCounted
<1>1. PutMove(p)
  BY TaskParts, PutsMove
<1>2. CASE puts'[p] = puts[p]
  BY <1>2 DEF OkCounted
<1>3. CASE Waits(p)
  BY <1>3, TaskParts DEF Waits, Early
<1>4. CASE Relays(p)
  BY <1>4 DEF Relays, OkCounted
<1>5. CASE Commits(p)
  BY <1>5, TaskParts, CommitsFields
<1>6. CASE Counts(p)
  BY <1>6, AckFields DEF Counts
<1>7. CASE Joins(p)
  BY <1>7 DEF Joins, SamePut, OkCounted
<1>8. CASE Dies(p)
  BY <1>8 DEF Dies, SamePut, OkCounted
<1> QED
  BY <1>1, <1>2, <1>3, <1>4, <1>5, <1>6, <1>7, <1>8 DEF PutMove

(* A Put that reports success has been acknowledged by W different nodes,  *)
(* substitutes included, up to the W = 2 of the default configuration: the *)
(* coordinator and one other.  (For W = 3 two tasks may meet at one        *)
(* substitute, which is then counted twice.)                               *)
THEOREM AcksAreDistinct == ASSUME W <= 2 PROVE Spec => []QuorumDistinct
<1>1. Init => OkCounted
  BY DEF Init, NewPut, OkCounted
<1>2. TaskInv /\ OkCounted /\ [Next]_vars => OkCounted'
  <2>1. UNCHANGED vars => (OkCounted => OkCounted')
    BY DEF vars, OkCounted
  <2> QED
    BY <2>1, OkCountedNext
<1>3. TaskInv /\ OkCounted => QuorumDistinct
  <2> SUFFICES ASSUME TaskInv, OkCounted, NEW p \in PutIds, puts[p].pc = "ok"
               PROVE  Cardinality(puts[p].ackers) >= W
    BY DEF QuorumDistinct
  <2> DEFINE A == puts[p].ackers
             a == puts[p].acks
  <2>1. A \in SUBSET Node /\ a \in Nat
    BY TaskParts, TypeParts DEF PutRec
  <2>2. IsFiniteSet(A)
    BY <2>1, NodeAssumption, FS_Subset
  <2>3. a >= W /\ W \in {1, 2}
    BY QuorumAssumption DEF OkCounted
  <2>4. /\ a >= 1 => A # {}
        /\ a >= 2 => \E x, y \in A : x # y
    BY TaskParts DEF OkCounted
  <2> SUFFICES Cardinality(A) >= W
    OBVIOUS
  <2> HIDE DEF A, a
  <2>5. Cardinality(A) \in Nat
    BY <2>2, FS_CardinalityType
  <2>6. CASE W = 1
    <3>1. PICK x \in A : TRUE
      BY <2>1, <2>3, <2>4, <2>6
    <3>2. Cardinality({x}) = 1 /\ {x} \subseteq A
      BY FS_Singleton
    <3> QED
      BY <2>2, <2>5, <2>6, <3>2, FS_Subset
  <2>7. CASE W = 2
    <3>1. PICK x \in A, y \in A : x # y
      BY <2>1, <2>3, <2>4, <2>7
    <3>2. IsFiniteSet({x}) /\ Cardinality({x}) = 1
      BY FS_Singleton
    <3>3. Cardinality({x} \cup {y}) = Cardinality({x}) + 1
      BY <3>1, <3>2, FS_AddElement
    <3>4. {x} \cup {y} \subseteq A
      OBVIOUS
    <3>5. Cardinality({x} \cup {y}) <= Cardinality(A)
      BY <2>2, <3>4, FS_Subset
    <3> QED
      BY <2>5, <2>7, <3>2, <3>3, <3>5
  <2> QED
    BY <2>3, <2>6, <2>7
<1> QED
  BY <1>1, <1>2, <1>3, TaskInvariant, PTL DEF Spec

-----------------------------------------------------------------------------
(* As long as no two writes are concurrent, what a slot holds is only      *)
(* replaced by what supersedes it.                                         *)

LEMMA IssuedGrows == ASSUME CausalInv, Next PROVE Issued \subseteq Issued'
<1>1. CASE PutsKept /\ StoresKept
  BY <1>1, IssuedKept
<1>2. CASE \E p \in PutIds : \E e \in puts[p].pref, ts \in Times : PutCommit(p, e, ts)
  BY <1>2, CommitFacts
<1> QED
  BY <1>1, <1>2, KeptPutStep, KeptGetStep, KeptRpcStep, KeptNodeStep DEF Next

LEMMA NoConflictYet == ASSUME CausalInv, Next, NoConflict' PROVE NoConflict
BY IssuedGrows DEF NoConflict

StoresRise == \A n \in Node : \A v \in kv[n] : Covered(kv'[n], v)
SlotRises(n, t) == \A v \in hints[n][t] : Covered(hints'[n][t], v)
HintsRise  == \A n, t \in Node : SlotRises(n, t)

\* The slots are sets of at most one issued version.
LEMMA SlotTypes ==
  ASSUME CausalInv
  PROVE  /\ kv \in [Node -> SUBSET Version] /\ hints \in [Node -> [Node -> SUBSET Version]]
         /\ \A n \in Node : kv[n] \in SUBSET Issued /\ AtMostOne(kv[n])
         /\ \A n, t \in Node : hints[n][t] \in SUBSET Issued /\ AtMostOne(hints[n][t])
         /\ Issued \subseteq Version
BY CausalParts, TypeParts, SeenType

LEMMA RiseAlone ==
  ASSUME CausalInv
  PROVE  (UNCHANGED kv => StoresRise) /\ (UNCHANGED hints => HintsRise)
<1>1. \A n \in Node : \A v \in kv[n] : Covered(kv[n], v)
  BY SlotTypes, AtLeastItself DEF Covered
<1>2. \A n, t \in Node : \A v \in hints[n][t] : Covered(hints[n][t], v)
  BY SlotTypes, AtLeastItself DEF Covered
<1> QED
  BY <1>1, <1>2 DEF StoresRise, HintsRise, SlotRises

LEMMA StoreReplicatedRises ==
  ASSUME CausalInv, NoConflict, NEW held \in SUBSET Issued, AtMostOne(held), NEW w \in Issued
  PROVE  \A v \in held : Covered(StoreReplicated(held, w), v)
<1>1. held \in SUBSET Version /\ w \in Version
  BY SlotTypes
<1>2. SlotForward(held, StoreReplicated(held, w))
  BY <1>1, StoreReplicatedForward
<1>3. StoreReplicated(held, w) = {} => held = {}
  BY DEF StoreReplicated
<1> HIDE DEF SlotForward
<1> QED
  BY <1>2, <1>3, ForwardCovers

LEMMA OneStoreRises ==
  ASSUME CausalInv, NoConflict, NEW n \in Node, NEW w \in Issued,
         kv' = [kv EXCEPT ![n] = StoreReplicated(kv[n], w)]
  PROVE  StoresRise
<1>1. kv'[n] = StoreReplicated(kv[n], w) /\ \A x \in Node \ {n} : kv'[x] = kv[x]
  BY SlotTypes
<1>2. \A v \in kv[n] : Covered(kv'[n], v)
  BY <1>1, SlotTypes, StoreReplicatedRises
<1>3. \A x \in Node : \A v \in kv[x] : Covered(kv[x], v)
  BY SlotTypes, AtLeastItself DEF Covered
<1> QED
  BY <1>1, <1>2, <1>3 DEF StoresRise

LEMMA OneHintRises ==
  ASSUME CausalInv, NoConflict, NEW n \in Node, NEW t \in Node, NEW w \in Issued,
         hints' = [hints EXCEPT ![n][t] = StoreReplicated(hints[n][t], w)]
  PROVE  HintsRise
<1> DEFINE S == StoreReplicated(hints[n][t], w)
<1>1. \A v \in hints[n][t] : Covered(S, v)
  BY SlotTypes, StoreReplicatedRises
<1> HIDE DEF S
<1>2. hints' = [hints EXCEPT ![n][t] = S]
  BY DEF S
<1>3. hints'[n][t] = S /\ \A x, y \in Node : x # n \/ y # t => hints'[x][y] = hints[x][y]
  BY <1>2, SlotTypes
<1>4. \A x, y \in Node : \A v \in hints[x][y] : Covered(hints[x][y], v)
  BY SlotTypes, AtLeastItself DEF Covered
<1> QED
  BY <1>1, <1>3, <1>4 DEF HintsRise, SlotRises

\* A coordinator's version is above what it replaces, and its node holds it
\* or one that supersedes it.
LEMMA CommitRises ==
  ASSUME CausalInv, NEW p \in PutIds, NEW e \in puts[p].pref, NEW ts \in Times, PutCommit(p, e, ts)
  PROVE  StoresRise /\ HintsRise
<1> DEFINE n == puts[p].at
           ver == CommitVer(p, e, ts)
<1>1. ver \in Version /\ \A v \in OwnCopy(p, e) : Below(v.clk, ver.clk)
  BY CommitFacts
<1>2. puts[p] \in PutRec /\ n \in Node
  BY CausalParts, TypeParts, PutFields
<1>3. /\ kv' = [kv EXCEPT ![n] = IF e.hint = {} THEN {ver} ELSE kv[n]]
      /\ hints' = [hints EXCEPT ![n] = [t \in Node |->
           IF t \in e.hint /\ \A v \in hints[n][t] : Compare(v.clk, ver.clk) = "DOMINATED"
           THEN {ver} ELSE hints[n][t]]]
  BY DEF PutCommit, CommitVer, OwnCopy
<1>4. \A v \in Version : Below(v.clk, ver.clk) => AtLeast(ver, v)
  <2> SUFFICES ASSUME NEW v \in Version, Below(v.clk, ver.clk) PROVE AtLeast(ver, v)
    OBVIOUS
  <2>1. v.clk \in Clock /\ ver.clk \in Clock
    BY <1>1 DEF Version
  <2>2. Compare(v.clk, ver.clk) = "DOMINATED"
    BY <2>1, DominatedIsBelow
  <2> HIDE DEF ver
  <2> QED
    BY <2>2 DEF AtLeast, Compare
<1>5. e.hint = {} => \A v \in kv[n] : AtLeast(ver, v)
  BY <1>1, <1>2, <1>4, SlotTypes DEF OwnCopy
<1>6. ASSUME NEW v \in Version, Compare(v.clk, ver.clk) = "DOMINATED" PROVE AtLeast(ver, v)
  <2> HIDE DEF ver
  <2> QED
    BY <1>6 DEF AtLeast, Compare
<1> HIDE DEF n, ver
<1>7. StoresRise
  <2> SUFFICES ASSUME NEW x \in Node, NEW v \in kv[x] PROVE Covered(kv'[x], v)
    BY DEF StoresRise
  <2>1. CASE x = n /\ e.hint = {}
    BY <1>2, <1>3, <1>5, <2>1, SlotTypes DEF Covered
  <2>2. CASE kv'[x] = kv[x]
    BY <2>2, SlotTypes, AtLeastItself DEF Covered
  <2> QED
    BY <1>2, <1>3, <2>1, <2>2, SlotTypes
<1>8. HintsRise
  <2> SUFFICES ASSUME NEW x \in Node, NEW t \in Node, NEW v \in hints[x][t]
               PROVE  Covered(hints'[x][t], v)
    BY DEF HintsRise, SlotRises
  <2>1. CASE hints'[x][t] = hints[x][t]
    BY <2>1, SlotTypes, AtLeastItself DEF Covered
  <2>2. CASE hints'[x][t] # hints[x][t]
    <3>1. x = n /\ hints'[x][t] = {ver} /\ Compare(v.clk, ver.clk) = "DOMINATED"
      BY <1>2, <1>3, <2>2, SlotTypes
    <3>2. v \in Version
      BY SlotTypes
    <3> QED
      BY <1>6, <3>1, <3>2 DEF Covered
  <2> QED
    BY <2>1, <2>2
<1> QED
  BY <1>7, <1>8

LEMMA CommitHeld ==
  ASSUME CausalInv, CausalInv', NoConflict', NEW p \in PutIds, NEW e \in puts[p].pref,
         NEW ts \in Times, PutCommit(p, e, ts)
  PROVE  \E n \in Node : Covered(Holds(n)', CommitVer(p, e, ts))
<1> SUFFICES Covered(kv'[puts[p].at] \cup (UNION {hints'[puts[p].at][t] : t \in Node}),
                     CommitVer(p, e, ts))
  <2>1. puts[p].at \in Node
    BY CausalParts, PutFields
  <2> QED
    BY <2>1 DEF Holds
<1> DEFINE n == puts[p].at
           ver == CommitVer(p, e, ts)
<1>1. ver \in Version /\ ver \in Issued' /\ Issued \subseteq Issued'
  BY CommitFacts
<1>2. n \in Node /\ e.hint \subseteq Node
  BY CausalParts, TypeParts, PutFields DEF Entry, PutRec
<1>3. /\ kv' = [kv EXCEPT ![n] = IF e.hint = {} THEN {ver} ELSE kv[n]]
      /\ hints' = [hints EXCEPT ![n] = [t \in Node |->
           IF t \in e.hint /\ \A v \in hints[n][t] : Compare(v.clk, ver.clk) = "DOMINATED"
           THEN {ver} ELSE hints[n][t]]]
  BY DEF PutCommit, CommitVer, OwnCopy
<1> HIDE DEF n, ver
<1>4. CASE e.hint = {}
  <2>1. ver \in kv'[n]
    BY <1>2, <1>3, <1>4, SlotTypes
  <2> QED
    BY <1>1, <2>1, AtLeastItself DEF Covered, n, ver
<1>5. CASE e.hint # {}
  <2>1. PICK t \in e.hint : TRUE
    BY <1>5
  <2>2. hints'[n][t] = IF \A v \in hints[n][t] : Compare(v.clk, ver.clk) = "DOMINATED"
                       THEN {ver} ELSE hints[n][t]
    BY <1>2, <1>3, <2>1, SlotTypes
  <2>3. Covered(hints'[n][t], ver)
    <3>1. CASE \A v \in hints[n][t] : Compare(v.clk, ver.clk) = "DOMINATED"
      BY <1>1, <2>2, <3>1, AtLeastItself DEF Covered
    <3>2. CASE ~\A v \in hints[n][t] : Compare(v.clk, ver.clk) = "DOMINATED"
      <4>1. PICK v \in hints[n][t] : Compare(v.clk, ver.clk) # "DOMINATED"
        BY <3>2
      <4>2. v \in Issued'
        BY <1>1, <1>2, <2>1, <4>1, SlotTypes
      <4>3. Compare(v.clk, ver.clk) # "CONCURRENT"
        BY <1>1, <4>2 DEF NoConflict
      <4>4. AtLeast(v, ver)
        BY <4>1, <4>3 DEF AtLeast, Compare
      <4>5. v \in hints'[n][t]
        BY <2>2, <4>1
      <4> QED
        BY <4>4, <4>5 DEF Covered
    <3> QED
      BY <3>1, <3>2
  <2> QED
    BY <1>2, <2>1, <2>3 DEF Covered, n, ver
<1> QED
  BY <1>4, <1>5

LEMMA FinishGetRises ==
  ASSUME CausalInv, NoConflict, NEW g \in GetIds, NEW f, FinishGet(g, f)
  PROVE  StoresRise /\ HintsRise
<1>1. f \in Arrivals(g) /\ UNCHANGED hints /\ gets[g].at \in Node
  BY CausalParts, FinishGetCases, GetFields
<1>2. ASSUME NEW win \in ResolveGetResult(Versions(f)), Repairs(g, win) PROVE StoresRise
  <2>1. win \in Issued
    BY <1>1, CausalParts, WinnerIsAReply DEF Versions, Found
  <2> QED
    BY <1>1, <1>2, <2>1, RiseAlone, OneStoreRises DEF Repairs
<1>3. StoresRise
  BY <1>2, CausalParts, FinishGetCases, RiseAlone
<1> QED
  BY <1>1, <1>3, RiseAlone

\* Short of a crash, only the delivery of a hint takes a version away.
LEMMA NextRises ==
  ASSUME CausalInv, NoConflict, Next, \A n \in Node : ~Crash(n)
  PROVE  StoresRise /\ (HintsRise \/ \E m \in rpcs : HintDelivered(m))
<1>1. UNCHANGED <<kv, hints>> => StoresRise /\ HintsRise
  BY RiseAlone
<1>2. CASE \E p \in PutIds : PutStep(p)
  BY <1>1, <1>2, ForwardPutStep, CommitRises
<1>3. CASE \E g \in GetIds : GetStep(g)
  BY <1>1, <1>3, ForwardGetStep, FinishGetRises
<1>4. CASE \E m \in rpcs : RpcStep(m)
  <2>1. PICK m \in rpcs : RpcStep(m)
    BY <1>4
  <2>2. m.to \in Node /\ m.owner \in Node /\ m.ver \in Issued
    BY CausalParts, RpcFields
  <2>3. CASE StoreWrite(m)
    BY <2>2, <2>3, OneStoreRises, RiseAlone DEF StoreWrite
  <2>4. CASE StoreHint(m)
    <3>1. hints' = [hints EXCEPT ![m.to][m.owner] = StoreReplicated(hints[m.to][m.owner], m.ver)]
      BY <2>4 DEF StoreHint
    <3> QED
      BY <2>2, <2>4, <3>1, OneHintRises, RiseAlone DEF StoreHint
  <2>5. CASE HintDelivered(m)
    BY <2>5, RiseAlone DEF HintDelivered
  <2> QED
    BY <1>1, <2>1, <2>3, <2>4, <2>5, ForwardRpcStep
<1>5. CASE \E n \in Node : NodeStep(n)
  BY <1>1, <1>5, ForwardNodeStep
<1> QED
  BY <1>2, <1>3, <1>4, <1>5 DEF Next

-----------------------------------------------------------------------------
(* Where the writes are, as long as no node crashes and no two writes are  *)
(* concurrent.                                                             *)

Quiet == spent.crashes = 0 /\ NoConflict

\* A call that was served left its version with the callee, or a later one.
StoredCovered == \A m \in rpcs : m.st = "stored" /\ ~m.hinted => Covered(kv[m.to], m.ver)

AllHeld == \A v \in Issued : \E n \in Node : Covered(Holds(n), v)

OwnersHold == \A p \in PutIds : \A n \in puts[p].owners, v \in puts[p].ver : Covered(kv[n], v)

HeldInv == Quiet => StoredCovered /\ AllHeld /\ OwnersHold

\* A step that ends quiet began quiet.
LEMMA QuietYet ==
  ASSUME TaskInv, Next, Quiet'
  PROVE  Quiet /\ \A n \in Node : ~Crash(n)
BY TaskParts, NoCrashYet, NoConflictYet DEF Quiet

\* What a store covers it goes on covering.
LEMMA StillCovered ==
  ASSUME TaskInv, TaskInv', StoresRise, NEW n \in Node, NEW v \in Version, Covered(kv[n], v)
  PROVE  Covered(kv'[n], v)
<1>1. PICK x \in kv[n] : AtLeast(x, v)
  BY DEF Covered
<1>2. x \in Version /\ Covered(kv'[n], x)
  BY TaskParts, SlotTypes DEF StoresRise
<1>3. kv' \in [Node -> SUBSET Version]
  BY TaskParts, CausalParts, TypeParts DEF TaskInv, CausalInv, TypeOK
<1> QED
  BY <1>1, <1>2, <1>3, CoveredTransitive

LEMMA StoredCoveredNext ==
  ASSUME TaskInv, TaskInv', Next, Quiet, HeldInv, StoresRise, \A n \in Node : ~Crash(n)
  PROVE  StoredCovered'
<1> SUFFICES ASSUME NEW x \in rpcs', x.st = "stored", ~x.hinted
             PROVE  Covered(kv'[x.to], x.ver)
  BY DEF StoredCovered
<1>1. ASSUME NEW m \in rpcs, m.st = "stored", ~m.hinted PROVE Covered(kv'[m.to], m.ver)
  BY <1>1, TaskParts, RpcFields, StillCovered DEF HeldInv, StoredCovered
<1>2. CallMove(x)
  BY TaskParts, CallsMove
<1>3. CASE x \in rpcs
  BY <1>1, <1>3
<1>4. CASE Served(x)
  <2>1. PICK m \in rpcs : /\ Follows(x, m)
                          /\ \/ m.st = "stored"
                             \/ m.st = "marked"
                             \/ Covered(kv'[m.to], m.ver)
    BY <1>4 DEF Served
  <2>2. x.to = m.to /\ x.ver = m.ver /\ ~m.hinted
    BY <2>1 DEF Follows
  <2>3. m.st # "marked"
    BY <2>2, TaskParts
  <2> QED
    BY <1>1, <2>1, <2>2, <2>3
<1>5. ~SentBack(x) /\ ~SentFirst(x) /\ ~SentNext(x)
  BY DEF SentBack, SentFirst, SentNext
<1> QED
  BY <1>2, <1>3, <1>4, <1>5 DEF CallMove

\* A delivered hint is where it was delivered to.
LEMMA DeliveredHeld ==
  ASSUME TaskInv, Quiet, HeldInv, NEW m \in rpcs, HintDelivered(m),
         NEW h \in hints[m.from][m.to], h \notin hints'[m.from][m.to]
  PROVE  Covered(kv[m.to], h)
<1>1. m.from \in Node /\ m.to \in Node /\ m.ver \in Version /\ h \in Version
  BY TaskParts, RpcFields, SlotTypes
<1>2. hints'[m.from][m.to] = {x \in hints[m.from][m.to] : Compare(x.clk, m.ver.clk) # "EQUAL"}
  BY <1>1, TaskParts, SlotTypes DEF HintDelivered
<1>3. Compare(h.clk, m.ver.clk) = "EQUAL"
  BY <1>2
<1>4. Covered(kv[m.to], m.ver)
  BY TaskParts DEF HintDelivered, HeldInv, StoredCovered
<1>5. kv[m.to] \in SUBSET Version
  BY <1>1, TaskParts, SlotTypes
<1> QED
  BY <1>1, <1>3, <1>4, <1>5, EqualIsAtLeast, CoveredTransitive

LEMMA AllHeldNext ==
  ASSUME TaskInv, TaskInv', Next, Quiet, Quiet', HeldInv, \A n \in Node : ~Crash(n)
  PROVE  AllHeld'
<1>1. StoresRise /\ (HintsRise \/ \E m \in rpcs : HintDelivered(m))
  BY TaskParts, NextRises DEF Quiet
<1>2. /\ kv' \in [Node -> SUBSET Version] /\ hints' \in [Node -> [Node -> SUBSET Version]]
      /\ Issued \subseteq Version
  BY TaskParts, SlotTypes DEF TaskInv, CausalInv, TypeOK
<1>3. \A n \in Node : Holds(n)' = kv'[n] \cup (UNION {hints'[n][t] : t \in Node})
  BY DEF Holds
<1>4. \A n \in Node : Holds(n)' \in SUBSET Version
  BY <1>2, <1>3
<1>5. ASSUME NEW v \in Issued PROVE \E n \in Node : Covered(Holds(n)', v)
  <2>0. PICK n \in Node : Covered(Holds(n), v)
    BY DEF HeldInv, AllHeld
  <2>1. PICK x \in Holds(n) : AtLeast(x, v)
    BY <2>0 DEF Covered
  <2>2. CASE x \in kv[n]
    <3>1. Covered(kv[n], v) /\ v \in Version
      BY <1>2, <2>1, <2>2 DEF Covered
    <3>2. Covered(kv'[n], v)
      BY <1>1, <3>1, StillCovered
    <3> QED
      BY <1>3, <3>2 DEF Covered
  <2>3. ASSUME NEW t \in Node, x \in hints[n][t] PROVE \E k \in Node : Covered(Holds(k)', v)
    <3>1. x \in Version /\ v \in Version
      BY <1>2, <2>3, TaskParts, SlotTypes
    <3>2. CASE Covered(hints'[n][t], x)
      <4>1. Covered(Holds(n)', x)
        BY <1>3, <3>2 DEF Covered
      <4> QED
        BY <1>4, <2>1, <3>1, <4>1, CoveredTransitive
    <3>3. CASE ~Covered(hints'[n][t], x)
      <4>1. x \notin hints'[n][t]
        BY <3>1, <3>3, AtLeastItself DEF Covered
      <4>2. PICK m \in rpcs : HintDelivered(m)
        BY <1>1, <2>3, <3>3 DEF HintsRise, SlotRises
      <4>3. n = m.from /\ t = m.to
        BY <2>3, <4>1, <4>2, TaskParts, SlotTypes DEF HintDelivered
      <4>4. Covered(kv[t], x)
        BY <2>3, <4>1, <4>2, <4>3, DeliveredHeld
      <4>5. Covered(kv'[t], x)
        BY <1>1, <3>1, <4>4, StillCovered
      <4>6. Covered(kv'[t], v)
        BY <1>2, <2>1, <3>1, <4>5, CoveredTransitive
      <4> QED
        BY <1>3, <4>6 DEF Covered
    <3> QED
      BY <3>2, <3>3
  <2> QED
    BY <2>1, <2>2, <2>3 DEF Holds
<1>6. ASSUME NEW v \in Issued', v \notin Issued PROVE \E n \in Node : Covered(Holds(n)', v)
  <2>1. ~(PutsKept /\ StoresKept)
    BY <1>6, TaskParts, IssuedKept
  <2>2. PICK p \in PutIds : \E e \in puts[p].pref, ts \in Times : PutCommit(p, e, ts)
    BY <2>1, TaskParts, KeptPutStep, KeptGetStep, KeptRpcStep, KeptNodeStep DEF Next
  <2>5. PICK e \in puts[p].pref, ts \in Times : PutCommit(p, e, ts)
    BY <2>2
  <2>3. v = CommitVer(p, e, ts)
    BY <1>6, <2>5, TaskParts, CommitFacts
  <2>4. CausalInv /\ CausalInv' /\ NoConflict'
    BY DEF TaskInv, Quiet
  <2> QED
    BY <2>3, <2>4, <2>5, CommitHeld
<1> QED
  BY <1>5, <1>6 DEF AllHeld

LEMMA OwnersHoldNext ==
  ASSUME TaskInv, TaskInv', Next, Quiet, HeldInv, StoresRise, \A n \in Node : ~Crash(n)
  PROVE  OwnersHold'
<1> SUFFICES ASSUME NEW p \in PutIds, NEW n \in puts'[p].owners, NEW v \in puts'[p].ver
             PROVE  Covered(kv'[n], v)
  BY DEF OwnersHold
<1>1. \A q \in PutIds : puts[q].owners \subseteq Node /\ puts[q].ver \subseteq Version
  BY TaskParts, TypeParts DEF PutRec
<1>2. ASSUME NEW x \in puts[p].owners, NEW w \in puts[p].ver PROVE Covered(kv'[x], w)
  <2>1. Covered(kv[x], w) /\ x \in Node /\ w \in Version
    BY <1>1 DEF HeldInv, OwnersHold
  <2> QED
    BY <2>1, StillCovered
<1>3. PutMove(p)
  BY TaskParts, PutsMove
<1>4. CASE puts'[p] = puts[p] \/ Joins(p) \/ Dies(p)
  BY <1>2, <1>4 DEF Joins, Dies, SamePut
<1>5. CASE Waits(p) \/ Relays(p)
  BY <1>5, TaskParts DEF Waits, Relays
<1>6. CASE Commits(p)
  <2>1. PICK e \in puts[p].pref, ts \in Times : PutCommit(p, e, ts)
    BY <1>6 DEF Commits
  <2> DEFINE at == puts[p].at
             ver == CommitVer(p, e, ts)
             past == UNION {{u.id} \cup puts[u.id].past : u \in puts[p].ctx \cup OwnCopy(p, e)}
             r == [puts[p] EXCEPT !.pc = "fanout", !.pref = {}, !.ctx = {}, !.ver = {ver},
                                  !.acks = 1, !.ackers = {at},
                                  !.owners = IF e.hint = {} THEN {at} ELSE {}, !.past = past]
  <2>2. /\ puts' = [puts EXCEPT ![p] = r]
        /\ kv' = [kv EXCEPT ![at] = IF e.hint = {} THEN {ver} ELSE kv[at]]
    BY <2>1 DEF PutCommit, CommitVer, OwnCopy
  <2>3. puts[p] \in PutRec /\ at \in Node /\ puts \in [PutIds -> PutRec]
    BY TaskParts, TypeParts, PutFields
  <2>4. puts'[p].ver = {ver} /\ ver \in Version
    BY <2>1, TaskParts, CommitFacts
  <2> HIDE DEF ver, past
  <2>5. r.owners = IF e.hint = {} THEN {at} ELSE {}
    BY <2>3 DEF PutRec
  <2> HIDE DEF r
  <2>6. puts'[p] = r
    BY <2>2, <2>3
  <2>7. e.hint = {} /\ n = at /\ v = ver
    BY <2>4, <2>5, <2>6
  <2>8. kv'[at] = {ver}
    BY <2>2, <2>3, <2>7, TaskParts, SlotTypes
  <2> QED
    BY <2>4, <2>7, <2>8, AtLeastItself DEF Covered
<1>7. CASE Counts(p)
  <2>1. PICK m \in rpcs : m.by = p /\ PutAck(m)
    BY <1>7 DEF Counts
  <2>2. /\ puts[p].ver = {m.ver} /\ puts'[p].ver = {m.ver}
        /\ puts'[p].owners = IF m.hinted THEN puts[p].owners ELSE puts[p].owners \cup {m.to}
    BY <2>1, AckFields
  <2>3. CASE n \in puts[p].owners
    BY <1>2, <2>2, <2>3
  <2>4. CASE n \notin puts[p].owners
    <3>1. n = m.to /\ ~m.hinted /\ v = m.ver /\ m.st = "stored"
      BY <2>1, <2>2, <2>4 DEF PutAck
    <3>2. Covered(kv[m.to], m.ver)
      BY <3>1 DEF HeldInv, StoredCovered
    <3> QED
      BY <3>1, <3>2, TaskParts, RpcFields, StillCovered
  <2> QED
    BY <2>3, <2>4
<1> QED
  BY <1>3, <1>4, <1>5, <1>6, <1>7 DEF PutMove

LEMMA HeldNext == ASSUME TaskInv, TaskInv', HeldInv, Next PROVE HeldInv'
<1> SUFFICES ASSUME Quiet' PROVE StoredCovered' /\ AllHeld' /\ OwnersHold'
  BY DEF HeldInv
<1>1. Quiet /\ \A n \in Node : ~Crash(n)
  BY QuietYet
<1>2. StoresRise
  BY <1>1, TaskParts, NextRises DEF Quiet
<1> QED
  BY <1>1, <1>2, StoredCoveredNext, AllHeldNext, OwnersHoldNext

LEMMA HeldInit == Init => HeldInv
<1> SUFFICES ASSUME Init PROVE StoredCovered /\ AllHeld /\ OwnersHold
  BY DEF HeldInv
<1>1. \A p \in PutIds : puts[p].ver = {} /\ puts[p].owners = {}
  BY DEF Init, NewPut
<1>2. Issued = {}
  BY <1>1 DEF Issued
<1> QED
  BY <1>1, <1>2 DEF Init, StoredCovered, AllHeld, OwnersHold

LEMMA HeldAlone == HeldInv /\ UNCHANGED vars => HeldInv'
BY DEF HeldInv, vars, Quiet, NoConflict, StoredCovered, AllHeld, OwnersHold, Issued, Holds

(* Without crashes and concurrent writes every write, acknowledged or not, *)
(* is somewhere, and with every owner that acknowledged it.                *)
THEOREM HeldInvariant == Spec => []HeldInv
<1>1. TaskInv /\ TaskInv' /\ HeldInv /\ [Next]_vars => HeldInv'
  BY HeldNext, HeldAlone
<1> QED
  BY <1>1, HeldInit, TaskInvariant, PTL DEF Spec

(* Without crashes and concurrent writes an acknowledged write, or one     *)
(* that supersedes it, is always in some node's store or among its hints.  *)
THEOREM AckedWritesStay == Spec => []AckedNeverVanishes
<1>1. HeldInv => AckedNeverVanishes
  <2> SUFFICES ASSUME HeldInv, Quiet, NEW v \in Acked
               PROVE  \E n \in Node : \E x \in Holds(n) : AtLeast(x, v)
    BY DEF AckedNeverVanishes, Quiet
  <2>1. v \in Issued
    BY DEF Acked, Issued
  <2> QED
    BY <2>1 DEF HeldInv, AllHeld, Covered
<1> QED
  BY <1>1, HeldInvariant, PTL

(* A hint is given up only when its owner stores the write, or one that    *)
(* supersedes it (without crashes and concurrent writes).                  *)
THEOREM HintsAreDelivered == Spec => HintGivenUpOnlyWhenHeld
<1> DEFINE GivenUp == Quiet =>
             \A n, t \in Node : \A h \in hints[n][t] :
               hints'[n][t] = {} /\ up'[n] => \E x \in kv[t] : AtLeast(x, h)
<1>1. TaskInv /\ HeldInv /\ [Next]_vars => [GivenUp]_vars
  <2> SUFFICES ASSUME TaskInv, HeldInv, Next, Quiet, NEW n \in Node, NEW t \in Node,
                      NEW h \in hints[n][t], hints'[n][t] = {}, up'[n]
               PROVE  Covered(kv[t], h)
    BY DEF Covered
  <2>1. ASSUME NEW k \in Node, Crash(k) PROVE FALSE
    <3>1. k # n
      BY <2>1, TaskParts, TypeParts DEF Crash, TypeOK
    <3>2. hints'[n] = hints[n]
      BY <2>1, <3>1, TaskParts, SlotTypes DEF Crash
    <3> QED
      BY <3>2
  <2>2. HintsRise \/ \E m \in rpcs : HintDelivered(m)
    BY <2>1, TaskParts, NextRises DEF Quiet
  <2>3. ~HintsRise
    BY DEF HintsRise, SlotRises, Covered
  <2>4. PICK m \in rpcs : HintDelivered(m)
    BY <2>2, <2>3
  <2>5. n = m.from /\ t = m.to
    BY <2>4, TaskParts, SlotTypes DEF HintDelivered
  <2> QED
    BY <2>4, <2>5, DeliveredHeld
<1>2. Spec => [][GivenUp]_vars
  BY <1>1, TaskInvariant, HeldInvariant, PTL DEF Spec
<1> QED
  BY <1>2 DEF HintGivenUpOnlyWhenHeld, Quiet

-----------------------------------------------------------------------------
(* The life of a Get.                                                      *)

\* A read begins, or is turned away, with all that is acknowledged by now.
Asks(g) ==
  /\ gets'[g].pc \in {"failed", "admitted"} /\ gets'[g].results = {} /\ gets'[g].win = {}
  /\ gets'[g].before = Acked

SameGet(g) ==
  gets'[g].results = gets[g].results /\ gets'[g].win = gets[g].win /\ gets'[g].before = gets[g].before

Lists(g) ==
  /\ \/ gets[g].pc = "admitted" /\ gets'[g].pc = "routing"
     \/ gets[g].pc = "routing" /\ gets'[g].pc \in {"failed", "reading"}
  /\ SameGet(g)

\* The reply of n: what it stores, unless it answers as a removed node.
Reply(n) == [node |-> n, ver |-> kv[n]]

Empty(n) == [node |-> n, ver |-> {}]

Hears(g) ==
  /\ gets[g].pc = "reading" /\ gets'[g].pc = "reading"
  /\ \E n \in gets[g].pending :
       /\ gets'[g].pending = gets[g].pending \ {n}
       /\ \/ gets'[g].results = gets[g].results \cup {Reply(n)}
          \/ isSelfRemoved(n) /\ gets'[g].results = gets[g].results \cup {Empty(n)}
  /\ gets'[g].win = gets[g].win /\ gets'[g].before = gets[g].before

Misses(g) ==
  /\ gets[g].pc = "reading" /\ gets'[g].pc = "reading"
  /\ gets'[g].pending \subseteq gets[g].pending /\ SameGet(g)

Ends(g) == \E f : FinishGet(g, f)

Stops(g) == gets'[g].pc = "dead" /\ SameGet(g)

GetMove(g) ==
  gets'[g] = gets[g] \/ Asks(g) \/ Lists(g) \/ Hears(g) \/ Misses(g) \/ Ends(g) \/ Stops(g)

LEMMA OneGetMoves ==
  ASSUME TypeOK, NEW g \in GetIds, NEW r, gets' = [gets EXCEPT ![g] = r],
         gets'[g] = r => GetMove(g)
  PROVE  \A h \in GetIds : GetMove(h)
<1>1. gets \in [GetIds -> GetRec]
  BY TypeParts
<1>2. gets'[g] = r /\ \A h \in GetIds \ {g} : gets'[h] = gets[h]
  BY <1>1
<1> QED
  BY <1>2 DEF GetMove

LEMMA MovesClientGet ==
  ASSUME TypeOK, NEW g \in GetIds, NEW n, ClientGet(g, n) PROVE \A h \in GetIds : GetMove(h)
<1> DEFINE r == NewGet(n, IF isSelfRemoved(n) THEN "failed" ELSE "admitted", Acked)
<1>1. r.pc \in {"failed", "admitted"} /\ r.results = {} /\ r.win = {} /\ r.before = Acked
  BY DEF NewGet
<1>2. gets' = [gets EXCEPT ![g] = r]
  BY DEF ClientGet
<1> HIDE DEF r
<1>3. gets'[g] = r => Asks(g)
  BY <1>1 DEF Asks
<1> QED
  BY <1>2, <1>3, OneGetMoves DEF GetMove

LEMMA MovesSnapshotGet ==
  ASSUME TypeOK, NEW g \in GetIds, SnapshotGet(g) PROVE \A h \in GetIds : GetMove(h)
<1> DEFINE r == [gets[g] EXCEPT !.pc = "routing", !.bad = unreachable[gets[g].at]]
<1>1. gets[g] \in GetRec /\ gets[g].pc = "admitted" /\ gets' = [gets EXCEPT ![g] = r]
  BY TypeParts DEF SnapshotGet
<1>2. /\ r.pc = "routing"
      /\ r.results = gets[g].results /\ r.win = gets[g].win /\ r.before = gets[g].before
  BY <1>1 DEF GetRec
<1> HIDE DEF r
<1>3. gets'[g] = r => Lists(g)
  BY <1>1, <1>2 DEF Lists, SameGet
<1> QED
  BY <1>1, <1>3, OneGetMoves DEF GetMove

LEMMA MovesRouteGet ==
  ASSUME TypeOK, NEW g \in GetIds, RouteGet(g) PROVE \A h \in GetIds : GetMove(h)
<1> DEFINE list == PreferenceList(ring[gets[g].at], gets[g].bad)
           to == NodesOf(list)
           r == IF Cardinality(list) < R
                THEN [gets[g] EXCEPT !.pc = "failed", !.bad = {}]
                ELSE [gets[g] EXCEPT !.pc = "reading", !.bad = {}, !.pending = to]
<1>1. gets[g] \in GetRec /\ gets[g].pc = "routing" /\ gets' = [gets EXCEPT ![g] = r]
  BY TypeParts DEF RouteGet
<1> HIDE DEF list, to
<1>2. /\ r.pc \in {"failed", "reading"}
      /\ r.results = gets[g].results /\ r.win = gets[g].win /\ r.before = gets[g].before
  BY <1>1 DEF GetRec
<1> HIDE DEF r
<1>3. gets'[g] = r => Lists(g)
  BY <1>1, <1>2 DEF Lists, SameGet
<1> QED
  BY <1>1, <1>3, OneGetMoves DEF GetMove

LEMMA MovesReadReplica ==
  ASSUME TypeOK, NEW g \in GetIds, NEW n, ReadReplica(g, n) PROVE \A h \in GetIds : GetMove(h)
<1> DEFINE reply == [node |-> n, ver |-> IF n # gets[g].at /\ isSelfRemoved(n) THEN {} ELSE kv[n]]
           r == [gets[g] EXCEPT !.pending = gets[g].pending \ {n},
                                !.results = gets[g].results \cup {reply}]
<1>1. gets[g] \in GetRec /\ gets[g].pc = "reading" /\ n \in gets[g].pending
  BY TypeParts DEF ReadReplica
<1>2. gets' = [gets EXCEPT ![g] = r]
  BY DEF ReadReplica
<1>3. reply = Reply(n) \/ (isSelfRemoved(n) /\ reply = Empty(n))
  BY DEF Reply, Empty
<1> HIDE DEF reply
<1>4. /\ r.pc = "reading" /\ r.pending = gets[g].pending \ {n}
      /\ r.results = gets[g].results \cup {reply}
      /\ r.win = gets[g].win /\ r.before = gets[g].before
  BY <1>1 DEF GetRec
<1> HIDE DEF r
<1>5. gets'[g] = r => Hears(g)
  BY <1>1, <1>3, <1>4 DEF Hears
<1> QED
  BY <1>2, <1>5, OneGetMoves DEF GetMove

LEMMA MovesReadFails ==
  ASSUME TypeOK, NEW g \in GetIds, NEW n, ReadFails(g, n) PROVE \A h \in GetIds : GetMove(h)
<1> DEFINE r == [gets[g] EXCEPT !.pending = gets[g].pending \ {n}]
<1>1. gets[g] \in GetRec /\ gets[g].pc = "reading" /\ gets' = [gets EXCEPT ![g] = r]
  BY TypeParts DEF ReadFails
<1>2. /\ r.pc = "reading" /\ r.pending \subseteq gets[g].pending
      /\ r.results = gets[g].results /\ r.win = gets[g].win /\ r.before = gets[g].before
  BY <1>1 DEF GetRec
<1> HIDE DEF r
<1>3. gets'[g] = r => Misses(g)
  BY <1>1, <1>2 DEF Misses, SameGet
<1> QED
  BY <1>1, <1>3, OneGetMoves DEF GetMove

LEMMA MovesFinishGet ==
  ASSUME TypeOK, NEW g \in GetIds, NEW f, FinishGet(g, f) PROVE \A h \in GetIds : GetMove(h)
<1>1. gets \in [GetIds -> GetRec]
  BY TypeParts
<1>2. \A h \in GetIds \ {g} : gets'[h] = gets[h]
  BY <1>1, FinishGetCases DEF Answers
<1>3. Ends(g)
  BY DEF Ends
<1> QED
  BY <1>2, <1>3 DEF GetMove

LEMMA GetsMove == ASSUME TypeOK, Next PROVE \A g \in GetIds : GetMove(g)
<1>1. UNCHANGED gets => \A g \in GetIds : GetMove(g)
  BY DEF GetMove
<1>2. ASSUME NEW p \in PutIds, PutStep(p) PROVE UNCHANGED gets
  BY <1>2 DEF PutStep, ClientPut, SnapshotPut, RoutePut, PutCommit, PutJoin, ForwardSend, ForwardFails,
              ForwardBreaks, ForwardRelay, ForwardExhausted
<1>3. ASSUME NEW x \in GetIds, GetStep(x) PROVE \A g \in GetIds : GetMove(g)
  BY <1>3, MovesClientGet, MovesSnapshotGet, MovesRouteGet, MovesReadReplica,
     MovesReadFails, MovesFinishGet DEF GetStep
<1>4. ASSUME NEW m \in rpcs, RpcStep(m) PROVE UNCHANGED gets
  BY <1>4 DEF RpcStep, RefuseWrite, StoreWrite, MarkHint, StoreHint, PutAck, PutCallFails,
              SnapshotTask, Substitute, RepairDone, BackgroundCallFails, HintDelivered,
              HintRefused
<1>5. ASSUME NEW n \in Node, NodeStep(n) PROVE UNCHANGED gets \/ Crash(n)
  BY <1>5 DEF NodeStep, PingOk, MarkReachable, DeliverHints, GossipFails, ChangeRing, Restart,
              Bootstrap, BootstrapFails
<1>6. ASSUME NEW n \in Node, Crash(n), NEW g \in GetIds PROVE GetMove(g)
  <2>1. gets[g] \in GetRec
    BY TypeParts
  <2>2. gets'[g] = gets[g] \/ gets'[g] = [gets[g] EXCEPT !.pc = "dead"]
    BY <1>6 DEF Crash
  <2>3. ASSUME gets'[g] = [gets[g] EXCEPT !.pc = "dead"] PROVE Stops(g)
    BY <2>1, <2>3 DEF Stops, SameGet, GetRec
  <2> QED
    BY <2>2, <2>3 DEF GetMove
<1> QED
  BY <1>1, <1>2, <1>3, <1>4, <1>5, <1>6 DEF Next

\* What the end of a read leaves of it.
LEMMA EndsFields ==
  ASSUME TypeOK, NEW g \in GetIds, Ends(g)
  PROVE  /\ gets[g].pc = "reading" /\ gets[g].pending = {} /\ gets'[g].before = gets[g].before
         /\ \/ gets'[g].pc = "failed" /\ gets'[g].win = gets[g].win
            \/ /\ gets'[g].pc = "none" /\ gets'[g].win = gets[g].win
               /\ Cardinality(gets[g].results) >= R
               /\ \E f \in Arrivals(g) : Found(f) = {}
            \/ /\ gets'[g].pc = "ok" /\ Cardinality(gets[g].results) >= R
               /\ \E f \in Arrivals(g) : \E w \in ResolveGetResult(Versions(f)) : gets'[g].win = {w}
<1>1. PICK f : FinishGet(g, f)
  BY DEF Ends
<1>2. gets \in [GetIds -> GetRec] /\ gets[g] \in GetRec
  BY TypeParts
<1>3. ASSUME NEW w, Answers(g, w)
      PROVE  gets'[g].pc = "ok" /\ gets'[g].win = {w} /\ gets'[g].before = gets[g].before
  <2> DEFINE r == [gets[g] EXCEPT !.pc = "ok", !.results = {}, !.win = {w}]
  <2>1. r.pc = "ok" /\ r.win = {w} /\ r.before = gets[g].before
    BY <1>2 DEF GetRec
  <2>2. gets'[g] = r
    BY <1>2, <1>3 DEF Answers
  <2> HIDE DEF r
  <2> QED
    BY <2>1, <2>2
<1>4. ASSUME NEW pc, gets' = [gets EXCEPT ![g].pc = pc]
      PROVE  gets'[g].pc = pc /\ gets'[g].win = gets[g].win /\ gets'[g].before = gets[g].before
  BY <1>2, <1>4 DEF GetRec
<1>5. /\ f \in Arrivals(g) /\ gets[g].pc = "reading" /\ gets[g].pending = {}
      /\ \/ gets' = [gets EXCEPT ![g].pc = "failed"]
         \/ /\ Cardinality(gets[g].results) >= R /\ Found(f) = {}
            /\ gets' = [gets EXCEPT ![g].pc = "none"]
         \/ /\ Cardinality(gets[g].results) >= R
            /\ \E w \in ResolveGetResult(Versions(f)) : Answers(g, w)
  BY <1>1, FinishGetCases
<1> QED
  BY <1>3, <1>4, <1>5

-----------------------------------------------------------------------------
(* Reads meet writes.                                                      *)

NoRepliesYet == \A g \in GetIds : gets[g].pc \in {"free", "admitted", "routing"} => gets[g].results = {}

\* Every node answers a read once, with one version at most.
OneReplyEach ==
  \A g \in GetIds : gets[g].pc = "reading" =>
    \A r \in gets[g].results :
      /\ r.node \notin gets[g].pending /\ AtMostOne(r.ver)
      /\ \A s \in gets[g].results : r.node = s.node => r = s

BeforeDone == \A g \in GetIds : \A v \in gets[g].before : v \in Issued /\ Done(v.id)

FullRings == spent.crashes = 0 /\ spent.changes = 0 => \A n \in Node : ring[n] = Node

\* An owner of a write that was acknowledged before the read replies with it.
OwnersReply ==
  \A g \in GetIds : gets[g].pc = "reading" =>
    \A v \in gets[g].before : \A r \in gets[g].results :
      r.node \in puts[v.id].owners => Covered(r.ver, v)

ReadInv ==
  /\ NoRepliesYet /\ OneReplyEach /\ BeforeDone /\ FullRings
  /\ Quiet /\ spent.changes = 0 => OwnersReply
  /\ ReadCoversAcked

LEMMA ReadsNext ==
  ASSUME TaskInv, ReadInv, Next PROVE NoRepliesYet' /\ OneReplyEach'
<1> SUFFICES ASSUME NEW g \in GetIds
             PROVE  /\ gets'[g].pc \in {"free", "admitted", "routing"} => gets'[g].results = {}
                    /\ gets'[g].pc = "reading" =>
                         \A r \in gets'[g].results :
                           /\ r.node \notin gets'[g].pending /\ AtMostOne(r.ver)
                           /\ \A s \in gets'[g].results : r.node = s.node => r = s
  BY DEF NoRepliesYet, OneReplyEach
<1>1. /\ gets[g].pc \in {"free", "admitted", "routing"} => gets[g].results = {}
      /\ gets[g].pc = "reading" =>
           \A r \in gets[g].results :
             /\ r.node \notin gets[g].pending /\ AtMostOne(r.ver)
             /\ \A s \in gets[g].results : r.node = s.node => r = s
  BY DEF ReadInv, NoRepliesYet, OneReplyEach
<1>2. GetMove(g)
  BY TaskParts, GetsMove
<1>3. CASE gets'[g] = gets[g]
  BY <1>1, <1>3
<1>4. CASE Asks(g)
  BY <1>4 DEF Asks
<1>5. CASE Lists(g)
  BY <1>1, <1>5 DEF Lists, SameGet
<1>6. CASE Hears(g)
  <2>1. PICK n \in gets[g].pending :
          /\ gets'[g].pending = gets[g].pending \ {n}
          /\ \/ gets'[g].results = gets[g].results \cup {Reply(n)}
             \/ gets'[g].results = gets[g].results \cup {Empty(n)}
    BY <1>6 DEF Hears
  <2>2. n \in Node
    BY TaskParts, TypeParts DEF GetRec
  <2>3. AtMostOne(kv[n]) /\ AtMostOne({})
    BY <2>2, TaskParts, SlotTypes DEF AtMostOne
  <2>4. Reply(n).node = n /\ Reply(n).ver = kv[n] /\ Empty(n).node = n /\ Empty(n).ver = {}
    BY DEF Reply, Empty
  <2>5. PICK x : gets'[g].results = gets[g].results \cup {x} /\ x.node = n /\ AtMostOne(x.ver)
    BY <2>1, <2>3, <2>4
  <2>6. gets[g].pc = "reading" /\ gets'[g].pc = "reading"
    BY <1>6 DEF Hears
  <2> QED
    BY <1>1, <2>1, <2>5, <2>6
<1>7. CASE Misses(g)
  BY <1>1, <1>7 DEF Misses, SameGet
<1>8. CASE Ends(g)
  BY <1>8, TaskParts, EndsFields
<1>9. CASE Stops(g)
  BY <1>9 DEF Stops
<1> QED
  BY <1>2, <1>3, <1>4, <1>5, <1>6, <1>7, <1>8, <1>9 DEF GetMove

\* The writes a read looks back to are the ones it began with.
LEMMA BeforeMoves ==
  ASSUME TaskInv, Next, NEW g \in GetIds
  PROVE  gets'[g].before = gets[g].before \/ Asks(g)
<1>1. GetMove(g)
  BY TaskParts, GetsMove
<1> QED
  BY <1>1, TaskParts, EndsFields DEF GetMove, Lists, Hears, Misses, Stops, SameGet

LEMMA BeforeDoneNext == ASSUME TaskInv, ReadInv, Next PROVE BeforeDone'
<1> SUFFICES ASSUME NEW g \in GetIds, NEW v \in gets'[g].before
             PROVE  v \in Issued' /\ Done(v.id)'
  BY DEF BeforeDone
<1>1. v \in Issued /\ Done(v.id)
  <2>1. CASE gets'[g].before = gets[g].before
    BY <2>1 DEF ReadInv, BeforeDone
  <2>2. CASE gets'[g].before = Acked
    <3>1. PICK p \in PutIds : puts[p].pc = "ok" /\ v \in puts[p].ver
      BY <2>2 DEF Acked
    <3> QED
      BY <3>1, TaskParts DEF Done, Issued
  <2> QED
    BY <2>1, <2>2, BeforeMoves DEF Asks
<1>2. v.id \in PutIds
  BY <1>1, TaskParts, IssuedIsItsPut
<1> QED
  BY <1>1, <1>2, TaskParts, IssuedGrows, DoneStays DEF Done

LEMMA RingMoves ==
  ASSUME Next
  PROVE  \/ UNCHANGED ring
         \/ \E n \in Node : Crash(n)
         \/ \E n \in Node, view \in SUBSET Node : ChangeRing(n, view)
         \/ \E n, t \in Node : Bootstrap(n, t) \/ BootstrapFails(n, t)
<1>1. ASSUME NEW p \in PutIds, PutStep(p) PROVE UNCHANGED ring
  BY <1>1 DEF PutStep, ClientPut, SnapshotPut, RoutePut, PutCommit, PutJoin, ForwardSend, ForwardFails,
              ForwardBreaks, ForwardRelay, ForwardExhausted, node
<1>2. ASSUME NEW g \in GetIds, GetStep(g) PROVE UNCHANGED ring
  BY <1>2 DEF GetStep, ClientGet, SnapshotGet, RouteGet, ReadReplica, ReadFails, FinishGet, node
<1>3. ASSUME NEW m \in rpcs, RpcStep(m) PROVE UNCHANGED ring
  BY <1>3 DEF RpcStep, RefuseWrite, StoreWrite, MarkHint, StoreHint, PutAck, PutCallFails,
              SnapshotTask, Substitute, RepairDone, BackgroundCallFails, HintDelivered,
              HintRefused, node
<1>4. ASSUME NEW n \in Node, NodeStep(n)
      PROVE  \/ UNCHANGED ring \/ Crash(n)
             \/ \E view \in SUBSET Node : ChangeRing(n, view)
             \/ \E t \in Node : Bootstrap(n, t) \/ BootstrapFails(n, t)
  BY <1>4 DEF NodeStep, PingOk, MarkReachable, DeliverHints, GossipFails, Restart
<1> QED
  BY <1>1, <1>2, <1>3, <1>4 DEF Next

LEMMA FullRingsNext == ASSUME TaskInv, ReadInv, Next PROVE FullRings'
<1> SUFFICES ASSUME spent'.crashes = 0, spent'.changes = 0 PROVE \A n \in Node : ring'[n] = Node
  BY DEF FullRings
<1>1. /\ spent.crashes = 0 /\ spent.changes = 0 /\ \A n \in Node : ~Crash(n)
      /\ \A n \in Node, view \in SUBSET Node : ~ChangeRing(n, view)
  BY TaskParts, NoCrashYet, NoChangeYet
<1>2. \A n \in Node : ring[n] = Node
  BY <1>1 DEF ReadInv, FullRings
<1>3. \A n, t \in Node : ~Bootstrap(n, t)
  BY <1>2 DEF Bootstrap
<1>4. ASSUME NEW n \in Node, NEW t \in Node, BootstrapFails(n, t)
      PROVE  \A x \in Node : ring'[x] = Node
  <2>1. ring \in [Node -> SUBSET Node]
    BY TaskParts, TypeParts
  <2>2. UNCHANGED ring \/ ring' = [ring EXCEPT ![t] = ring[t] \cup {n}]
    BY <1>4 DEF BootstrapFails
  <2> QED
    BY <1>2, <2>1, <2>2
<1> QED
  BY <1>1, <1>2, <1>3, <1>4, RingMoves

LEMMA OwnersReplyNext ==
  ASSUME TaskInv, TaskInv', HeldInv, ReadInv, Next, Quiet', spent'.changes = 0
  PROVE  OwnersReply'
<1> SUFFICES ASSUME NEW g \in GetIds, gets'[g].pc = "reading", NEW v \in gets'[g].before,
                    NEW r \in gets'[g].results, r.node \in puts'[v.id].owners
             PROVE  Covered(r.ver, v)
  BY DEF OwnersReply
<1>1. Quiet /\ spent.changes = 0
  BY TaskParts, QuietYet, NoChangeYet
<1>2. GetMove(g)
  BY TaskParts, GetsMove
<1>3. CASE Lists(g)
  BY <1>3 DEF Lists, SameGet, ReadInv, NoRepliesYet
<1>4. ~Asks(g) /\ ~Ends(g) /\ ~Stops(g)
  BY TaskParts, EndsFields DEF Asks, Stops
<1>5. CASE gets'[g] = gets[g] \/ Hears(g) \/ Misses(g)
  <2>1. gets[g].pc = "reading" /\ v \in gets[g].before
    BY <1>5 DEF Hears, Misses, SameGet
  <2>2. /\ v \in Issued /\ v.id \in PutIds /\ Done(v.id) /\ v \in puts[v.id].ver
    BY <2>1, TaskParts, IssuedIsItsPut DEF ReadInv, BeforeDone
  <2>3. r.node \in puts[v.id].owners
    BY <2>2, DoneStays
  <2>4. CASE r \in gets[g].results
    BY <1>1, <2>1, <2>3, <2>4 DEF ReadInv, OwnersReply
  <2>5. CASE r \notin gets[g].results
    <3>1. PICK n \in gets[g].pending : r = Reply(n) \/ (isSelfRemoved(n) /\ r = Empty(n))
      BY <1>5, <2>5 DEF Hears, Misses, SameGet
    <3>2. n \in Node
      BY TaskParts, TypeParts DEF GetRec
    <3>3. ~isSelfRemoved(n)
      BY <1>1, <3>2 DEF isSelfRemoved, ReadInv, FullRings, Quiet
    <3>4. r.node = n /\ r.ver = kv[n]
      BY <3>1, <3>3 DEF Reply
    <3> QED
      BY <1>1, <2>2, <2>3, <3>4 DEF HeldInv, OwnersHold
  <2> QED
    BY <2>4, <2>5
<1> QED
  BY <1>2, <1>3, <1>4, <1>5 DEF GetMove

-----------------------------------------------------------------------------
(* The quorums intersect.                                                  *)

\* A set of replies from different nodes, too many to miss all the owners.
LEMMA RepliesMeetOwners ==
  ASSUME NEW S, NEW O \in SUBSET Node, \A r \in S : r.node \in Node,
         \A r, s \in S : r.node = s.node => r = s,
         Cardinality(S) >= R, Cardinality(O) >= W, Cardinality(Node) <= N
  PROVE  \E r \in S : r.node \in O
<1> SUFFICES ASSUME \A r \in S : r.node \notin O PROVE FALSE
  OBVIOUS
<1> DEFINE rest == Node \ O
           f == [r \in S |-> r.node]
<1>1. IsFiniteSet(Node) /\ IsFiniteSet(O) /\ IsFiniteSet(rest)
  BY NodeAssumption, FS_Subset
<1>2. f \in [S -> rest] /\ \A r, s \in S : f[r] = f[s] => r = s
  OBVIOUS
<1>3. f \in Injection(S, rest)
  BY <1>2 DEF Injection, IsInjective
<1>4. IsFiniteSet(S) /\ Cardinality(S) <= Cardinality(rest)
  BY <1>1, <1>3, FS_Injection
<1>5. rest \cap O = {} /\ rest \cup O = Node
  OBVIOUS
<1> HIDE DEF rest, f
<1>6. Cardinality(Node) = Cardinality(rest) + Cardinality(O) - Cardinality(rest \cap O)
  BY <1>1, <1>5, FS_Union
<1>7. Cardinality(rest \cap O) = 0
  BY <1>5, FS_EmptySet
<1>8. /\ Cardinality(S) \in Nat /\ Cardinality(rest) \in Nat /\ Cardinality(O) \in Nat
      /\ Cardinality(Node) \in Nat
  BY <1>1, <1>4, FS_CardinalityType
<1> QED
  BY <1>4, <1>6, <1>7, <1>8, QuorumAssumption

\* Every reply arrives.
LEMMA EveryReplyArrives ==
  ASSUME TypeOK, OneReplyEach, NEW g \in GetIds, gets[g].pc = "reading",
         NEW f \in Arrivals(g), NEW r \in gets[g].results
  PROVE  \E i \in DOMAIN f : f[i] = r
<1> DEFINE S == gets[g].results
           k == Cardinality(S)
           h == [x \in S |-> x.node]
<1>1. \A x \in S : x.node \in Node
  BY TypeParts DEF GetRec
<1>2. \A x, y \in S : x.node = y.node => x = y
  BY DEF OneReplyEach
<1>3. h \in [S -> Node] /\ \A x, y \in S : h[x] = h[y] => x = y
  BY <1>1, <1>2
<1>4. h \in Injection(S, Node)
  BY <1>3 DEF Injection, IsInjective
<1>5. IsFiniteSet(S)
  BY <1>4, NodeAssumption, FS_Injection
<1>6. k \in Nat
  BY <1>5, FS_CardinalityType
<1>7. f \in [1..k -> S] /\ \A i, j \in 1..k : f[i] = f[j] => i = j
  BY DEF Arrivals
<1> HIDE DEF k, h
<1> SUFFICES ASSUME \A i \in 1..k : f[i] # r PROVE FALSE
  BY <1>7
<1> DEFINE D == 1..k
           T == S \ {r}
<1>8. f \in [D -> T]
  BY <1>7
<1>9. IsFiniteSet(T) /\ Cardinality(T) = k - 1
  BY <1>5, FS_RemoveElement DEF k
<1>10. IsFiniteSet(D) /\ Cardinality(D) = k
  BY <1>6, FS_Interval
<1>11. Cardinality(T) < Cardinality(D)
  BY <1>6, <1>9, <1>10
<1> HIDE DEF D, T
<1>12. \E i, j \in D : i # j /\ f[i] = f[j]
  BY <1>8, <1>9, <1>10, <1>11, FS_PigeonHole
<1> QED
  BY <1>7, <1>12 DEF D

LEMMA RepliesTyped ==
  ASSUME CausalInv, NEW g \in GetIds, NEW f \in Arrivals(g), NEW i \in DOMAIN f
  PROVE  f[i] \in gets[g].results /\ f[i].ver \subseteq Issued /\ f[i].ver \subseteq Version
<1>1. f[i] \in gets[g].results
  BY DEF Arrivals
<1> QED
  BY <1>1, CausalParts, SlotTypes

\* What a read returns is not older than any version among the replies.
LEMMA WinnerCovers ==
  ASSUME CausalInv, NoConflict, OneReplyEach, NEW g \in GetIds, gets[g].pc = "reading",
         NEW f \in Arrivals(g), NEW r \in gets[g].results, NEW v \in Version, Covered(r.ver, v)
  PROVE  Found(f) # {} /\ \A w \in ResolveGetResult(Versions(f)) : AtLeast(w, v)
<1> DEFINE vs == Versions(f)
<1>1. PICK i \in DOMAIN f : f[i] = r
  BY CausalParts, EveryReplyArrives
<1>2. PICK x \in r.ver : AtLeast(x, v)
  BY DEF Covered
<1>3. i \in Found(f)
  BY <1>1, <1>2 DEF Found
<1>4. AtMostOne(r.ver)
  BY DEF OneReplyEach
<1>5. DOMAIN vs = Found(f) /\ vs[i] = x
  BY <1>1, <1>2, <1>3, <1>4 DEF Versions, AtMostOne
<1>6. \A j \in Found(f) : vs[j] \in Issued /\ vs[j] \in Version
  BY RepliesTyped, SlotTypes DEF Versions, Found
<1> HIDE DEF vs
<1>7. ASSUME NEW w \in ResolveGetResult(vs) PROVE AtLeast(w, v)
  <2>1. PICK j \in Frontier(vs) : w = vs[j]
    BY DEF ResolveGetResult, ResolveLWW
  <2>2. j \in Found(f)
    BY <1>5, <2>1 DEF Frontier
  <2>3. CASE j = i
    BY <1>2, <1>5, <2>1, <2>3
  <2>4. CASE j # i
    <3>1. Compare(vs[j].clk, vs[i].clk) # "DOMINATED"
      BY <1>3, <1>5, <2>1, <2>4 DEF Frontier
    <3>2. Compare(vs[j].clk, vs[i].clk) # "CONCURRENT"
      BY <1>3, <1>6, <2>2 DEF NoConflict
    <3>3. AtLeast(vs[j], vs[i])
      BY <3>1, <3>2 DEF AtLeast, Compare
    <3> QED
      BY <1>2, <1>3, <1>5, <1>6, <2>1, <2>2, <3>3, AtLeastTransitive
  <2> QED
    BY <2>3, <2>4
<1> QED
  BY <1>3, <1>7 DEF vs

LEMMA CoversNext ==
  ASSUME TaskInv, HeldInv, ReadInv, Next PROVE ReadCoversAcked'
<1> SUFFICES ASSUME QuorumsMeet', NEW g \in GetIds, NEW v \in gets'[g].before, AckedByOwners(v)'
             PROVE  gets'[g].pc # "none" /\ \A w \in gets'[g].win : AtLeast(w, v)
  BY DEF ReadCoversAcked
<1>1. QuorumsMeet /\ Quiet /\ \A n \in Node : ~Crash(n)
  BY TaskParts, NoCrashYet, NoChangeYet, NoConflictYet DEF QuorumsMeet, Quiet
<1>2. GetMove(g)
  BY TaskParts, GetsMove
<1>3. CASE Asks(g)
  BY <1>3 DEF Asks
<1>4. CASE ~Asks(g)
  <2>1. v \in gets[g].before
    BY <1>4, BeforeMoves
  <2>2. v \in Issued /\ v.id \in PutIds /\ Done(v.id) /\ v \in Version
    BY <2>1, TaskParts, IssuedIsItsPut DEF ReadInv, BeforeDone
  <2>3. Cardinality(puts[v.id].owners) >= W
    BY <2>2, DoneStays DEF AckedByOwners
  <2>4. gets[g].pc # "none" /\ \A w \in gets[g].win : AtLeast(w, v)
    BY <1>1, <2>1, <2>3 DEF ReadInv, ReadCoversAcked, AckedByOwners
  <2>5. CASE Ends(g)
    <3>1. gets[g].pc = "reading"
      BY <2>5, TaskParts, EndsFields
    <3>2. ASSUME Cardinality(gets[g].results) >= R, NEW f \in Arrivals(g)
          PROVE  Found(f) # {} /\ \A w \in ResolveGetResult(Versions(f)) : AtLeast(w, v)
      <4> DEFINE S == gets[g].results
                 O == puts[v.id].owners
      <4>1. O \in SUBSET Node /\ \A r \in S : r.node \in Node
        BY <2>2, TaskParts, TypeParts DEF PutRec, GetRec
      <4>2. \A r, s \in S : r.node = s.node => r = s
        BY <3>1 DEF ReadInv, OneReplyEach
      <4>3. Cardinality(S) >= R /\ Cardinality(O) >= W /\ Cardinality(Node) <= N
        BY <1>1, <2>3, <3>2 DEF QuorumsMeet
      <4> HIDE DEF S, O
      <4>4. PICK r \in S : r.node \in O
        BY <4>1, <4>2, <4>3, RepliesMeetOwners
      <4>5. Covered(r.ver, v)
        BY <1>1, <2>1, <3>1, <4>4 DEF ReadInv, OwnersReply, QuorumsMeet, S, O
      <4> QED
        BY <1>1, <2>2, <3>1, <4>4, <4>5, TaskParts, WinnerCovers DEF ReadInv, Quiet, S
    <3> QED
      BY <2>4, <2>5, <3>2, TaskParts, EndsFields
  <2>6. CASE gets'[g] = gets[g]
    BY <2>4, <2>6
  <2>7. CASE Lists(g) \/ Hears(g) \/ Misses(g) \/ Stops(g)
    BY <2>4, <2>7 DEF Lists, Hears, Misses, Stops, SameGet
  <2> QED
    BY <1>2, <1>4, <2>5, <2>6, <2>7 DEF GetMove
<1> QED
  BY <1>3, <1>4

LEMMA ReadInit == Init => ReadInv
<1> SUFFICES ASSUME Init PROVE ReadInv
  OBVIOUS
<1>1. \A g \in GetIds : /\ gets[g].pc = "free" /\ gets[g].results = {} /\ gets[g].before = {}
                        /\ gets[g].win = {}
  BY DEF Init, NewGet
<1>2. \A n \in Node : ring[n] = Node
  BY DEF Init
<1> QED
  BY <1>1, <1>2 DEF ReadInv, NoRepliesYet, OneReplyEach, BeforeDone, FullRings, OwnersReply,
                    ReadCoversAcked

LEMMA ReadAlone == ReadInv /\ UNCHANGED vars => ReadInv'
BY DEF ReadInv, vars, NoRepliesYet, OneReplyEach, BeforeDone, FullRings, OwnersReply,
       ReadCoversAcked, Quiet, NoConflict, QuorumsMeet, AckedByOwners, Issued, Done

(* What a read has and returns: every node replies once, and the owners of *)
(* an acknowledged write reply with it or with a version above it.         *)
THEOREM ReadInvariant == Spec => []ReadInv
<1>1. TaskInv /\ TaskInv' /\ HeldInv /\ ReadInv /\ [Next]_vars => ReadInv'
  <2> SUFFICES ASSUME TaskInv, TaskInv', HeldInv, ReadInv, Next PROVE ReadInv'
    BY ReadAlone
  <2> QED
    BY ReadsNext, BeforeDoneNext, FullRingsNext, OwnersReplyNext, CoversNext DEF ReadInv
<1> QED
  BY <1>1, ReadInit, TaskInvariant, HeldInvariant, PTL DEF Spec

(* Reads meet writes (W + R > N): on a cluster of N nodes without crashes, *)
(* membership changes and concurrent writes, a read returns no version     *)
(* older than one that W owners acknowledged before the read began.        *)
THEOREM ReadsMeetWrites == Spec => []ReadCoversAcked
<1>1. ReadInv => ReadCoversAcked
  BY DEF ReadInv
<1> QED
  BY <1>1, ReadInvariant, PTL

-----------------------------------------------------------------------------
(* The winner does not depend on the order of the replies.                 *)

LEMMA LeastExists ==
  ASSUME NEW S \in SUBSET Nat, S # {}
  PROVE  \E i \in S : \A j \in S : i <= j
<1> DEFINE less == OpToRel(<, Nat)
<1>1. IsWellFoundedOn(less, Nat)
  BY NatLessThanWellFounded
<1>2. \A i, j \in Nat : j < i => <<j, i>> \in less
  BY DEF OpToRel
<1> HIDE DEF less
<1>3. PICK i \in S : \A j \in S : <<j, i>> \notin less
  BY <1>1, WFMin, Zenon
<1>4. ASSUME NEW j \in S PROVE i <= j
  <2>1. ~(j < i)
    BY <1>2, <1>3
  <2> QED
    BY <2>1
<1> QED
  BY <1>4

\* The versions among the replies that no other dominates.
VersionsOf(S) == UNION {r.ver : r \in S}

Top(V) == {w \in V : \A v \in V : Compare(w.clk, v.clk) # "DOMINATED"}

Latest(T) == {w \in T : \A v \in T \ {w} : LaterStamp(w, v)}

LEMMA VersionsArrive ==
  ASSUME CausalInv, OneReplyEach, NEW g \in GetIds, gets[g].pc = "reading", NEW f \in Arrivals(g)
  PROVE  /\ DOMAIN Versions(f) \subseteq Nat
         /\ \A i \in DOMAIN Versions(f) : Versions(f)[i] \in VersionsOf(gets[g].results)
         /\ \A v \in VersionsOf(gets[g].results) : \E i \in DOMAIN Versions(f) : Versions(f)[i] = v
<1>1. DOMAIN f \subseteq Nat /\ DOMAIN Versions(f) = Found(f) /\ Found(f) \subseteq DOMAIN f
  BY DEF Arrivals, Versions, Found
<1>2. ASSUME NEW i \in Found(f) PROVE Versions(f)[i] \in VersionsOf(gets[g].results)
  <2>1. f[i] \in gets[g].results
    BY <1>1, RepliesTyped
  <2>2. Versions(f)[i] \in f[i].ver
    BY DEF Versions, Found
  <2> QED
    BY <2>1, <2>2 DEF VersionsOf
<1>3. ASSUME NEW v \in VersionsOf(gets[g].results)
      PROVE  \E i \in Found(f) : Versions(f)[i] = v
  <2>1. PICK r \in gets[g].results : v \in r.ver
    BY DEF VersionsOf
  <2>2. PICK i \in DOMAIN f : f[i] = r
    BY CausalParts, EveryReplyArrives
  <2>3. AtMostOne(r.ver)
    BY <2>1 DEF OneReplyEach
  <2> QED
    BY <2>1, <2>2, <2>3 DEF Versions, Found, AtMostOne
<1> QED
  BY <1>1, <1>2, <1>3

\* Of two different versions that neither dominates the other, one is later.
LEMMA TopOrdered ==
  ASSUME ConcurrentWritersDiffer, EqualClocksSameWrite, NEW v \in Issued, NEW w \in Issued,
         v \in Version, w \in Version, v # w, Compare(v.clk, w.clk) # "DOMINATED",
         Compare(w.clk, v.clk) # "DOMINATED"
  PROVE  LaterStamp(v, w) <=> ~LaterStamp(w, v)
<1>1. Compare(v.clk, w.clk) # "EQUAL"
  BY DEF EqualClocksSameWrite
<1>2. Compare(v.clk, w.clk) = "CONCURRENT"
  BY <1>1 DEF Compare
<1>3. v.wr # w.wr
  BY <1>2 DEF ConcurrentWritersDiffer
<1>4. v.ts \in Nat /\ w.ts \in Nat /\ v.wr \in Nat /\ w.wr \in Nat
  BY NodeAssumption, IdAssumption DEF Version
<1> QED
  BY <1>3, <1>4 DEF LaterStamp

\* What resolveGetResult returns, in terms of the versions alone.
LEMMA WinnerIsLatest ==
  ASSUME ConcurrentWritersDiffer, EqualClocksSameWrite,
         NEW V, V \subseteq Issued, V \subseteq Version, NEW vs, DOMAIN vs \subseteq Nat,
         \A i \in DOMAIN vs : vs[i] \in V, \A v \in V : \E i \in DOMAIN vs : vs[i] = v
  PROVE  ResolveGetResult(vs) = Latest(Top(V))
<1>1. ASSUME NEW i \in Frontier(vs) PROVE i \in DOMAIN vs /\ i \in Nat /\ vs[i] \in Top(V)
  <2>1. i \in DOMAIN vs /\ i \in Nat
    BY DEF Frontier
  <2>2. ASSUME NEW v \in V PROVE Compare(vs[i].clk, v.clk) # "DOMINATED"
    <3>1. PICK j \in DOMAIN vs : vs[j] = v
      OBVIOUS
    <3>2. CASE j = i
      BY <3>1, <3>2 DEF Compare
    <3>3. CASE j # i
      BY <3>1, <3>3 DEF Frontier
    <3> QED
      BY <3>2, <3>3
  <2> QED
    BY <2>1, <2>2 DEF Top
<1>2. ASSUME NEW i \in Frontier(vs), NEW j \in Frontier(vs), i # j PROVE vs[i] # vs[j]
  <2>1. Compare(vs[i].clk, vs[i].clk) = "EQUAL"
    <3>1. vs[i].clk \in [Node -> Nat]
      BY <1>1 DEF Top, Version, Clock
    <3> QED
      BY <3>1 DEF Compare, Exceeds
  <2>2. i < j \/ j < i
    BY <1>1, <1>2
  <2> QED
    BY <1>1, <1>2, <2>1, <2>2 DEF Frontier
<1>3. ASSUME NEW v \in Top(V) PROVE \E i \in Frontier(vs) : vs[i] = v
  <2> DEFINE P == {i \in DOMAIN vs : vs[i] = v}
  <2>1. v \in V
    BY DEF Top
  <2>2. P \in SUBSET Nat /\ P # {}
    BY <2>1
  <2>3. PICK i \in P : \A j \in P : i <= j
    BY <2>2, LeastExists
  <2>4. ASSUME NEW j \in DOMAIN vs \ {i}, j < i PROVE Compare(vs[i].clk, vs[j].clk) # "EQUAL"
    <3>1. i \in Nat /\ j \in Nat /\ vs[i] = v /\ vs[j] # v
      BY <2>2, <2>3, <2>4
    <3>2. vs[i] \in Issued /\ vs[j] \in Issued
      BY <2>3
    <3> QED
      BY <3>1, <3>2 DEF EqualClocksSameWrite
  <2>5. \A j \in DOMAIN vs : Compare(vs[i].clk, vs[j].clk) # "DOMINATED"
    BY <2>3 DEF Top
  <2>6. i \in Frontier(vs)
    BY <2>3, <2>4, <2>5 DEF Frontier
  <2> QED
    BY <2>3, <2>6
<1>4. ASSUME NEW i \in Frontier(vs), NEW j \in Frontier(vs), i # j
      PROVE  (LaterStamp(vs[i], vs[j]) \/ (~LaterStamp(vs[j], vs[i]) /\ i < j))
               <=> LaterStamp(vs[i], vs[j])
  <2>1. vs[i] \in V /\ vs[j] \in V /\ Compare(vs[i].clk, vs[j].clk) # "DOMINATED"
        /\ Compare(vs[j].clk, vs[i].clk) # "DOMINATED"
    BY <1>1 DEF Top
  <2>2. vs[i] # vs[j]
    BY <1>2, <1>4
  <2> QED
    BY <2>1, <2>2, TopOrdered
<1>5. ASSUME NEW w \in ResolveGetResult(vs) PROVE w \in Latest(Top(V))
  <2>1. PICK i \in ResolveLWW(vs, Frontier(vs)) : w = vs[i]
    BY DEF ResolveGetResult
  <2>2. i \in Frontier(vs)
    BY DEF ResolveLWW
  <2>3. ASSUME NEW v \in Top(V) \ {w} PROVE LaterStamp(w, v)
    <3>1. PICK j \in Frontier(vs) : vs[j] = v
      BY <1>3
    <3>2. j # i
      BY <2>1, <3>1
    <3>3. LaterStamp(vs[i], vs[j]) \/ (~LaterStamp(vs[j], vs[i]) /\ i < j)
      BY <3>2 DEF ResolveLWW
    <3> QED
      BY <1>4, <2>1, <2>2, <3>1, <3>2, <3>3
  <2> QED
    BY <1>1, <2>1, <2>2, <2>3 DEF Latest
<1>6. ASSUME NEW w \in Latest(Top(V)) PROVE w \in ResolveGetResult(vs)
  <2>1. w \in Top(V)
    BY DEF Latest
  <2>2. PICK i \in Frontier(vs) : vs[i] = w
    BY <1>3, <2>1
  <2>3. ASSUME NEW j \in Frontier(vs) \ {i} PROVE LaterStamp(vs[i], vs[j])
    <3>1. vs[j] \in Top(V) /\ vs[j] # w
      BY <1>1, <1>2, <2>2
    <3> QED
      BY <2>2, <3>1 DEF Latest
  <2>4. i \in ResolveLWW(vs, Frontier(vs))
    BY <2>3 DEF ResolveLWW
  <2> QED
    BY <2>2, <2>4 DEF ResolveGetResult
<1> QED
  BY <1>5, <1>6

LEMMA WinnerIsDecided ==
  ASSUME CausalInv, OneReplyEach PROVE WinnerDecided
<1> SUFFICES ASSUME ConcurrentWritersDiffer, EqualClocksSameWrite, NEW g \in GetIds,
                    gets[g].pc = "reading", NEW e \in Arrivals(g), NEW f \in Arrivals(g)
             PROVE  ResolveGetResult(Versions(e)) = ResolveGetResult(Versions(f))
  BY DEF WinnerDecided, Versions, Found
<1> DEFINE V == VersionsOf(gets[g].results)
<1>1. V \subseteq Issued /\ V \subseteq Version
  BY CausalParts, SlotTypes DEF VersionsOf
<1>2. ASSUME NEW a \in Arrivals(g) PROVE ResolveGetResult(Versions(a)) = Latest(Top(V))
  <2> DEFINE vs == Versions(a)
  <2>1. /\ DOMAIN vs \subseteq Nat /\ \A i \in DOMAIN vs : vs[i] \in V
        /\ \A v \in V : \E i \in DOMAIN vs : vs[i] = v
    BY VersionsArrive
  <2> HIDE DEF vs, V
  <2>2. ResolveGetResult(vs) = Latest(Top(V))
    BY <1>1, <2>1, WinnerIsLatest
  <2> QED
    BY <2>2 DEF vs
<1> QED
  BY <1>2

(* The replies of a read decide its winner, and not the order in which     *)
(* they came: computeFrontier and resolveLWW come to one version, the one  *)
(* of the latest stamp among those nothing dominates, as long as no node   *)
(* has written two concurrent versions and no two writes have one clock.   *)
THEOREM RepliesDecideTheWinner == Spec => []WinnerDecided
<1>1. ReadInv => OneReplyEach
  BY DEF ReadInv
<1> QED
  BY <1>1, ReadInvariant, CausalInvariant, WinnerIsDecided, PTL
=============================================================================
