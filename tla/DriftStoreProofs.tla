-------------------------- MODULE DriftStoreProofs --------------------------
(***************************************************************************)
(* Theorems about DriftStore, for every cluster, every quorum              *)
(* configuration and every value of the bounds.                            *)
(***************************************************************************)
EXTENDS DriftStore, VersionClockProofs

-----------------------------------------------------------------------------
(* Type correctness.                                                       *)

(* Each variable's part of TypeOK, to be cited one at a time.              *)
LEMMA TypeParts ==
  ASSUME TypeOK
  PROVE  /\ kv \in [Node -> SUBSET Version]
         /\ hints \in [Node -> [Node -> SUBSET Version]]
         /\ unreachable \in [Node -> SUBSET Node]
         /\ probe \in [Node -> [Node -> {"idle", "alive", "reachable"}]]
         /\ ring \in [Node -> SUBSET Node]
         /\ up \in [Node -> BOOLEAN]
         /\ puts \in [PutIds -> PutRec]
         /\ gets \in [GetIds -> GetRec]
         /\ rpcs \subseteq RpcRec
         /\ spent \in Spent
         /\ \A n \in Node : AtMostOne(kv[n]) /\ \A t \in Node : AtMostOne(hints[n][t])
BY DEF TypeOK

LEMMA PutFields ==
  ASSUME TypeOK, NEW p \in PutIds
  PROVE  /\ puts[p] \in PutRec
         /\ puts[p].at \in Node
         /\ puts[p].ctx \subseteq Version /\ puts[p].pref \subseteq Entry
         /\ puts[p].bad \subseteq Node
         /\ puts[p].untried \subseteq Node
         /\ puts[p].ver \subseteq Version /\ puts[p].past \subseteq PutIds
         /\ puts[p].acks \in Nat /\ puts[p].ackers \subseteq Node /\ puts[p].owners \subseteq Node
<1>1. puts[p] \in PutRec
  BY TypeParts
<1> QED
  BY <1>1 DEF PutRec

LEMMA GetFields ==
  ASSUME TypeOK, NEW g \in GetIds
  PROVE  /\ gets[g] \in GetRec
         /\ gets[g].at \in Node /\ gets[g].pending \subseteq Node
         /\ gets[g].bad \subseteq Node
         /\ gets[g].win \subseteq Version
         /\ gets[g].results \subseteq [node : Node, ver : SUBSET Version]
<1>1. gets[g] \in GetRec
  BY TypeParts
<1> QED
  BY <1>1 DEF GetRec

LEMMA RpcFields ==
  ASSUME TypeOK, NEW m \in rpcs
  PROVE  /\ m \in RpcRec
         /\ m.by \in PutIds \cup GetIds /\ m.from \in Node /\ m.to \in Node
         /\ m.ver \in Version /\ m.owner \in Node /\ m.excluded \subseteq Node
         /\ m.bad \subseteq Node
<1>1. m \in RpcRec
  BY TypeParts
<1> QED
  BY <1>1 DEF RpcRec

LEMMA SeenType == TypeOK => Issued \subseteq Version /\ Seen \subseteq Version /\ Acked \subseteq Version
<1> SUFFICES ASSUME TypeOK PROVE Issued \subseteq Version /\ Seen \subseteq Version /\ Acked \subseteq Version
  OBVIOUS
<1>1. \A p \in PutIds : puts[p].ver \subseteq Version
  BY PutFields
<1>2. \A g \in GetIds : gets[g].win \subseteq Version
  BY GetFields
<1> QED
  BY <1>1, <1>2 DEF Issued, Seen, Acked

LEMMA ListType ==
  ASSUME NEW r \in SUBSET Node, NEW bad \in SUBSET Node
  PROVE  PreferenceList(r, bad) \subseteq Entry /\ NodesOf(PreferenceList(r, bad)) \subseteq Node
BY DEF PreferenceList, NodesOf, Entry, NaturalOwners

LEMMA CallType ==
  ASSUME NEW kind \in {"put", "repair", "hint"}, NEW by \in PutIds \cup GetIds,
         NEW from \in Node, NEW to \in Node, NEW ver \in Version, NEW owner \in Node,
         NEW hinted \in BOOLEAN, NEW excluded \in SUBSET Node
  PROVE  Call(kind, by, from, to, ver, owner, hinted, excluded) \in RpcRec
BY DEF Call, RpcRec

LEMMA CallFailsType ==
  ASSUME TypeOK, NEW n \in Node, CallFails(n)
  PROVE  spent' \in Spent
<1>1. spent \in Spent
  BY TypeParts
<1>2. CASE UNCHANGED spent
  BY <1>1, <1>2
<1>3. ASSUME spent.losses < MaxLosses, spent' = [spent EXCEPT !.losses = @ + 1]
      PROVE  spent' \in Spent
  <2>1. spent.losses + 1 \in 0..MaxLosses
    BY <1>1, <1>3, BoundAssumption DEF Spent
  <2> QED
    BY <1>1, <1>3, <2>1 DEF Spent
<1> QED
  BY <1>2, <1>3 DEF CallFails

LEMMA MarkType ==
  ASSUME TypeOK, NEW n \in Node, NEW t \in Node, MarkUnreachable(n, t)
  PROVE  unreachable' \in [Node -> SUBSET Node]
<1>1. unreachable \in [Node -> SUBSET Node]
  BY TypeParts
<1> QED
  BY <1>1 DEF MarkUnreachable

LEMMA NewPutType ==
  ASSUME NEW n \in Node, NEW pc \in PutPC, NEW forwarded \in BOOLEAN, NEW ctx \in SUBSET Version
  PROVE  NewPut(n, pc, forwarded, ctx) \in PutRec
BY DEF NewPut, PutRec

LEMMA TypeInit == Init => TypeOK
<1> SUFFICES ASSUME Init PROVE TypeOK
  OBVIOUS
<1>1. SomeNode \in Node
  BY NodeAssumption DEF SomeNode
<1>2. NewPut(SomeNode, "free", FALSE, {}) \in PutRec
  BY <1>1, NewPutType DEF PutPC
<1>3. NewGet(SomeNode, "free", {}) \in GetRec
  BY <1>1 DEF NewGet, GetRec, GetPC
<1>4. spent \in Spent
  BY BoundAssumption DEF Init, Spent
<1> QED
  BY <1>2, <1>3, <1>4 DEF Init, TypeOK, AtMostOne

-----------------------------------------------------------------------------
(* One lemma per action of the Put handler.                                *)

LEMMA TypeClientPut ==
  ASSUME TypeOK, NEW p \in PutIds, NEW n \in Node, NEW ctx \in SUBSET Version,
         ClientPut(p, n, ctx)
  PROVE  TypeOK'
<1>1. NewPut(n, Admission(n), FALSE, ctx) \in PutRec
  BY NewPutType DEF Admission, PutPC
<1>2. puts' \in [PutIds -> PutRec]
  BY <1>1, TypeParts DEF ClientPut
<1> QED
  BY <1>2 DEF ClientPut, TypeOK, node

LEMMA TypeSnapshotPut == ASSUME TypeOK, NEW p \in PutIds, SnapshotPut(p) PROVE TypeOK'
<1>1. /\ puts \in [PutIds -> PutRec] /\ puts[p] \in PutRec
      /\ unreachable[puts[p].at] \in SUBSET Node
  BY TypeParts, PutFields
<1> DEFINE r == [puts[p] EXCEPT !.pc = "routing", !.bad = unreachable[puts[p].at]]
<1>2. r \in PutRec
  BY <1>1 DEF PutRec, PutPC
<1>3. puts' = [puts EXCEPT ![p] = r]
  BY DEF SnapshotPut
<1> HIDE DEF r
<1>4. puts' \in [PutIds -> PutRec]
  BY <1>1, <1>2, <1>3
<1> QED
  BY <1>4 DEF SnapshotPut, TypeOK, node

LEMMA TypeRoutePut == ASSUME TypeOK, NEW p \in PutIds, RoutePut(p) PROVE TypeOK'
<1> DEFINE list == PreferenceList(ring[puts[p].at], puts[p].bad)
           to == NodesOf(list)
           goes(pc) == [puts[p] EXCEPT !.pc = pc, !.bad = {}]
<1>1. puts \in [PutIds -> PutRec] /\ puts[p] \in PutRec /\ puts[p].at \in Node
  BY TypeParts, PutFields
<1>2. list \in SUBSET Entry /\ to \in SUBSET Node
  <2>1. ring[puts[p].at] \in SUBSET Node /\ puts[p].bad \in SUBSET Node
    BY <1>1, TypeParts, PutFields
  <2> QED
    BY <2>1, ListType
<1>3. \A pc \in PutPC : goes(pc) \in PutRec
  BY <1>1 DEF PutRec
<1>4. PICK r : r \in PutRec /\ puts' = [puts EXCEPT ![p] = r]
  <2>1. \A x \in PutRec : [x EXCEPT !.pref = list] \in PutRec
    BY <1>2 DEF PutRec
  <2>2. \A x \in PutRec, s \in to : [x EXCEPT !.untried = to, !.start = s] \in PutRec
    BY <1>2 DEF PutRec
  <2>3. \/ \E pc \in {"refused", "commit"} : puts' = [puts EXCEPT ![p] = [goes(pc) EXCEPT !.pref = list]]
        \/ puts' = [puts EXCEPT ![p] = goes("refused")]
        \/ \E s \in to : puts' = [puts EXCEPT ![p] =
                             [goes("forward") EXCEPT !.untried = to, !.start = s]]
    BY DEF RoutePut
  <2>4. {"refused", "commit", "forward"} \subseteq PutPC
    BY DEF PutPC
  <2> HIDE DEF list, to, goes
  <2> QED
    BY <1>3, <2>1, <2>2, <2>3, <2>4
<1>5. puts' \in [PutIds -> PutRec]
  BY <1>1, <1>4
<1> QED
  BY <1>5 DEF RoutePut, TypeOK, node

LEMMA OwnerOfType == ASSUME NEW e \in Entry PROVE OwnerOf(e) \in Node
BY DEF OwnerOf, Entry

(* The version PutCommit builds, named as in the action.                   *)
LEMMA CommitVersion ==
  ASSUME TypeOK, NEW p \in PutIds, NEW local \in SUBSET Version, NEW ts \in Times
  PROVE  [id |-> p, clk |-> BuildNewClock(puts[p].ctx, local, puts[p].at),
          ts |-> ts, wr |-> puts[p].at] \in Version
<1>1. puts[p].at \in Node /\ puts[p].ctx \in SUBSET Version
  BY PutFields
<1>2. ClockOr0(puts[p].ctx) \in Clock /\ ClockOr0(local) \in Clock
  BY <1>1, OptionalClock
<1>3. MergeClocks(ClockOr0(puts[p].ctx), ClockOr0(local)) \in Clock
  BY <1>2, MergeAbove
<1>4. BuildNewClock(puts[p].ctx, local, puts[p].at) \in Clock
  BY <1>1, <1>3 DEF BuildNewClock, Clock
<1> QED
  BY <1>1, <1>4 DEF Version

LEMMA TypePutCommit ==
  ASSUME TypeOK, NEW p \in PutIds, NEW e \in puts[p].pref, NEW ts \in Times,
         PutCommit(p, e, ts)
  PROVE  TypeOK'
<1> DEFINE n     == puts[p].at
           local == OwnCopy(p, e)
           ver   == [id |-> p, clk |-> BuildNewClock(puts[p].ctx, local, n), ts |-> ts, wr |-> n]
           ids   == NodesOf(puts[p].pref)
           past  == UNION {{v.id} \cup puts[v.id].past : v \in puts[p].ctx \cup local}
           sent  == {Call("put", p, n, f.node, ver, OwnerOf(f), f.hint # {}, ids) :
                       f \in puts[p].pref \ {e}}
<1>1. /\ puts \in [PutIds -> PutRec] /\ puts[p] \in PutRec /\ n \in Node
      /\ puts[p].pref \subseteq Entry /\ puts[p].ctx \subseteq Version
  BY TypeParts, PutFields
<1>2. local \in SUBSET Version
  BY <1>1, TypeParts DEF OwnCopy
<1>3. ver \in Version
  BY <1>2, CommitVersion
<1>4. past \in SUBSET PutIds
  <2>1. \A v \in Version : v.id \in PutIds
    BY DEF Version
  <2>2. \A q \in PutIds : puts[q].past \subseteq PutIds
    BY PutFields
  <2> QED
    BY <1>1, <1>2, <2>1, <2>2
<1>5. ids \in SUBSET Node
  BY <1>1 DEF NodesOf, Entry
<1>6. sent \subseteq RpcRec
  <2> SUFFICES ASSUME NEW f \in puts[p].pref
               PROVE  Call("put", p, n, f.node, ver, OwnerOf(f), f.hint # {}, ids) \in RpcRec
    OBVIOUS
  <2>1. f \in Entry /\ f.node \in Node
    BY <1>1 DEF Entry
  <2>2. OwnerOf(f) \in Node
    BY <2>1, OwnerOfType
  <2> HIDE DEF n, ver, ids
  <2>3. (f.hint # {}) \in BOOLEAN
    OBVIOUS
  <2> QED
    BY <1>1, <1>3, <1>5, <2>1, <2>2, <2>3, CallType
<1> HIDE DEF local, ver, ids, past, sent
<1>7. [puts[p] EXCEPT !.pc = "fanout", !.pref = {}, !.ctx = {}, !.ver = {ver},
                      !.acks = 1, !.ackers = {n}, !.owners = IF e.hint = {} THEN {n} ELSE {},
                      !.past = past] \in PutRec
  BY <1>1, <1>3, <1>4 DEF PutRec, PutPC
<1>8. puts' \in [PutIds -> PutRec]
  BY <1>1, <1>7 DEF PutCommit, ver, past, local
<1>9. kv' \in [Node -> SUBSET Version] /\ \A x \in Node : AtMostOne(kv'[x])
  <2>1. kv' = [kv EXCEPT ![n] = IF e.hint = {} THEN {ver} ELSE kv[n]]
    BY DEF PutCommit, ver, local
  <2> QED
    BY <1>1, <1>3, <2>1, TypeParts DEF AtMostOne
<1>10. hints' \in [Node -> [Node -> SUBSET Version]]
       /\ \A x, t \in Node : AtMostOne(hints'[x][t])
  <2>1. PICK row \in [Node -> SUBSET Version] :
           /\ hints' = [hints EXCEPT ![n] = row]
           /\ \A t \in Node : row[t] = {ver} \/ row[t] = hints[n][t]
    <3> DEFINE keep(t) == t \in e.hint
                          /\ \A v \in hints[n][t] : Compare(v.clk, ver.clk) = "DOMINATED"
               row == [t \in Node |-> IF keep(t) THEN {ver} ELSE hints[n][t]]
    <3>1. hints' = [hints EXCEPT ![n] = row]
      BY DEF PutCommit, ver, local
    <3>2. row \in [Node -> SUBSET Version]
      BY <1>1, <1>3, TypeParts
    <3> QED
      BY <3>1, <3>2
  <2>2. hints \in [Node -> [Node -> SUBSET Version]]
        /\ \A x, t \in Node : AtMostOne(hints[x][t])
    BY TypeParts
  <2>3. hints' \in [Node -> [Node -> SUBSET Version]]
    BY <1>1, <2>1, <2>2
  <2>4. ASSUME NEW x \in Node, NEW t \in Node PROVE AtMostOne(hints'[x][t])
    <3>1. hints'[x][t] = hints[x][t] \/ hints'[x][t] = {ver}
      BY <1>1, <2>1, <2>2
    <3> QED
      BY <2>2, <3>1 DEF AtMostOne
  <2> QED
    BY <2>3, <2>4
<1>11. rpcs' \subseteq RpcRec
  <2>1. rpcs' = rpcs \cup sent
    BY DEF PutCommit, sent, ver, local, ids
  <2> QED
    BY <1>6, <2>1, TypeParts
<1> QED
  BY <1>8, <1>9, <1>10, <1>11 DEF PutCommit, TypeOK

LEMMA AckType ==
  ASSUME NEW r \in PutRec, NEW x \in Node, NEW hinted
  PROVE  [r EXCEPT !.acks = @ + 1, !.ackers = @ \cup {x},
                   !.owners = IF hinted THEN @ ELSE @ \cup {x}] \in PutRec
<1> DEFINE owners == IF hinted THEN r.owners ELSE r.owners \cup {x}
<1>1. r.acks \in Nat /\ r.acks + 1 \in Nat /\ r.ackers \cup {x} \in SUBSET Node
  BY DEF PutRec
<1>2. owners \in SUBSET Node
  BY DEF PutRec
<1> HIDE DEF owners
<1>3. [r EXCEPT !.acks = r.acks + 1, !.ackers = r.ackers \cup {x}, !.owners = owners] \in PutRec
  BY <1>1, <1>2 DEF PutRec
<1> QED
  BY <1>3 DEF owners

LEMMA TypePutAck == ASSUME TypeOK, NEW m \in rpcs, PutAck(m) PROVE TypeOK'
<1>1. puts \in [PutIds -> PutRec] /\ m.to \in Node
  BY TypeParts, RpcFields
<1> DEFINE r == [puts[m.by] EXCEPT !.acks = @ + 1, !.ackers = @ \cup {m.to},
                                   !.owners = IF m.hinted THEN @ ELSE @ \cup {m.to}]
<1>2. puts' = [puts EXCEPT ![m.by] = r]
  BY DEF PutAck
<1>3. m.by \in PutIds => r \in PutRec
  <2> SUFFICES ASSUME m.by \in PutIds PROVE r \in PutRec
    OBVIOUS
  <2>1. puts[m.by] \in PutRec
    BY <1>1
  <2> QED
    BY <1>1, <2>1, AckType
<1> HIDE DEF r
<1>4. puts' \in [PutIds -> PutRec]
  BY <1>1, <1>2, <1>3
<1>5. rpcs' \subseteq RpcRec
  BY TypeParts DEF PutAck
<1> QED
  BY <1>4, <1>5 DEF PutAck, TypeOK, node

(* The calls that replace a call: a substitute, and what the callee may    *)
(* still do.                                                               *)
LEMMA LeftoverType == ASSUME TypeOK, NEW m \in rpcs PROVE Leftover(m) \subseteq RpcRec
<1>1. m \in RpcRec
  BY RpcFields
<1>2. [m EXCEPT !.kind = "orphan"] \in RpcRec
  BY <1>1 DEF RpcRec
<1> QED
  BY <1>2 DEF Leftover

LEMMA TypeSnapshotTask == ASSUME TypeOK, NEW m \in rpcs, SnapshotTask(m) PROVE TypeOK'
<1>1. /\ m \in RpcRec /\ unreachable[m.from] \in SUBSET Node
      /\ m.excluded \cup {m.to} \in SUBSET Node
  BY RpcFields, TypeParts
<1>2. [m EXCEPT !.st = "searching", !.bad = unreachable[m.from],
                !.excluded = m.excluded \cup {m.to}] \in RpcRec
  BY <1>1 DEF RpcRec
<1>3. rpcs' \subseteq RpcRec
  BY <1>2, TypeParts DEF SnapshotTask
<1> QED
  BY <1>3 DEF SnapshotTask, TypeOK, node

LEMMA TypeSubstitute == ASSUME TypeOK, NEW m \in rpcs, Substitute(m) PROVE TypeOK'
<1> DEFINE heirs == Nearest(Candidates(ring[m.from], m.bad, m.excluded, m.owner))
<1>1. /\ m.by \in PutIds \cup GetIds /\ m.from \in Node /\ m.ver \in Version
      /\ m.owner \in Node /\ m.excluded \in SUBSET Node
  BY RpcFields
<1>2. ring[m.from] \subseteq Node
  BY <1>1, TypeParts
<1>3. heirs \subseteq Node
  BY <1>2 DEF Nearest, Candidates
<1>4. \A x \in heirs : Call("put", m.by, m.from, x, m.ver, m.owner, TRUE, m.excluded) \in RpcRec
  BY <1>1, <1>3, CallType
<1>5. rpcs' = (rpcs \ {m}) \cup
              {Call("put", m.by, m.from, x, m.ver, m.owner, TRUE, m.excluded) : x \in heirs}
  BY DEF Substitute
<1> HIDE DEF heirs
<1>6. rpcs' \subseteq RpcRec
  BY <1>4, <1>5, TypeParts
<1> QED
  BY <1>6 DEF Substitute, TypeOK, node

LEMMA BreaksType == ASSUME TypeOK, NEW m \in rpcs, Breaks(m) PROVE spent' \in Spent
<1>1. m.to \in Node
  BY RpcFields
<1> QED
  BY <1>1, CallFailsType, TypeParts DEF Breaks

LEMMA TypePutCallFails == ASSUME TypeOK, NEW m \in rpcs, PutCallFails(m) PROVE TypeOK'
<1>1. rpcs' \subseteq RpcRec
  <2>1. m \in RpcRec
    BY RpcFields
  <2>2. [m EXCEPT !.st = "failed"] \in RpcRec
    BY <2>1 DEF RpcRec
  <2> QED
    BY <2>2, LeftoverType, TypeParts DEF PutCallFails
<1>2. unreachable' \in [Node -> SUBSET Node]
  BY MarkType, RpcFields DEF PutCallFails
<1>3. spent' \in Spent
  BY BreaksType DEF PutCallFails
<1> QED
  BY <1>1, <1>2, <1>3 DEF PutCallFails, TypeOK

LEMMA TypePutJoin == ASSUME TypeOK, NEW p \in PutIds, PutJoin(p) PROVE TypeOK'
<1>1. puts \in [PutIds -> PutRec] /\ puts[p] \in PutRec
  BY TypeParts
<1>2. PICK pc \in PutPC : puts' = [puts EXCEPT ![p] = [puts[p] EXCEPT !.pc = pc]]
  BY DEF PutJoin, PutPC
<1>3. [puts[p] EXCEPT !.pc = pc] \in PutRec
  BY <1>1 DEF PutRec
<1>4. puts' \in [PutIds -> PutRec]
  BY <1>1, <1>2, <1>3
<1> QED
  BY <1>4 DEF PutJoin, TypeOK, node

(* The targets forwardPut goes through.                                    *)
LEMMA NextTargetType == ASSUME NEW S, NEW start PROVE NextTarget(S, start) \subseteq S
BY DEF NextTarget, Nearest

LEMMA TypeForwardSend ==
  ASSUME TypeOK, NEW p \in PutIds, NEW q \in PutIds, NEW t \in puts[p].untried,
         ForwardSend(p, q, t)
  PROVE  TypeOK'
<1>1. /\ puts \in [PutIds -> PutRec] /\ puts[p] \in PutRec
      /\ puts[p].untried \subseteq Node /\ puts[p].ctx \subseteq Version /\ t \in Node
  BY TypeParts, PutFields
<1> DEFINE r == [puts[p] EXCEPT !.pc = "waiting", !.child = {q},
                                !.untried = puts[p].untried \ {t}]
           c == NewPut(t, Admission(t), TRUE, puts[p].ctx)
<1>2. r \in PutRec
  BY <1>1 DEF PutRec, PutPC
<1>3. c \in PutRec
  BY <1>1, NewPutType DEF Admission, PutPC
<1>4. puts' = [puts EXCEPT ![p] = r, ![q] = c]
  BY DEF ForwardSend
<1> HIDE DEF r, c
<1>5. puts' \in [PutIds -> PutRec]
  BY <1>1, <1>2, <1>3, <1>4
<1> QED
  BY <1>5 DEF ForwardSend, TypeOK, node

LEMMA TypeForwardFails ==
  ASSUME TypeOK, NEW p \in PutIds, NEW t \in puts[p].untried, ForwardFails(p, t)
  PROVE  TypeOK'
<1>1. /\ puts \in [PutIds -> PutRec] /\ puts[p] \in PutRec /\ puts[p].at \in Node
      /\ puts[p].untried \subseteq Node /\ t \in Node
  BY TypeParts, PutFields
<1> DEFINE r == [puts[p] EXCEPT !.untried = puts[p].untried \ {t}]
<1>2. r \in PutRec
  BY <1>1 DEF PutRec
<1>3. puts' = [puts EXCEPT ![p] = r]
  BY DEF ForwardFails
<1> HIDE DEF r
<1>4. puts' \in [PutIds -> PutRec]
  BY <1>1, <1>2, <1>3
<1>5. unreachable' \in [Node -> SUBSET Node] /\ spent' \in Spent
  BY <1>1, MarkType, CallFailsType DEF ForwardFails
<1> QED
  BY <1>4, <1>5 DEF ForwardFails, TypeOK

LEMMA TypeForwardBreaks ==
  ASSUME TypeOK, NEW p \in PutIds, NEW q \in puts[p].child, ForwardBreaks(p, q)
  PROVE  TypeOK'
<1>1. /\ puts \in [PutIds -> PutRec] /\ puts[p] \in PutRec /\ puts[p].at \in Node
      /\ q \in PutIds
  BY TypeParts, PutFields DEF PutRec
<1>2. puts[q].at \in Node
  BY <1>1, PutFields
<1> DEFINE r == [puts[p] EXCEPT !.pc = "forward", !.child = {}]
<1>3. r \in PutRec
  BY <1>1 DEF PutRec, PutPC
<1>4. puts' = [puts EXCEPT ![p] = r]
  BY DEF ForwardBreaks
<1> HIDE DEF r
<1>5. puts' \in [PutIds -> PutRec]
  BY <1>1, <1>3, <1>4
<1>6. unreachable' \in [Node -> SUBSET Node]
  BY <1>1, <1>2, MarkType DEF ForwardBreaks
<1>7. spent' \in Spent
  BY <1>2, CallFailsType, TypeParts DEF ForwardBreaks
<1> QED
  BY <1>5, <1>6, <1>7 DEF ForwardBreaks, TypeOK

LEMMA TypeForwardRelay ==
  ASSUME TypeOK, NEW p \in PutIds, NEW q \in puts[p].child, ForwardRelay(p, q)
  PROVE  TypeOK'
<1>1. puts \in [PutIds -> PutRec] /\ puts[p] \in PutRec /\ q \in PutIds
  BY TypeParts, PutFields DEF PutRec
<1>2. puts[q] \in PutRec
  BY <1>1
<1> DEFINE r == [puts[p] EXCEPT !.pc = puts[q].pc, !.ver = puts[q].ver,
                                !.acks = puts[q].acks, !.ackers = puts[q].ackers]
<1>3. r \in PutRec
  BY <1>1, <1>2 DEF PutRec
<1>4. puts' = [puts EXCEPT ![p] = r]
  BY DEF ForwardRelay
<1> HIDE DEF r
<1>5. puts' \in [PutIds -> PutRec]
  BY <1>1, <1>3, <1>4
<1> QED
  BY <1>5 DEF ForwardRelay, TypeOK, node

LEMMA TypeForwardExhausted ==
  ASSUME TypeOK, NEW p \in PutIds, ForwardExhausted(p) PROVE TypeOK'
<1>1. puts \in [PutIds -> PutRec] /\ puts[p] \in PutRec
  BY TypeParts
<1>2. [puts[p] EXCEPT !.pc = "refused"] \in PutRec
  BY <1>1 DEF PutRec, PutPC
<1>3. puts' \in [PutIds -> PutRec]
  BY <1>1, <1>2 DEF ForwardExhausted
<1> QED
  BY <1>3 DEF ForwardExhausted, TypeOK, node

-----------------------------------------------------------------------------
(* The Get handler.                                                        *)

LEMMA TypeClientGet ==
  ASSUME TypeOK, NEW g \in GetIds, NEW n \in Node, ClientGet(g, n) PROVE TypeOK'
<1>1. Acked \subseteq Version
  BY SeenType
<1>2. \A pc \in GetPC : NewGet(n, pc, Acked) \in GetRec
  BY <1>1 DEF NewGet, GetRec
<1>3. gets' \in [GetIds -> GetRec]
  BY <1>2, TypeParts DEF ClientGet, GetPC
<1> QED
  BY <1>3 DEF ClientGet, TypeOK, node

LEMMA TypeSnapshotGet == ASSUME TypeOK, NEW g \in GetIds, SnapshotGet(g) PROVE TypeOK'
<1>1. /\ gets \in [GetIds -> GetRec] /\ gets[g] \in GetRec
      /\ unreachable[gets[g].at] \in SUBSET Node
  BY TypeParts, GetFields
<1> DEFINE r == [gets[g] EXCEPT !.pc = "routing", !.bad = unreachable[gets[g].at]]
<1>2. r \in GetRec
  BY <1>1 DEF GetRec, GetPC
<1>3. gets' = [gets EXCEPT ![g] = r]
  BY DEF SnapshotGet
<1> HIDE DEF r
<1>4. gets' \in [GetIds -> GetRec]
  BY <1>1, <1>2, <1>3
<1> QED
  BY <1>4 DEF SnapshotGet, TypeOK, node

LEMMA TypeRouteGet == ASSUME TypeOK, NEW g \in GetIds, RouteGet(g) PROVE TypeOK'
<1> DEFINE list == PreferenceList(ring[gets[g].at], gets[g].bad)
<1>1. gets \in [GetIds -> GetRec] /\ gets[g] \in GetRec /\ gets[g].at \in Node
  BY TypeParts, GetFields
<1>2. NodesOf(list) \in SUBSET Node
  <2>1. ring[gets[g].at] \in SUBSET Node /\ gets[g].bad \in SUBSET Node
    BY <1>1, TypeParts, GetFields
  <2> QED
    BY <2>1, ListType
<1>3. [gets[g] EXCEPT !.pc = "failed", !.bad = {}] \in GetRec
  BY <1>1 DEF GetRec, GetPC
<1>4. [gets[g] EXCEPT !.pc = "reading", !.bad = {}, !.pending = NodesOf(list)] \in GetRec
  BY <1>1, <1>2 DEF GetRec, GetPC
<1>5. gets' = [gets EXCEPT ![g] = IF Cardinality(list) < R
                 THEN [gets[g] EXCEPT !.pc = "failed", !.bad = {}]
                 ELSE [gets[g] EXCEPT !.pc = "reading", !.bad = {}, !.pending = NodesOf(list)]]
  BY DEF RouteGet
<1>6. gets' \in [GetIds -> GetRec]
  BY <1>1, <1>3, <1>4, <1>5
<1> QED
  BY <1>6 DEF RouteGet, TypeOK, node

LEMMA TypeReadReplica ==
  ASSUME TypeOK, NEW g \in GetIds, NEW n \in Node, ReadReplica(g, n) PROVE TypeOK'
<1> DEFINE found == IF n # gets[g].at /\ isSelfRemoved(n) THEN {} ELSE kv[n]
           r == [gets[g] EXCEPT !.pending = gets[g].pending \ {n},
                   !.results = gets[g].results \cup {[node |-> n, ver |-> found]}]
<1>1. /\ gets \in [GetIds -> GetRec] /\ gets[g] \in GetRec
      /\ gets[g].pending \subseteq Node
      /\ gets[g].results \subseteq [node : Node, ver : SUBSET Version]
  BY TypeParts, GetFields
<1>2. found \in SUBSET Version
  BY TypeParts
<1>3. gets' = [gets EXCEPT ![g] = r]
  BY DEF ReadReplica
<1> HIDE DEF found
<1>4. [node |-> n, ver |-> found] \in [node : Node, ver : SUBSET Version]
  BY <1>2
<1>5. r \in GetRec
  BY <1>1, <1>4 DEF GetRec
<1> HIDE DEF r
<1>6. gets' \in [GetIds -> GetRec]
  BY <1>1, <1>3, <1>5
<1> QED
  BY <1>6 DEF ReadReplica, TypeOK, node

LEMMA TypeReadFails ==
  ASSUME TypeOK, NEW g \in GetIds, NEW n \in Node, ReadFails(g, n) PROVE TypeOK'
<1> DEFINE r == [gets[g] EXCEPT !.pending = gets[g].pending \ {n}]
<1>1. /\ gets \in [GetIds -> GetRec] /\ gets[g] \in GetRec /\ gets[g].at \in Node
      /\ gets[g].pending \subseteq Node
  BY TypeParts, GetFields
<1>2. r \in GetRec
  BY <1>1 DEF GetRec
<1>3. gets' = [gets EXCEPT ![g] = r]
  BY DEF ReadFails
<1> HIDE DEF r
<1>4. gets' \in [GetIds -> GetRec]
  BY <1>1, <1>2, <1>3
<1>5. unreachable' \in [Node -> SUBSET Node] /\ spent' \in Spent
  BY <1>1, MarkType, CallFailsType DEF ReadFails
<1> QED
  BY <1>4, <1>5 DEF ReadFails, TypeOK

(* resolveGetResult returns one of the versions it is given, and that is   *)
(* one of the replies'.                                                    *)
LEMMA WinnerIsAReply ==
  ASSUME NEW g, NEW f \in Arrivals(g), NEW found, found = {i \in DOMAIN f : f[i].ver # {}},
         NEW win \in ResolveGetResult([i \in found |-> CHOOSE v \in f[i].ver : TRUE])
  PROVE  \E r \in gets[g].results : win \in r.ver
<1> DEFINE vs == [i \in found |-> CHOOSE v \in f[i].ver : TRUE]
<1>1. PICK i \in ResolveLWW(vs, Frontier(vs)) : win = vs[i]
  BY DEF ResolveGetResult
<1>2. i \in found
  BY DEF ResolveLWW, Frontier
<1>3. win \in f[i].ver
  BY <1>1, <1>2
<1>4. f[i] \in gets[g].results
  BY <1>2 DEF Arrivals
<1> QED
  BY <1>3, <1>4

LEMMA TypeFinishGet ==
  ASSUME TypeOK, NEW g \in GetIds, NEW f \in Arrivals(g), FinishGet(g, f) PROVE TypeOK'
<1> DEFINE at == gets[g].at
           found == {i \in DOMAIN f : f[i].ver # {}}
           vs == [i \in found |-> CHOOSE v \in f[i].ver : TRUE]
           stale(win) == {r.node : r \in {x \in gets[g].results :
                            \A v \in x.ver : Compare(v.clk, win.clk) # "EQUAL"}}
<1>1. /\ gets \in [GetIds -> GetRec] /\ gets[g] \in GetRec /\ at \in Node
      /\ gets[g].results \subseteq [node : Node, ver : SUBSET Version]
  BY TypeParts, GetFields
<1>2. CASE UNCHANGED <<kv, rpcs>> /\ \E pc \in {"failed", "none"} : gets' = [gets EXCEPT ![g].pc = pc]
  <2>1. PICK pc \in {"failed", "none"} : gets' = [gets EXCEPT ![g].pc = pc]
    BY <1>2
  <2>2. [gets[g] EXCEPT !.pc = pc] \in GetRec
    BY <1>1 DEF GetRec, GetPC
  <2>3. gets' \in [GetIds -> GetRec]
    BY <1>1, <2>1, <2>2
  <2> QED
    BY <1>2, <2>3 DEF FinishGet, TypeOK
<1>3. ASSUME NEW win \in ResolveGetResult(vs),
             gets' = [gets EXCEPT ![g] = [gets[g] EXCEPT !.pc = "ok", !.results = {}, !.win = {win}]],
             kv' = [kv EXCEPT ![at] = IF at \in stale(win)
                                      THEN StoreReplicated(kv[at], win) ELSE kv[at]],
             rpcs' = rpcs \cup {Call("repair", g, at, n, win, n, FALSE, {}) :
                                  n \in stale(win) \ {at}}
      PROVE  TypeOK'
  <2>1. win \in Version
    BY <1>1, WinnerIsAReply
  <2>2. stale(win) \subseteq Node
    BY <1>1
  <2> HIDE DEF vs, stale
  <2>3. [gets[g] EXCEPT !.pc = "ok", !.results = {}, !.win = {win}] \in GetRec
    BY <1>1, <2>1 DEF GetRec, GetPC
  <2>4. gets' \in [GetIds -> GetRec]
    BY <1>1, <1>3, <2>3
  <2>5. kv' \in [Node -> SUBSET Version] /\ \A n \in Node : AtMostOne(kv'[n])
    <3>1. kv \in [Node -> SUBSET Version] /\ \A n \in Node : AtMostOne(kv[n])
      BY TypeParts
    <3>2. StoreReplicated(kv[at], win) \in SUBSET Version /\ AtMostOne(StoreReplicated(kv[at], win))
      BY <1>1, <2>1, <3>1, StoreReplicatedKeeps
    <3> QED
      BY <1>1, <1>3, <3>1, <3>2
  <2>6. rpcs' \subseteq RpcRec
    <3>1. \A n \in stale(win) \ {at} : Call("repair", g, at, n, win, n, FALSE, {}) \in RpcRec
      BY <1>1, <2>1, <2>2, CallType
    <3> QED
      BY <1>3, <3>1, TypeParts
  <2> QED
    BY <2>4, <2>5, <2>6 DEF FinishGet, TypeOK
<1> QED
  BY <1>2, <1>3 DEF FinishGet

-----------------------------------------------------------------------------
(* The replica's side of a call, and the background tasks.                 *)

LEMMA AnswerType ==
  ASSUME TypeOK, NEW m \in rpcs, NEW st \in {"stored", "refused"}, Answer(m, st)
  PROVE  rpcs' \subseteq RpcRec
<1>1. m \in RpcRec
  BY RpcFields
<1>2. [m EXCEPT !.st = st] \in RpcRec
  BY <1>1 DEF RpcRec
<1> QED
  BY <1>2, TypeParts DEF Answer

LEMMA TypeRefuseWrite == ASSUME TypeOK, NEW m \in rpcs, RefuseWrite(m) PROVE TypeOK'
<1>1. rpcs' \subseteq RpcRec
  BY AnswerType DEF RefuseWrite
<1> QED
  BY <1>1 DEF RefuseWrite, TypeOK, node

LEMMA TypeStoreWrite == ASSUME TypeOK, NEW m \in rpcs, StoreWrite(m) PROVE TypeOK'
<1>1. rpcs' \subseteq RpcRec
  BY AnswerType DEF StoreWrite
<1>2. /\ kv \in [Node -> SUBSET Version] /\ \A n \in Node : AtMostOne(kv[n])
      /\ m.to \in Node /\ m.ver \in Version
  BY TypeParts, RpcFields
<1>3. StoreReplicated(kv[m.to], m.ver) \in SUBSET Version
      /\ AtMostOne(StoreReplicated(kv[m.to], m.ver))
  BY <1>2, StoreReplicatedKeeps
<1>4. kv' \in [Node -> SUBSET Version] /\ \A n \in Node : AtMostOne(kv'[n])
  BY <1>2, <1>3 DEF StoreWrite
<1> QED
  BY <1>1, <1>4 DEF StoreWrite, TypeOK

LEMMA TypeMarkHint == ASSUME TypeOK, NEW m \in rpcs, MarkHint(m) PROVE TypeOK'
<1>1. m \in RpcRec /\ m.to \in Node /\ m.owner \in Node
  BY RpcFields
<1>2. [m EXCEPT !.st = "marked"] \in RpcRec
  BY <1>1 DEF RpcRec
<1>3. rpcs' \subseteq RpcRec
  BY <1>2, TypeParts DEF MarkHint
<1>4. unreachable' \in [Node -> SUBSET Node]
  BY <1>1, MarkType DEF MarkHint
<1> QED
  BY <1>3, <1>4 DEF MarkHint, TypeOK

(* One hint slot changes.                                                  *)
LEMMA HintsType ==
  ASSUME TypeOK, NEW n \in Node, NEW t \in Node, NEW S \in SUBSET Version, AtMostOne(S),
         hints' = [hints EXCEPT ![n][t] = S]
  PROVE  /\ hints' \in [Node -> [Node -> SUBSET Version]]
         /\ \A x, y \in Node : AtMostOne(hints'[x][y])
<1>1. /\ hints \in [Node -> [Node -> SUBSET Version]]
      /\ \A x, y \in Node : AtMostOne(hints[x][y])
  BY TypeParts
<1>2. [hints[n] EXCEPT ![t] = S] \in [Node -> SUBSET Version]
  BY <1>1
<1>3. hints' \in [Node -> [Node -> SUBSET Version]]
  BY <1>1, <1>2
<1>4. ASSUME NEW x \in Node, NEW y \in Node PROVE hints'[x][y] = S \/ hints'[x][y] = hints[x][y]
  BY <1>1
<1> QED
  BY <1>1, <1>3, <1>4

LEMMA TypeStoreHint == ASSUME TypeOK, NEW m \in rpcs, StoreHint(m) PROVE TypeOK'
<1>1. rpcs' \subseteq RpcRec
  BY AnswerType DEF StoreHint
<1>2. m.to \in Node /\ m.owner \in Node /\ m.ver \in Version
  BY RpcFields
<1>3. hints[m.to][m.owner] \in SUBSET Version /\ AtMostOne(hints[m.to][m.owner])
  BY <1>2, TypeParts
<1> DEFINE S == StoreReplicated(hints[m.to][m.owner], m.ver)
<1>4. S \in SUBSET Version /\ AtMostOne(S)
  BY <1>2, <1>3, StoreReplicatedKeeps
<1>5. hints' = [hints EXCEPT ![m.to][m.owner] = S]
  BY DEF StoreHint
<1> HIDE DEF S
<1>6. /\ hints' \in [Node -> [Node -> SUBSET Version]]
      /\ \A x, y \in Node : AtMostOne(hints'[x][y])
  BY <1>2, <1>4, <1>5, HintsType
<1> QED
  BY <1>1, <1>6 DEF StoreHint, TypeOK

(* The task looks at the answer and is over.                               *)
LEMMA TypeCallOver ==
  ASSUME TypeOK, NEW m \in rpcs, RepairDone(m) \/ HintRefused(m) PROVE TypeOK'
<1>1. rpcs' \subseteq RpcRec
  BY TypeParts DEF RepairDone, HintRefused
<1> QED
  BY <1>1 DEF RepairDone, HintRefused, TypeOK, node

LEMMA TypeHintDelivered == ASSUME TypeOK, NEW m \in rpcs, HintDelivered(m) PROVE TypeOK'
<1>1. rpcs' \subseteq RpcRec
  BY TypeParts DEF HintDelivered
<1>2. m.from \in Node /\ m.to \in Node
  BY RpcFields
<1> DEFINE S == {h \in hints[m.from][m.to] : Compare(h.clk, m.ver.clk) # "EQUAL"}
<1>3. S \in SUBSET Version /\ AtMostOne(S)
  BY <1>2, TypeParts DEF AtMostOne
<1>4. hints' = [hints EXCEPT ![m.from][m.to] = S]
  BY DEF HintDelivered
<1> HIDE DEF S
<1>5. /\ hints' \in [Node -> [Node -> SUBSET Version]]
      /\ \A x, y \in Node : AtMostOne(hints'[x][y])
  BY <1>2, <1>3, <1>4, HintsType
<1> QED
  BY <1>1, <1>5 DEF HintDelivered, TypeOK

LEMMA TypeBackgroundCallFails ==
  ASSUME TypeOK, NEW m \in rpcs, BackgroundCallFails(m) PROVE TypeOK'
<1>1. rpcs' \subseteq RpcRec
  BY LeftoverType, TypeParts DEF BackgroundCallFails
<1>2. unreachable' \in [Node -> SUBSET Node]
  BY MarkType, RpcFields DEF BackgroundCallFails
<1>3. spent' \in Spent
  BY BreaksType DEF BackgroundCallFails
<1> QED
  BY <1>1, <1>2, <1>3 DEF BackgroundCallFails, TypeOK

-----------------------------------------------------------------------------
(* The reachability thread, gossip, crashes.                               *)

LEMMA TypePingOk == ASSUME TypeOK, NEW n \in Node, NEW t \in Node, PingOk(n, t) PROVE TypeOK'
<1>1. probe' \in [Node -> [Node -> {"idle", "alive", "reachable"}]]
  BY TypeParts DEF PingOk
<1> QED
  BY <1>1 DEF PingOk, TypeOK

LEMMA TypeMarkReachable ==
  ASSUME TypeOK, NEW n \in Node, NEW t \in Node, MarkReachable(n, t) PROVE TypeOK'
<1>1. probe' \in [Node -> [Node -> {"idle", "alive", "reachable"}]]
  BY TypeParts DEF MarkReachable
<1>2. unreachable' \in [Node -> SUBSET Node]
  BY TypeParts DEF MarkReachable
<1> QED
  BY <1>1, <1>2 DEF MarkReachable, TypeOK

LEMMA TypeDeliverHints ==
  ASSUME TypeOK, NEW n \in Node, NEW t \in Node, DeliverHints(n, t) PROVE TypeOK'
<1>1. probe' \in [Node -> [Node -> {"idle", "alive", "reachable"}]]
  BY TypeParts DEF DeliverHints
<1>2. hints[n][t] \subseteq Version
  BY TypeParts
<1>3. \A v \in hints[n][t] : Call("hint", v.id, n, t, v, t, FALSE, {}) \in RpcRec
  <2> SUFFICES ASSUME NEW v \in hints[n][t]
               PROVE  Call("hint", v.id, n, t, v, t, FALSE, {}) \in RpcRec
    OBVIOUS
  <2>1. v \in Version /\ v.id \in PutIds
    BY <1>2 DEF Version
  <2> QED
    BY <2>1, CallType
<1>4. rpcs' \subseteq RpcRec
  BY <1>3, TypeParts DEF DeliverHints
<1> QED
  BY <1>1, <1>4 DEF DeliverHints, TypeOK

LEMMA TypeGossipFails ==
  ASSUME TypeOK, NEW n \in Node, NEW t \in Node, GossipFails(n, t) PROVE TypeOK'
<1>1. unreachable' \in [Node -> SUBSET Node] /\ spent' \in Spent
  BY MarkType, CallFailsType DEF GossipFails
<1> QED
  BY <1>1 DEF GossipFails, TypeOK

LEMMA TypeChangeRing ==
  ASSUME TypeOK, NEW n \in Node, NEW view \in SUBSET Node, ChangeRing(n, view) PROVE TypeOK'
<1>1. ring' \in [Node -> SUBSET Node]
  BY TypeParts DEF ChangeRing
<1>2. spent \in Spent /\ spent.changes < MaxChanges /\ spent' = [spent EXCEPT !.changes = @ + 1]
  BY TypeParts DEF ChangeRing
<1>3. spent.changes + 1 \in 0..MaxChanges
  BY <1>2, BoundAssumption DEF Spent
<1>4. spent' \in Spent
  BY <1>2, <1>3 DEF Spent
<1> QED
  BY <1>1, <1>4 DEF ChangeRing, TypeOK

LEMMA SeveredType == ASSUME TypeOK, NEW n \in Node PROVE Severed(n) \subseteq RpcRec
<1>1. \A m \in rpcs : m \in RpcRec
  BY RpcFields
<1>2. \A m \in rpcs : [m EXCEPT !.kind = "orphan"] \in RpcRec
  BY <1>1 DEF RpcRec
<1>3. \A m \in rpcs : [m EXCEPT !.st = "broken"] \in RpcRec
  BY <1>1 DEF RpcRec
<1> QED
  BY <1>1, <1>2, <1>3 DEF Severed

LEMMA TypeCrash == ASSUME TypeOK, NEW n \in Node, Crash(n) PROVE TypeOK'
<1>1. kv' \in [Node -> SUBSET Version] /\ \A x \in Node : AtMostOne(kv'[x])
  BY TypeParts DEF Crash, AtMostOne
<1>2. /\ hints' \in [Node -> [Node -> SUBSET Version]]
      /\ \A x, y \in Node : AtMostOne(hints'[x][y])
  <2>1. hints' = [hints EXCEPT ![n] = [t \in Node |-> {}]]
    BY DEF Crash
  <2>2. ASSUME NEW x \in Node, NEW y \in Node PROVE hints'[x][y] = {} \/ hints'[x][y] = hints[x][y]
    <3>1. hints \in [Node -> [Node -> SUBSET Version]]
      BY TypeParts
    <3>2. x = n => hints'[x] = [t \in Node |-> {}]
      BY <2>1, <3>1
    <3>3. x # n => hints'[x] = hints[x]
      BY <2>1, <3>1
    <3> QED
      BY <3>2, <3>3
  <2>3. hints' \in [Node -> [Node -> SUBSET Version]]
    BY <2>1, TypeParts
  <2>4. AtMostOne({}) /\ \A x, y \in Node : AtMostOne(hints[x][y])
    BY TypeParts DEF AtMostOne
  <2>5. \A x, y \in Node : AtMostOne(hints'[x][y])
    BY <2>2, <2>4
  <2> QED
    BY <2>3, <2>5
<1>3. unreachable' \in [Node -> SUBSET Node]
  BY TypeParts DEF Crash
<1>4. probe' \in [Node -> [Node -> {"idle", "alive", "reachable"}]]
  BY TypeParts DEF Crash
<1>5. ring' \in [Node -> SUBSET Node]
  BY TypeParts DEF Crash
<1>6. up' \in [Node -> BOOLEAN]
  BY TypeParts DEF Crash
<1>7. puts' \in [PutIds -> PutRec]
  <2>1. \A p \in PutIds : puts[p] \in PutRec /\ [puts[p] EXCEPT !.pc = "dead"] \in PutRec
    <3> SUFFICES ASSUME NEW p \in PutIds
                 PROVE  puts[p] \in PutRec /\ [puts[p] EXCEPT !.pc = "dead"] \in PutRec
      OBVIOUS
    <3>1. puts[p] \in PutRec
      BY TypeParts
    <3> QED
      BY <3>1 DEF PutRec, PutPC
  <2> QED
    BY <2>1 DEF Crash
<1>8. gets' \in [GetIds -> GetRec]
  <2>1. \A g \in GetIds : gets[g] \in GetRec /\ [gets[g] EXCEPT !.pc = "dead"] \in GetRec
    <3> SUFFICES ASSUME NEW g \in GetIds
                 PROVE  gets[g] \in GetRec /\ [gets[g] EXCEPT !.pc = "dead"] \in GetRec
      OBVIOUS
    <3>1. gets[g] \in GetRec
      BY TypeParts
    <3> QED
      BY <3>1 DEF GetRec, GetPC
  <2> QED
    BY <2>1 DEF Crash
<1>9. rpcs' \subseteq RpcRec
  BY SeveredType DEF Crash
<1>10. spent' \in Spent
  <2>1. spent \in Spent /\ spent.crashes < MaxCrashes /\ spent' = [spent EXCEPT !.crashes = @ + 1]
    BY TypeParts DEF Crash
  <2>2. spent.crashes + 1 \in 0..MaxCrashes
    BY <2>1, BoundAssumption DEF Spent
  <2> QED
    BY <2>1, <2>2 DEF Spent
<1> QED
  BY <1>1, <1>2, <1>3, <1>4, <1>5, <1>6, <1>7, <1>8, <1>9, <1>10 DEF TypeOK

LEMMA TypeRestart == ASSUME TypeOK, NEW n \in Node, Restart(n) PROVE TypeOK'
<1>1. up' \in [Node -> BOOLEAN]
  BY TypeParts DEF Restart
<1> QED
  BY <1>1 DEF Restart, TypeOK

LEMMA TypeBootstrap ==
  ASSUME TypeOK, NEW n \in Node, NEW seed \in Node, Bootstrap(n, seed) PROVE TypeOK'
<1>1. ring' \in [Node -> SUBSET Node]
  <2>1. ring \in [Node -> SUBSET Node]
    BY TypeParts
  <2>2. {n} \cup ring[seed] \in SUBSET Node
    BY <2>1
  <2>3. seed # n /\ ring' = [ring EXCEPT ![n] = {n} \cup ring[seed], ![seed] = ring[seed] \cup {n}]
    BY DEF Bootstrap
  <2> QED
    BY <2>1, <2>2, <2>3
<1> QED
  BY <1>1 DEF Bootstrap, TypeOK

LEMMA TypeBootstrapFails ==
  ASSUME TypeOK, NEW n \in Node, NEW seed \in Node, BootstrapFails(n, seed) PROVE TypeOK'
<1>1. unreachable' \in [Node -> SUBSET Node] /\ spent' \in Spent
  BY MarkType, CallFailsType DEF BootstrapFails
<1>2. ring' \in [Node -> SUBSET Node]
  BY TypeParts DEF BootstrapFails
<1> QED
  BY <1>1, <1>2 DEF BootstrapFails, TypeOK

-----------------------------------------------------------------------------
LEMMA TypePutStep == ASSUME TypeOK, NEW p \in PutIds, PutStep(p) PROVE TypeOK'
<1>1. \A n \in PutContacts : n \in Node
  BY BoundAssumption
<1>2. \A ctx \in {{}} \cup {{v} : v \in Seen} : ctx \in SUBSET Version
  BY SeenType
<1> QED
  BY <1>1, <1>2, TypeClientPut, TypeSnapshotPut, TypeRoutePut, TypePutCommit, TypePutJoin, TypeForwardSend,
     TypeForwardFails, TypeForwardBreaks, TypeForwardRelay, TypeForwardExhausted
  DEF PutStep

LEMMA TypeGetStep == ASSUME TypeOK, NEW g \in GetIds, GetStep(g) PROVE TypeOK'
<1>1. \A n \in GetContacts : n \in Node
  BY BoundAssumption
<1> QED
  BY <1>1, TypeClientGet, TypeSnapshotGet, TypeRouteGet, TypeReadReplica, TypeReadFails, TypeFinishGet
  DEF GetStep

LEMMA TypeRpcStep == ASSUME TypeOK, NEW m \in rpcs, RpcStep(m) PROVE TypeOK'
BY TypeRefuseWrite, TypeStoreWrite, TypeMarkHint, TypeStoreHint, TypePutAck, TypePutCallFails,
   TypeSnapshotTask, TypeSubstitute, TypeCallOver, TypeBackgroundCallFails, TypeHintDelivered
DEF RpcStep

LEMMA TypeNodeStep == ASSUME TypeOK, NEW n \in Node, NodeStep(n) PROVE TypeOK'
BY TypePingOk, TypeMarkReachable, TypeDeliverHints, TypeGossipFails, TypeBootstrap,
   TypeBootstrapFails, TypeChangeRing, TypeCrash, TypeRestart
DEF NodeStep

(* Every reachable state has its types; in particular a store never keeps  *)
(* two versions of a key (kv_store_ and hints_for_target_ hold one         *)
(* VersionedValue per slot, and both write sites replace it).              *)
THEOREM TypeCorrect == Spec => []TypeOK
<1>1. Init => TypeOK
  BY TypeInit
<1>2. TypeOK /\ [Next]_vars => TypeOK'
  <2> SUFFICES ASSUME TypeOK, [Next]_vars PROVE TypeOK'
    OBVIOUS
  <2>1. CASE Next
    BY <2>1, TypePutStep, TypeGetStep, TypeRpcStep, TypeNodeStep DEF Next
  <2>2. CASE UNCHANGED vars
    BY <2>2 DEF vars, TypeOK
  <2> QED
    BY <2>1, <2>2
<1> QED
  BY <1>1, <1>2, PTL DEF Spec
=============================================================================
