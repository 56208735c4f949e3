--------------------------- MODULE CausalityProofs ---------------------------
(***************************************************************************)
(* The clocks of a driftstore cluster keep causality: theorems about       *)
(* CausalPastDominated, NoStepBack, StoreSupersedes and ClockBacked, for   *)
(* every cluster, every quorum configuration and every value of the        *)
(* bounds.                                                                 *)
(***************************************************************************)
EXTENDS DriftStoreProofs

-----------------------------------------------------------------------------
(* The inductive invariant.  CausalPastDominated speaks of two versions    *)
(* that exist; to know that PutCommit keeps it, one must know that the     *)
(* versions it builds on, the client's context and the coordinator's copy, *)
(* are versions some Put issued, and that an identifier names one version. *)

\* A Put that has not committed, and no answer to relay, has no version.
Early == {"free", "admitted", "routing", "commit", "forward", "waiting"}

EarlyHasNone == \A p \in PutIds : puts[p].pc \in Early => puts[p].ver = {}

\* The identifier of a version leads to it, and to its past.
Identity == \A p \in PutIds : \A v \in puts[p].ver : puts[v.id].ver = {v}

PastBelow ==
  \A w \in Issued : \A i \in Past(w) : \E v \in Issued : v.id = i /\ Below(v.clk, w.clk)

\* Whatever is stored, held, sent, read or sent along was issued.
ContextIssued == \A p \in PutIds : AtMostOne(puts[p].ctx) /\ puts[p].ctx \subseteq Issued
KvIssued      == \A n \in Node : kv[n] \subseteq Issued
HintsIssued   == \A n, t \in Node : hints[n][t] \subseteq Issued
RpcsIssued    == \A m \in rpcs : m.ver \in Issued
GetsIssued    == \A g \in GetIds : /\ gets[g].win \subseteq Issued
                                   /\ \A r \in gets[g].results : r.ver \subseteq Issued

CausalInv ==
  /\ TypeOK
  /\ EarlyHasNone /\ Identity /\ PastBelow
  /\ ContextIssued /\ KvIssued /\ HintsIssued /\ RpcsIssued /\ GetsIssued

LEMMA CausalParts ==
  ASSUME CausalInv
  PROVE  /\ TypeOK
         /\ \A p \in PutIds : puts[p].pc \in Early => puts[p].ver = {}
         /\ \A p \in PutIds : \A v \in puts[p].ver : puts[v.id].ver = {v}
         /\ \A w \in Issued : \A i \in Past(w) : \E v \in Issued : v.id = i /\ Below(v.clk, w.clk)
         /\ \A p \in PutIds : AtMostOne(puts[p].ctx) /\ puts[p].ctx \subseteq Issued
         /\ \A n \in Node : kv[n] \subseteq Issued
         /\ \A n, t \in Node : hints[n][t] \subseteq Issued
         /\ \A m \in rpcs : m.ver \in Issued
         /\ \A g \in GetIds : /\ gets[g].win \subseteq Issued
                              /\ \A r \in gets[g].results : r.ver \subseteq Issued
BY DEF CausalInv, EarlyHasNone, Identity, PastBelow, ContextIssued, KvIssued, HintsIssued,
       RpcsIssued, GetsIssued

LEMMA IssuedIsItsPut ==
  ASSUME CausalInv, NEW v \in Issued
  PROVE  v \in Version /\ v.id \in PutIds /\ puts[v.id].ver = {v}
<1>1. v \in Version
  BY SeenType, CausalParts
<1>2. PICK p \in PutIds : v \in puts[p].ver
  BY DEF Issued
<1> QED
  BY <1>1, <1>2, CausalParts DEF Version

LEMMA SeenIsIssued == ASSUME CausalInv PROVE Seen \subseteq Issued
BY CausalParts DEF Seen, Issued

-----------------------------------------------------------------------------
(* All actions but PutCommit issue no version: they leave the version of a *)
(* Put that has one alone, and hand out versions that exist already.       *)

PutsKept ==
  \A p \in PutIds :
    /\ puts[p].ver # {} => puts'[p].ver = puts[p].ver /\ puts'[p].past = puts[p].past
    /\ puts'[p].ver \subseteq Issued
    /\ puts'[p].pc \in Early => puts'[p].ver = {}
    /\ AtMostOne(puts'[p].ctx) /\ puts'[p].ctx \subseteq Issued

StoresKept ==
  /\ \A n \in Node : kv'[n] \subseteq Issued
  /\ \A n, t \in Node : hints'[n][t] \subseteq Issued
  /\ \A m \in rpcs' : m.ver \in Issued
  /\ \A g \in GetIds : /\ gets'[g].win \subseteq Issued
                       /\ \A r \in gets'[g].results : r.ver \subseteq Issued

LEMMA IssuedKept == ASSUME CausalInv, PutsKept PROVE Issued' = Issued
<1>1. Issued' \subseteq Issued
  BY DEF Issued, PutsKept
<1>2. ASSUME NEW v \in Issued PROVE v \in Issued'
  <2>1. v.id \in PutIds /\ puts[v.id].ver = {v}
    BY IssuedIsItsPut
  <2>2. v \in puts'[v.id].ver
    BY <2>1 DEF PutsKept
  <2> QED
    BY <2>1, <2>2 DEF Issued
<1> QED
  BY <1>1, <1>2

LEMMA KeptIsCausal ==
  ASSUME CausalInv, TypeOK', PutsKept, StoresKept PROVE CausalInv'
<1>1. Issued' = Issued
  BY IssuedKept
<1>2. EarlyHasNone' /\ ContextIssued'
  BY <1>1 DEF PutsKept, EarlyHasNone, ContextIssued
<1>3. ASSUME NEW v \in Issued PROVE puts'[v.id].ver = {v} /\ puts'[v.id].past = puts[v.id].past
  BY IssuedIsItsPut DEF PutsKept
<1>4. Identity'
  BY <1>3 DEF Identity, PutsKept
<1>5. PastBelow'
  BY <1>1, <1>3, CausalParts DEF PastBelow, Past
<1>6. KvIssued' /\ HintsIssued' /\ RpcsIssued' /\ GetsIssued'
  BY <1>1 DEF StoresKept, KvIssued, HintsIssued, RpcsIssued, GetsIssued
<1> QED
  BY <1>2, <1>4, <1>5, <1>6 DEF CausalInv

\* What an action that leaves a variable alone keeps.
LEMMA PutsAlone == ASSUME CausalInv, UNCHANGED puts PROVE PutsKept
BY CausalParts DEF PutsKept, Issued

LEMMA StoresAlone ==
  ASSUME CausalInv
  PROVE  /\ UNCHANGED kv => \A n \in Node : kv'[n] \subseteq Issued
         /\ UNCHANGED hints => \A n, t \in Node : hints'[n][t] \subseteq Issued
         /\ UNCHANGED rpcs => \A m \in rpcs' : m.ver \in Issued
         /\ UNCHANGED gets => \A g \in GetIds : /\ gets'[g].win \subseteq Issued
                                                /\ \A r \in gets'[g].results : r.ver \subseteq Issued
BY CausalParts

LEMMA OnePutKept ==
  ASSUME CausalInv, NEW p \in PutIds, NEW r, puts' = [puts EXCEPT ![p] = r],
         puts[p].ver # {} => r.ver = puts[p].ver /\ r.past = puts[p].past,
         r.ver \subseteq Issued, r.pc \in Early => r.ver = {},
         AtMostOne(r.ctx), r.ctx \subseteq Issued
  PROVE  PutsKept
<1>1. puts \in [PutIds -> PutRec]
  BY CausalParts, TypeParts
<1>2. puts'[p] = r /\ \A q \in PutIds \ {p} : puts'[q] = puts[q]
  BY <1>1
<1>3. \A q \in PutIds : puts[q].ver \subseteq Issued
  BY DEF Issued
<1> QED
  BY <1>2, <1>3, CausalParts DEF PutsKept

LEMMA KeptClientPut ==
  ASSUME CausalInv, NEW p \in PutIds, NEW n \in Node, NEW ctx \in {{}} \cup {{v} : v \in Seen},
         ClientPut(p, n, ctx)
  PROVE  PutsKept /\ StoresKept
<1> DEFINE r == NewPut(n, Admission(n), FALSE, ctx)
<1>1. r.ver = {} /\ r.ctx = ctx
  BY DEF NewPut
<1>2. AtMostOne(ctx) /\ ctx \subseteq Issued
  BY SeenIsIssued DEF AtMostOne
<1>3. puts[p].ver = {}
  BY CausalParts DEF ClientPut, Fresh, Early
<1>4. puts' = [puts EXCEPT ![p] = r]
  BY DEF ClientPut
<1> HIDE DEF r
<1>5. PutsKept
  BY <1>1, <1>2, <1>3, <1>4, OnePutKept
<1> QED
  BY <1>5, StoresAlone DEF ClientPut, node, StoresKept

(* A step of a Put that only touches its progress.                         *)
LEMMA SamePutKept ==
  ASSUME CausalInv, NEW p \in PutIds, NEW r, puts' = [puts EXCEPT ![p] = r],
         r.ver = puts[p].ver, r.past = puts[p].past, r.ctx = puts[p].ctx,
         r.pc \in Early => puts[p].pc \in Early
  PROVE  PutsKept
<1>1. puts[p].ver \subseteq Issued
  BY DEF Issued
<1> QED
  BY <1>1, CausalParts, OnePutKept

LEMMA KeptSnapshotPut ==
  ASSUME CausalInv, NEW p \in PutIds, SnapshotPut(p) PROVE PutsKept /\ StoresKept
<1> DEFINE r == [puts[p] EXCEPT !.pc = "routing", !.bad = unreachable[puts[p].at]]
<1>1. puts[p] \in PutRec
  BY CausalParts, TypeParts
<1>2. r.ver = puts[p].ver /\ r.past = puts[p].past /\ r.ctx = puts[p].ctx
  BY <1>1 DEF PutRec
<1>3. puts' = [puts EXCEPT ![p] = r] /\ puts[p].pc \in Early
  BY DEF SnapshotPut, Early
<1> HIDE DEF r
<1>4. PutsKept
  BY <1>2, <1>3, SamePutKept
<1> QED
  BY <1>4, StoresAlone DEF SnapshotPut, node, StoresKept

LEMMA KeptRoutePut ==
  ASSUME CausalInv, NEW p \in PutIds, RoutePut(p) PROVE PutsKept /\ StoresKept
<1> DEFINE to == NodesOf(PreferenceList(ring[puts[p].at], puts[p].bad))
           list == PreferenceList(ring[puts[p].at], puts[p].bad)
           goes(pc) == [puts[p] EXCEPT !.pc = pc, !.bad = {}]
           same(r) == r.ver = puts[p].ver /\ r.past = puts[p].past /\ r.ctx = puts[p].ctx
<1>1. puts[p] \in PutRec
  BY CausalParts, TypeParts
<1>2. PICK r : puts' = [puts EXCEPT ![p] = r] /\ same(r)
  <2>1. \/ \E pc \in {"refused", "commit"} : puts' = [puts EXCEPT ![p] = [goes(pc) EXCEPT !.pref = list]]
        \/ puts' = [puts EXCEPT ![p] = goes("refused")]
        \/ \E s \in to : puts' = [puts EXCEPT ![p] =
                             [goes("forward") EXCEPT !.untried = to, !.start = s]]
    BY DEF RoutePut
  <2>2. \A pc : /\ same([goes(pc) EXCEPT !.pref = list]) /\ same(goes(pc))
                /\ \A s : same([goes(pc) EXCEPT !.untried = to, !.start = s])
    BY <1>1 DEF PutRec
  <2> HIDE DEF goes, same, list, to
  <2> QED
    BY <2>1, <2>2
<1>3. puts[p].ver = {}
  BY CausalParts DEF RoutePut, Early
<1>4. PutsKept
  BY <1>2, <1>3, CausalParts, OnePutKept
<1> QED
  BY <1>4, StoresAlone DEF RoutePut, node, StoresKept

LEMMA KeptPutJoin ==
  ASSUME CausalInv, NEW p \in PutIds, PutJoin(p) PROVE PutsKept /\ StoresKept
<1> DEFINE r == [puts[p] EXCEPT !.pc = IF puts[p].acks < W THEN "short" ELSE "ok"]
<1>1. puts[p] \in PutRec
  BY CausalParts, TypeParts
<1>2. /\ r.ver = puts[p].ver /\ r.past = puts[p].past /\ r.ctx = puts[p].ctx
      /\ r.pc \notin Early
  BY <1>1 DEF PutRec, Early
<1>3. puts' = [puts EXCEPT ![p] = r]
  BY DEF PutJoin
<1> HIDE DEF r
<1>4. PutsKept
  BY <1>2, <1>3, SamePutKept
<1> QED
  BY <1>4, StoresAlone DEF PutJoin, node, StoresKept

LEMMA KeptForwardSend ==
  ASSUME CausalInv, NEW p \in PutIds, NEW q \in PutIds, NEW t \in Node, ForwardSend(p, q, t)
  PROVE  PutsKept /\ StoresKept
<1> DEFINE r == [puts[p] EXCEPT !.pc = "waiting", !.child = {q},
                                !.untried = puts[p].untried \ {t}]
           c == NewPut(t, Admission(t), TRUE, puts[p].ctx)
<1>1. puts \in [PutIds -> PutRec] /\ puts[p] \in PutRec
  BY CausalParts, TypeParts
<1>2. puts' = [puts EXCEPT ![p] = r, ![q] = c]
  BY DEF ForwardSend
<1>3. r.ver = puts[p].ver /\ r.past = puts[p].past /\ r.ctx = puts[p].ctx
  BY <1>1 DEF PutRec
<1>4. c.ver = {} /\ c.ctx = puts[p].ctx
  BY DEF NewPut
<1>5. puts[p].ver = {} /\ puts[q].ver = {}
  BY CausalParts DEF ForwardSend, Fresh, Early
<1> HIDE DEF r, c
<1>6. puts'[q] = c /\ (p # q => puts'[p] = r) /\ \A x \in PutIds \ {p, q} : puts'[x] = puts[x]
  BY <1>1, <1>2
<1>7. \A x \in PutIds : puts[x].ver \subseteq Issued
  BY DEF Issued
<1>8. PutsKept
  BY <1>3, <1>4, <1>5, <1>6, <1>7, CausalParts DEF PutsKept
<1> QED
  BY <1>8, StoresAlone DEF ForwardSend, node, StoresKept

LEMMA KeptForwardFails ==
  ASSUME CausalInv, NEW p \in PutIds, NEW t, ForwardFails(p, t) PROVE PutsKept /\ StoresKept
<1> DEFINE r == [puts[p] EXCEPT !.untried = puts[p].untried \ {t}]
<1>1. puts[p] \in PutRec
  BY CausalParts, TypeParts
<1>2. /\ r.ver = puts[p].ver /\ r.past = puts[p].past /\ r.ctx = puts[p].ctx
      /\ r.pc = puts[p].pc
  BY <1>1 DEF PutRec
<1>3. puts' = [puts EXCEPT ![p] = r]
  BY DEF ForwardFails
<1> HIDE DEF r
<1>4. PutsKept
  BY <1>2, <1>3, SamePutKept
<1> QED
  BY <1>4, StoresAlone DEF ForwardFails, StoresKept

LEMMA KeptForwardBreaks ==
  ASSUME CausalInv, NEW p \in PutIds, NEW q, ForwardBreaks(p, q) PROVE PutsKept /\ StoresKept
<1> DEFINE r == [puts[p] EXCEPT !.pc = "forward", !.child = {}]
<1>1. puts[p] \in PutRec
  BY CausalParts, TypeParts
<1>2. r.ver = puts[p].ver /\ r.past = puts[p].past /\ r.ctx = puts[p].ctx
  BY <1>1 DEF PutRec
<1>3. puts' = [puts EXCEPT ![p] = r] /\ puts[p].pc \in Early
  BY DEF ForwardBreaks, Early
<1> HIDE DEF r
<1>4. PutsKept
  BY <1>2, <1>3, SamePutKept
<1> QED
  BY <1>4, StoresAlone DEF ForwardBreaks, StoresKept

(* A relayed answer carries a version that the target issued.              *)
LEMMA KeptForwardRelay ==
  ASSUME CausalInv, NEW p \in PutIds, NEW q \in PutIds, ForwardRelay(p, q)
  PROVE  PutsKept /\ StoresKept
<1> DEFINE r == [puts[p] EXCEPT !.pc = puts[q].pc, !.ver = puts[q].ver,
                                !.acks = puts[q].acks, !.ackers = puts[q].ackers]
<1>1. puts[p] \in PutRec
  BY CausalParts, TypeParts
<1>2. r.ver = puts[q].ver /\ r.ctx = puts[p].ctx /\ r.pc \notin Early
  BY <1>1 DEF PutRec, ForwardRelay, Done, Early
<1>3. puts' = [puts EXCEPT ![p] = r] /\ puts[p].ver = {}
  BY CausalParts DEF ForwardRelay, Early
<1>4. puts[q].ver \subseteq Issued
  BY DEF Issued
<1> HIDE DEF r
<1>5. PutsKept
  BY <1>2, <1>3, <1>4, CausalParts, OnePutKept
<1> QED
  BY <1>5, StoresAlone DEF ForwardRelay, node, StoresKept

LEMMA KeptForwardExhausted ==
  ASSUME CausalInv, NEW p \in PutIds, ForwardExhausted(p) PROVE PutsKept /\ StoresKept
<1> DEFINE r == [puts[p] EXCEPT !.pc = "refused"]
<1>1. puts[p] \in PutRec
  BY CausalParts, TypeParts
<1>2. r.ver = puts[p].ver /\ r.past = puts[p].past /\ r.ctx = puts[p].ctx /\ r.pc \notin Early
  BY <1>1 DEF PutRec, Early
<1>3. puts' = [puts EXCEPT ![p] = r]
  BY DEF ForwardExhausted
<1> HIDE DEF r
<1>4. PutsKept
  BY <1>2, <1>3, SamePutKept
<1> QED
  BY <1>4, StoresAlone DEF ForwardExhausted, node, StoresKept

-----------------------------------------------------------------------------
(* Calls carry the version they were made for.                             *)

LEMMA KeptPutAck == ASSUME CausalInv, NEW m \in rpcs, PutAck(m) PROVE PutsKept /\ StoresKept
<1> DEFINE r == [puts[m.by] EXCEPT !.acks = puts[m.by].acks + 1,
                                   !.ackers = puts[m.by].ackers \cup {m.to},
                                   !.owners = IF m.hinted THEN puts[m.by].owners
                                              ELSE puts[m.by].owners \cup {m.to}]
<1>1. puts' = [puts EXCEPT ![m.by] = r] /\ puts \in [PutIds -> PutRec]
  BY CausalParts, TypeParts DEF PutAck
<1>2. ASSUME m.by \in PutIds PROVE PutsKept
  <2>1. puts[m.by] \in PutRec
    BY <1>1, <1>2
  <2>2. /\ r.ver = puts[m.by].ver /\ r.past = puts[m.by].past /\ r.ctx = puts[m.by].ctx
        /\ r.pc = puts[m.by].pc
    BY <2>1 DEF PutRec
  <2> HIDE DEF r
  <2> QED
    BY <1>1, <1>2, <2>2, SamePutKept
<1>3. ASSUME m.by \notin PutIds PROVE PutsKept
  <2> HIDE DEF r
  <2>1. UNCHANGED puts
    BY <1>1, <1>3
  <2> QED
    BY <2>1, PutsAlone
<1>4. \A x \in rpcs' : x.ver \in Issued
  BY CausalParts DEF PutAck
<1> QED
  BY <1>2, <1>3, <1>4, StoresAlone DEF PutAck, node, StoresKept

LEMMA LeftoverIssued ==
  ASSUME CausalInv, NEW m \in rpcs PROVE \A x \in Leftover(m) : x.ver \in Issued
<1>1. m \in RpcRec
  BY CausalParts, RpcFields
<1>2. [m EXCEPT !.kind = "orphan"].ver = m.ver
  BY <1>1 DEF RpcRec
<1> QED
  BY <1>2, CausalParts DEF Leftover

LEMMA KeptSnapshotTask ==
  ASSUME CausalInv, NEW m \in rpcs, SnapshotTask(m) PROVE PutsKept /\ StoresKept
<1>1. m \in RpcRec
  BY CausalParts, RpcFields
<1>2. [m EXCEPT !.st = "searching", !.bad = unreachable[m.from],
                !.excluded = m.excluded \cup {m.to}].ver = m.ver
  BY <1>1 DEF RpcRec
<1>3. \A x \in rpcs' : x.ver \in Issued
  BY <1>2, CausalParts DEF SnapshotTask
<1> QED
  BY <1>3, PutsAlone, StoresAlone DEF SnapshotTask, node, StoresKept

LEMMA KeptSubstitute ==
  ASSUME CausalInv, NEW m \in rpcs, Substitute(m) PROVE PutsKept /\ StoresKept
<1>1. \A to : Call("put", m.by, m.from, to, m.ver, m.owner, TRUE, m.excluded).ver = m.ver
  BY DEF Call
<1>2. \A x \in rpcs' : x \in rpcs \/ x.ver = m.ver
  BY <1>1 DEF Substitute
<1>3. \A x \in rpcs' : x.ver \in Issued
  BY <1>2, CausalParts
<1> QED
  BY <1>3, PutsAlone, StoresAlone DEF Substitute, node, StoresKept

LEMMA KeptPutCallFails ==
  ASSUME CausalInv, NEW m \in rpcs, PutCallFails(m) PROVE PutsKept /\ StoresKept
<1>1. m \in RpcRec
  BY CausalParts, RpcFields
<1>2. [m EXCEPT !.st = "failed"].ver = m.ver
  BY <1>1 DEF RpcRec
<1>3. \A x \in rpcs' : x.ver \in Issued
  BY <1>2, CausalParts, LeftoverIssued DEF PutCallFails
<1> QED
  BY <1>3, PutsAlone, StoresAlone DEF PutCallFails, StoresKept

LEMMA AnswerIssued ==
  ASSUME CausalInv, NEW m \in rpcs, NEW st, Answer(m, st) PROVE \A x \in rpcs' : x.ver \in Issued
<1>1. m \in RpcRec
  BY CausalParts, RpcFields
<1>2. [m EXCEPT !.st = st].ver = m.ver
  BY <1>1 DEF RpcRec
<1> QED
  BY <1>2, CausalParts DEF Answer

LEMMA KeptRefuseWrite ==
  ASSUME CausalInv, NEW m \in rpcs, RefuseWrite(m) PROVE PutsKept /\ StoresKept
<1>1. \A x \in rpcs' : x.ver \in Issued
  BY AnswerIssued DEF RefuseWrite
<1> QED
  BY <1>1, PutsAlone, StoresAlone DEF RefuseWrite, node, StoresKept

LEMMA StoreReplicatedIssued ==
  ASSUME NEW held, held \subseteq Issued, NEW v \in Issued
  PROVE  StoreReplicated(held, v) \subseteq Issued
BY DEF StoreReplicated

LEMMA KeptStoreWrite ==
  ASSUME CausalInv, NEW m \in rpcs, StoreWrite(m) PROVE PutsKept /\ StoresKept
<1>1. \A x \in rpcs' : x.ver \in Issued
  BY AnswerIssued DEF StoreWrite
<1>2. /\ kv \in [Node -> SUBSET Version] /\ m.to \in Node
      /\ kv' = [kv EXCEPT ![m.to] = StoreReplicated(kv[m.to], m.ver)]
  BY CausalParts, TypeParts, RpcFields DEF StoreWrite
<1>3. StoreReplicated(kv[m.to], m.ver) \subseteq Issued
  BY <1>2, CausalParts, StoreReplicatedIssued
<1>4. \A n \in Node : kv'[n] \subseteq Issued
  BY <1>2, <1>3, CausalParts
<1> QED
  BY <1>1, <1>4, PutsAlone, StoresAlone DEF StoreWrite, StoresKept

LEMMA KeptMarkHint ==
  ASSUME CausalInv, NEW m \in rpcs, MarkHint(m) PROVE PutsKept /\ StoresKept
<1>1. m \in RpcRec
  BY CausalParts, RpcFields
<1>2. [m EXCEPT !.st = "marked"].ver = m.ver
  BY <1>1 DEF RpcRec
<1>3. \A x \in rpcs' : x.ver \in Issued
  BY <1>2, CausalParts DEF MarkHint
<1> QED
  BY <1>3, PutsAlone, StoresAlone DEF MarkHint, StoresKept

LEMMA OneHintKept ==
  ASSUME CausalInv, NEW n \in Node, NEW t \in Node, NEW S, S \subseteq Issued,
         hints' = [hints EXCEPT ![n][t] = S]
  PROVE  \A x, y \in Node : hints'[x][y] \subseteq Issued
<1>1. hints \in [Node -> [Node -> SUBSET Version]]
  BY CausalParts, TypeParts
<1>2. ASSUME NEW x \in Node, NEW y \in Node PROVE hints'[x][y] = S \/ hints'[x][y] = hints[x][y]
  BY <1>1
<1> QED
  BY <1>2, CausalParts

LEMMA KeptStoreHint ==
  ASSUME CausalInv, NEW m \in rpcs, StoreHint(m) PROVE PutsKept /\ StoresKept
<1>1. \A x \in rpcs' : x.ver \in Issued
  BY AnswerIssued DEF StoreHint
<1>2. m.to \in Node /\ m.owner \in Node
  BY CausalParts, RpcFields
<1> DEFINE S == StoreReplicated(hints[m.to][m.owner], m.ver)
<1>3. S \subseteq Issued
  BY <1>2, CausalParts, StoreReplicatedIssued
<1>4. hints' = [hints EXCEPT ![m.to][m.owner] = S]
  BY DEF StoreHint
<1> HIDE DEF S
<1>5. \A x, y \in Node : hints'[x][y] \subseteq Issued
  BY <1>2, <1>3, <1>4, OneHintKept
<1> QED
  BY <1>1, <1>5, PutsAlone, StoresAlone DEF StoreHint, StoresKept

LEMMA KeptHintDelivered ==
  ASSUME CausalInv, NEW m \in rpcs, HintDelivered(m) PROVE PutsKept /\ StoresKept
<1>1. \A x \in rpcs' : x.ver \in Issued
  BY CausalParts DEF HintDelivered
<1>2. m.from \in Node /\ m.to \in Node
  BY CausalParts, RpcFields
<1> DEFINE S == {h \in hints[m.from][m.to] : Compare(h.clk, m.ver.clk) # "EQUAL"}
<1>3. S \subseteq Issued
  BY <1>2, CausalParts
<1>4. hints' = [hints EXCEPT ![m.from][m.to] = S]
  BY DEF HintDelivered
<1> HIDE DEF S
<1>5. \A x, y \in Node : hints'[x][y] \subseteq Issued
  BY <1>2, <1>3, <1>4, OneHintKept
<1> QED
  BY <1>1, <1>5, PutsAlone, StoresAlone DEF HintDelivered, StoresKept

(* A task that is over takes its call away and adds no version.            *)
LEMMA KeptCallOver ==
  ASSUME CausalInv, NEW m \in rpcs, RepairDone(m) \/ HintRefused(m) \/ BackgroundCallFails(m)
  PROVE  PutsKept /\ StoresKept
<1>1. \A x \in rpcs' : x.ver \in Issued
  BY LeftoverIssued, CausalParts DEF RepairDone, HintRefused, BackgroundCallFails
<1>2. UNCHANGED <<kv, hints, puts, gets>>
  BY DEF RepairDone, HintRefused, BackgroundCallFails, node
<1> QED
  BY <1>1, <1>2, PutsAlone, StoresAlone DEF StoresKept

-----------------------------------------------------------------------------
(* Reads, probes, crashes.                                                 *)

\* What an action on one Get keeps.
LEMMA OneGetKept ==
  ASSUME CausalInv, NEW g \in GetIds, NEW r, gets' = [gets EXCEPT ![g] = r],
         r.win \subseteq Issued, \A x \in r.results : x.ver \subseteq Issued
  PROVE  \A h \in GetIds : /\ gets'[h].win \subseteq Issued
                           /\ \A x \in gets'[h].results : x.ver \subseteq Issued
<1>1. gets \in [GetIds -> GetRec]
  BY CausalParts, TypeParts
<1>2. gets'[g] = r /\ \A h \in GetIds \ {g} : gets'[h] = gets[h]
  BY <1>1
<1> QED
  BY <1>2, CausalParts

LEMMA KeptClientGet ==
  ASSUME CausalInv, NEW g \in GetIds, NEW n, ClientGet(g, n) PROVE PutsKept /\ StoresKept
<1>1. PICK pc : gets' = [gets EXCEPT ![g] = NewGet(n, pc, Acked)]
  BY DEF ClientGet
<1>2. NewGet(n, pc, Acked).win = {} /\ NewGet(n, pc, Acked).results = {}
  BY DEF NewGet
<1>3. \A h \in GetIds : /\ gets'[h].win \subseteq Issued
                        /\ \A x \in gets'[h].results : x.ver \subseteq Issued
  BY <1>1, <1>2, OneGetKept
<1> QED
  BY <1>3, PutsAlone, StoresAlone DEF ClientGet, node, StoresKept

LEMMA KeptSnapshotGet ==
  ASSUME CausalInv, NEW g \in GetIds, SnapshotGet(g) PROVE PutsKept /\ StoresKept
<1> DEFINE r == [gets[g] EXCEPT !.pc = "routing", !.bad = unreachable[gets[g].at]]
<1>1. gets[g] \in GetRec
  BY CausalParts, TypeParts
<1>2. gets' = [gets EXCEPT ![g] = r]
  BY DEF SnapshotGet
<1>3. r.win = gets[g].win /\ r.results = gets[g].results
  BY <1>1 DEF GetRec
<1> HIDE DEF r
<1>4. \A h \in GetIds : /\ gets'[h].win \subseteq Issued
                        /\ \A x \in gets'[h].results : x.ver \subseteq Issued
  BY <1>2, <1>3, CausalParts, OneGetKept
<1> QED
  BY <1>4, PutsAlone, StoresAlone DEF SnapshotGet, node, StoresKept

LEMMA KeptRouteGet ==
  ASSUME CausalInv, NEW g \in GetIds, RouteGet(g) PROVE PutsKept /\ StoresKept
<1>1. gets[g] \in GetRec
  BY CausalParts, TypeParts
<1>2. PICK r : /\ gets' = [gets EXCEPT ![g] = r]
               /\ r.win = gets[g].win /\ r.results = gets[g].results
  <2> DEFINE list == PreferenceList(ring[gets[g].at], gets[g].bad)
             a == [gets[g] EXCEPT !.pc = "failed", !.bad = {}]
             b == [gets[g] EXCEPT !.pc = "reading", !.bad = {}, !.pending = NodesOf(list)]
  <2>1. gets' = [gets EXCEPT ![g] = IF Cardinality(list) < R THEN a ELSE b]
    BY DEF RouteGet
  <2>2. a.win = gets[g].win /\ a.results = gets[g].results
    BY <1>1 DEF GetRec
  <2>3. b.win = gets[g].win /\ b.results = gets[g].results
    BY <1>1 DEF GetRec
  <2> HIDE DEF a, b
  <2> QED
    BY <2>1, <2>2, <2>3
<1>3. \A h \in GetIds : /\ gets'[h].win \subseteq Issued
                        /\ \A x \in gets'[h].results : x.ver \subseteq Issued
  BY <1>2, CausalParts, OneGetKept
<1> QED
  BY <1>3, PutsAlone, StoresAlone DEF RouteGet, node, StoresKept

LEMMA KeptReadReplica ==
  ASSUME CausalInv, NEW g \in GetIds, NEW n \in Node, ReadReplica(g, n)
  PROVE  PutsKept /\ StoresKept
<1> DEFINE reply == [node |-> n, ver |-> IF n # gets[g].at /\ isSelfRemoved(n) THEN {} ELSE kv[n]]
           r == [gets[g] EXCEPT !.pending = gets[g].pending \ {n},
                                !.results = gets[g].results \cup {reply}]
<1>1. gets[g] \in GetRec
  BY CausalParts, TypeParts
<1>2. gets' = [gets EXCEPT ![g] = r]
  BY DEF ReadReplica
<1>3. reply.ver \subseteq Issued
  BY CausalParts
<1> HIDE DEF reply
<1>4. r.win = gets[g].win /\ r.results = gets[g].results \cup {reply}
  BY <1>1 DEF GetRec
<1> HIDE DEF r
<1>5. r.win \subseteq Issued /\ \A x \in r.results : x.ver \subseteq Issued
  BY <1>3, <1>4, CausalParts
<1>6. \A h \in GetIds : /\ gets'[h].win \subseteq Issued
                        /\ \A x \in gets'[h].results : x.ver \subseteq Issued
  BY <1>2, <1>5, OneGetKept
<1> QED
  BY <1>6, PutsAlone, StoresAlone DEF ReadReplica, node, StoresKept

LEMMA KeptReadFails ==
  ASSUME CausalInv, NEW g \in GetIds, NEW n \in Node, ReadFails(g, n)
  PROVE  PutsKept /\ StoresKept
<1> DEFINE r == [gets[g] EXCEPT !.pending = gets[g].pending \ {n}]
<1>1. gets[g] \in GetRec
  BY CausalParts, TypeParts
<1>2. gets' = [gets EXCEPT ![g] = r]
  BY DEF ReadFails
<1>3. r.win = gets[g].win /\ r.results = gets[g].results
  BY <1>1 DEF GetRec
<1> HIDE DEF r
<1>4. \A h \in GetIds : /\ gets'[h].win \subseteq Issued
                        /\ \A x \in gets'[h].results : x.ver \subseteq Issued
  BY <1>2, <1>3, CausalParts, OneGetKept
<1> QED
  BY <1>4, PutsAlone, StoresAlone DEF ReadFails, StoresKept

(* The winner of a read, which FinishGet hands to the client and to read   *)
(* repair, is a version one of the replicas stored.                        *)
LEMMA KeptFinishGet ==
  ASSUME CausalInv, NEW g \in GetIds, NEW f \in Arrivals(g), FinishGet(g, f)
  PROVE  PutsKept /\ StoresKept
<1> DEFINE at == gets[g].at
           found == {i \in DOMAIN f : f[i].ver # {}}
           vs == [i \in found |-> CHOOSE v \in f[i].ver : TRUE]
           stale(win) == {r.node : r \in {x \in gets[g].results :
                            \A v \in x.ver : Compare(v.clk, win.clk) # "EQUAL"}}
<1>1. gets[g] \in GetRec /\ at \in Node /\ kv \in [Node -> SUBSET Version]
  BY CausalParts, TypeParts, GetFields
<1>2. UNCHANGED <<hints, puts>>
  BY DEF FinishGet
<1>3. ASSUME UNCHANGED <<kv, rpcs>>, NEW pc, gets' = [gets EXCEPT ![g].pc = pc]
      PROVE  StoresKept
  <2> DEFINE r == [gets[g] EXCEPT !.pc = pc]
  <2>1. gets' = [gets EXCEPT ![g] = r]
    BY <1>3
  <2>2. r.win = gets[g].win /\ r.results = gets[g].results
    BY <1>1 DEF GetRec
  <2> HIDE DEF r
  <2>3. \A h \in GetIds : /\ gets'[h].win \subseteq Issued
                          /\ \A x \in gets'[h].results : x.ver \subseteq Issued
    BY <2>1, <2>2, CausalParts, OneGetKept
  <2> QED
    BY <1>2, <1>3, <2>3, StoresAlone DEF StoresKept
<1>4. ASSUME NEW win \in ResolveGetResult(vs),
             gets' = [gets EXCEPT ![g] = [gets[g] EXCEPT !.pc = "ok", !.results = {}, !.win = {win}]],
             kv' = [kv EXCEPT ![at] = IF at \in stale(win)
                                      THEN StoreReplicated(kv[at], win) ELSE kv[at]],
             rpcs' = rpcs \cup {Call("repair", g, at, n, win, n, FALSE, {}) :
                                  n \in stale(win) \ {at}}
      PROVE  StoresKept
  <2>1. win \in Issued
    BY WinnerIsAReply, CausalParts
  <2> DEFINE r == [gets[g] EXCEPT !.pc = "ok", !.results = {}, !.win = {win}]
  <2> HIDE DEF vs, stale
  <2>2. r.win = {win} /\ r.results = {}
    BY <1>1 DEF GetRec
  <2>3. gets' = [gets EXCEPT ![g] = r]
    BY <1>4
  <2> HIDE DEF r
  <2>4. \A h \in GetIds : /\ gets'[h].win \subseteq Issued
                          /\ \A x \in gets'[h].results : x.ver \subseteq Issued
    BY <2>1, <2>2, <2>3, OneGetKept
  <2>5. StoreReplicated(kv[at], win) \subseteq Issued
    BY <1>1, <2>1, CausalParts, StoreReplicatedIssued
  <2>6. \A n \in Node : kv'[n] \subseteq Issued
    BY <1>1, <1>4, <2>5, CausalParts
  <2>7. \A n : Call("repair", g, at, n, win, n, FALSE, {}).ver = win
    BY DEF Call
  <2>8. ASSUME NEW m \in rpcs' PROVE m.ver \in Issued
    <3>1. CASE m \in rpcs
      BY <3>1, CausalParts
    <3>2. CASE \E n \in stale(win) \ {at} : m = Call("repair", g, at, n, win, n, FALSE, {})
      BY <2>1, <2>7, <3>2
    <3> QED
      BY <1>4, <3>1, <3>2
  <2> QED
    BY <1>2, <2>4, <2>6, <2>8, StoresAlone DEF StoresKept
<1>5. StoresKept
  BY <1>3, <1>4 DEF FinishGet
<1> QED
  BY <1>2, <1>5, PutsAlone

LEMMA KeptDeliverHints ==
  ASSUME CausalInv, NEW n \in Node, NEW t \in Node, DeliverHints(n, t)
  PROVE  PutsKept /\ StoresKept
<1>1. \A v \in hints[n][t] : v \in Issued /\ Call("hint", v.id, n, t, v, t, FALSE, {}).ver = v
  BY CausalParts DEF Call
<1>2. ASSUME NEW m \in rpcs' PROVE m.ver \in Issued
  <2>1. CASE m \in rpcs
    BY <2>1, CausalParts
  <2>2. CASE \E v \in hints[n][t] : m = Call("hint", v.id, n, t, v, t, FALSE, {})
    BY <1>1, <2>2
  <2> QED
    BY <2>1, <2>2 DEF DeliverHints
<1> QED
  BY <1>2, PutsAlone, StoresAlone DEF DeliverHints, StoresKept

LEMMA KeptCrash == ASSUME CausalInv, NEW n \in Node, Crash(n) PROVE PutsKept /\ StoresKept
<1>1. \A x \in Node : kv'[x] \subseteq Issued
  BY CausalParts, TypeParts DEF Crash
<1>2. \A x, y \in Node : hints'[x][y] \subseteq Issued
  <2>1. hints' = [hints EXCEPT ![n] = [t \in Node |-> {}]]
    BY DEF Crash
  <2>2. hints \in [Node -> [Node -> SUBSET Version]]
    BY CausalParts, TypeParts
  <2>3. hints'[n] = [t \in Node |-> {}] /\ \A x \in Node \ {n} : hints'[x] = hints[x]
    BY <2>1, <2>2
  <2> QED
    BY <2>3, CausalParts
<1>3. \A m \in rpcs' : m.ver \in Issued
  <2>1. \A m \in rpcs : m \in RpcRec
    BY CausalParts, RpcFields
  <2>2. \A m \in rpcs : [m EXCEPT !.kind = "orphan"].ver = m.ver
    BY <2>1 DEF RpcRec
  <2>3. \A m \in rpcs : [m EXCEPT !.st = "broken"].ver = m.ver
    BY <2>1 DEF RpcRec
  <2>4. \A m \in rpcs' : \E x \in rpcs : \/ m = x \/ m = [x EXCEPT !.kind = "orphan"]
                                        \/ m = [x EXCEPT !.st = "broken"]
    BY DEF Crash, Severed
  <2>5. ASSUME NEW m \in rpcs' PROVE m.ver \in Issued
    <3>1. PICK x \in rpcs : \/ m = x \/ m = [x EXCEPT !.kind = "orphan"]
                            \/ m = [x EXCEPT !.st = "broken"]
      BY <2>4
    <3>2. m.ver = x.ver
      BY <2>2, <2>3, <3>1
    <3> QED
      BY <3>2, CausalParts
  <2> QED
    BY <2>5
<1>4. \A g \in GetIds : /\ gets'[g].win \subseteq Issued
                        /\ \A x \in gets'[g].results : x.ver \subseteq Issued
  <2> SUFFICES ASSUME NEW g \in GetIds
               PROVE  gets'[g].win = gets[g].win /\ gets'[g].results = gets[g].results
    BY CausalParts
  <2>1. gets[g] \in GetRec
    BY CausalParts, TypeParts
  <2>2. gets'[g] = gets[g] \/ gets'[g] = [gets[g] EXCEPT !.pc = "dead"]
    BY DEF Crash
  <2> QED
    BY <2>1, <2>2 DEF GetRec
<1>5. PutsKept
  <2>1. ASSUME NEW p \in PutIds
        PROVE  /\ puts'[p].ver = puts[p].ver /\ puts'[p].past = puts[p].past
               /\ puts'[p].ctx = puts[p].ctx
               /\ puts'[p].pc \in Early => puts'[p].pc = puts[p].pc
    <3>1. puts[p] \in PutRec
      BY CausalParts, TypeParts
    <3>2. puts'[p] = puts[p] \/ puts'[p] = [puts[p] EXCEPT !.pc = "dead"]
      BY DEF Crash
    <3> QED
      BY <3>1, <3>2 DEF PutRec, Early
  <2>2. \A p \in PutIds : puts[p].ver \subseteq Issued
    BY DEF Issued
  <2> QED
    BY <2>1, <2>2, CausalParts DEF PutsKept
<1> QED
  BY <1>1, <1>2, <1>3, <1>4, <1>5 DEF StoresKept

(* Steps that move no version.                                             *)
LEMMA KeptOther ==
  ASSUME CausalInv, UNCHANGED <<kv, hints, puts, gets, rpcs>> PROVE PutsKept /\ StoresKept
BY PutsAlone, StoresAlone DEF StoresKept

-----------------------------------------------------------------------------
(* PutCommit issues a version, above the client's context and the          *)
(* coordinator's copy, and so above everything they descend from.          *)

CommitVer(p, e, ts) ==
  [id |-> p, clk |-> BuildNewClock(puts[p].ctx, OwnCopy(p, e), puts[p].at),
   ts |-> ts, wr |-> puts[p].at]

LEMMA CommitFacts ==
  ASSUME CausalInv, NEW p \in PutIds, NEW e, NEW ts \in Times, PutCommit(p, e, ts)
  PROVE  LET ver == CommitVer(p, e, ts)
             sources == puts[p].ctx \cup OwnCopy(p, e)
         IN  /\ ver \in Version /\ ver.id = p /\ sources \subseteq Issued
             /\ \A v \in sources : Below(v.clk, ver.clk)
             /\ puts[p].ver = {}
             /\ puts'[p].ver = {ver} /\ puts'[p].pc = "fanout" /\ puts'[p].ctx = {}
             /\ puts'[p].past = UNION {{v.id} \cup puts[v.id].past : v \in sources}
             /\ \A q \in PutIds \ {p} : puts'[q] = puts[q]
             /\ Issued' = Issued \cup {ver}
<1> DEFINE n == puts[p].at
           local == OwnCopy(p, e)
           ver == CommitVer(p, e, ts)
           sources == puts[p].ctx \cup local
           past == UNION {{v.id} \cup puts[v.id].past : v \in sources}
           r == [puts[p] EXCEPT !.pc = "fanout", !.pref = {}, !.ctx = {}, !.ver = {ver},
                                !.acks = 1, !.ackers = {n}, !.owners = IF e.hint = {} THEN {n} ELSE {},
                                !.past = past]
<1>1. /\ puts \in [PutIds -> PutRec] /\ puts[p] \in PutRec /\ n \in Node
      /\ puts[p].ctx \in SUBSET Version /\ AtMostOne(puts[p].ctx) /\ puts[p].ctx \subseteq Issued
  BY CausalParts, TypeParts, PutFields
<1>2. local \in SUBSET Version /\ AtMostOne(local) /\ local \subseteq Issued
  BY <1>1, CausalParts, TypeParts DEF AtMostOne, OwnCopy
<1>3. ver \in Version
  BY <1>2, CausalParts, CommitVersion DEF CommitVer
<1>4. ver.id = p /\ ver.clk = BuildNewClock(puts[p].ctx, local, n)
  BY DEF CommitVer
<1>5. \A v \in sources : Below(v.clk, ver.clk)
  BY <1>1, <1>2, <1>4, BuildAbove
<1>6. puts[p].ver = {}
  BY CausalParts DEF PutCommit, Early
<1>7. puts' = [puts EXCEPT ![p] = r]
  BY DEF PutCommit, CommitVer
<1> HIDE DEF local, ver, past
<1>8. r.ver = {ver} /\ r.pc = "fanout" /\ r.ctx = {} /\ r.past = past
  BY <1>1 DEF PutRec
<1> HIDE DEF r
<1>9. puts'[p] = r /\ \A q \in PutIds \ {p} : puts'[q] = puts[q]
  BY <1>1, <1>7
<1>10. Issued' = Issued \cup {ver}
  BY <1>6, <1>8, <1>9 DEF Issued
<1> QED
  BY <1>1, <1>2, <1>3, <1>4, <1>5, <1>6, <1>8, <1>9, <1>10 DEF local, ver, past

LEMMA CausalPutCommit ==
  ASSUME CausalInv, TypeOK', NEW p \in PutIds, NEW e, NEW ts \in Times, PutCommit(p, e, ts)
  PROVE  CausalInv'
<1> DEFINE ver == CommitVer(p, e, ts)
           sources == puts[p].ctx \cup OwnCopy(p, e)
<1>1. /\ ver \in Version /\ ver.id = p /\ sources \subseteq Issued
      /\ \A v \in sources : Below(v.clk, ver.clk)
      /\ puts[p].ver = {}
      /\ puts'[p].ver = {ver} /\ puts'[p].pc = "fanout" /\ puts'[p].ctx = {}
      /\ puts'[p].past = UNION {{v.id} \cup puts[v.id].past : v \in sources}
      /\ \A q \in PutIds \ {p} : puts'[q] = puts[q]
      /\ Issued' = Issued \cup {ver}
  BY CommitFacts
<1>2. \A v \in Issued : /\ v \in Version /\ v.id \in PutIds \ {p}
                        /\ puts[v.id].ver = {v} /\ puts'[v.id] = puts[v.id]
  BY <1>1, IssuedIsItsPut
<1> HIDE DEF ver, sources
<1>3. EarlyHasNone' /\ ContextIssued'
  BY <1>1, CausalParts DEF EarlyHasNone, ContextIssued, Early, AtMostOne
<1>4. Identity'
  <2> SUFFICES ASSUME NEW q \in PutIds, NEW v \in puts'[q].ver PROVE puts'[v.id].ver = {v}
    BY DEF Identity
  <2>1. CASE q = p
    BY <1>1, <2>1
  <2>2. CASE q # p
    <3>1. v \in puts[q].ver
      BY <1>1, <2>2
    <3>2. v \in Issued
      BY <3>1 DEF Issued
    <3> QED
      BY <1>2, <3>2
  <2> QED
    BY <2>1, <2>2
<1>5. PastBelow'
  <2> SUFFICES ASSUME NEW w \in Issued', NEW i \in puts'[w.id].past
               PROVE  \E v \in Issued' : v.id = i /\ Below(v.clk, w.clk)
    BY DEF PastBelow, Past
  <2>1. CASE w \in Issued
    BY <1>1, <1>2, <2>1, CausalParts DEF Past
  <2>2. CASE w = ver
    <3>1. PICK s \in sources : i = s.id \/ i \in puts[s.id].past
      BY <1>1, <2>2
    <3>2. s \in Issued /\ Below(s.clk, ver.clk)
      BY <1>1
    <3>3. CASE i = s.id
      BY <1>1, <2>2, <3>2, <3>3
    <3>4. CASE i \in puts[s.id].past
      <4>1. PICK v \in Issued : v.id = i /\ Below(v.clk, s.clk)
        BY <3>2, <3>4, CausalParts DEF Past
      <4>2. v.clk \in Clock /\ s.clk \in Clock /\ ver.clk \in Clock
        BY <1>1, <1>2, <3>2 DEF Version
      <4>3. Below(v.clk, ver.clk)
        BY <3>2, <4>1, <4>2, BelowTransitive
      <4> QED
        BY <1>1, <2>2, <4>1, <4>3
    <3> QED
      BY <3>1, <3>3, <3>4
  <2> QED
    BY <1>1, <2>1, <2>2
<1>6. KvIssued'
  <2>1. \A n \in Node : kv'[n] = kv[n] \/ kv'[n] = {ver}
    BY CausalParts, TypeParts DEF PutCommit, ver, CommitVer
  <2> QED
    BY <1>1, <2>1, CausalParts DEF KvIssued
<1>7. HintsIssued'
  <2>1. \A n, t \in Node : hints'[n][t] = hints[n][t] \/ hints'[n][t] = {ver}
    BY CausalParts, TypeParts DEF PutCommit, ver, CommitVer
  <2> QED
    BY <1>1, <2>1, CausalParts DEF HintsIssued
<1>8. RpcsIssued'
  <2>1. \A m \in rpcs' : m \in rpcs \/ m.ver = ver
    BY DEF PutCommit, Call, ver, CommitVer
  <2> QED
    BY <1>1, <2>1, CausalParts DEF RpcsIssued
<1>9. GetsIssued'
  BY <1>1, CausalParts DEF PutCommit, GetsIssued
<1> QED
  BY <1>3, <1>4, <1>5, <1>6, <1>7, <1>8, <1>9 DEF CausalInv

-----------------------------------------------------------------------------
LEMMA KeptPutStep ==
  ASSUME CausalInv, NEW p \in PutIds, PutStep(p)
  PROVE  \/ PutsKept /\ StoresKept
         \/ \E e \in puts[p].pref, ts \in Times : PutCommit(p, e, ts)
<1>1. \A n \in PutContacts : n \in Node
  BY BoundAssumption
<1>2. \A t \in puts[p].untried : t \in Node
  BY CausalParts, PutFields
<1>3. \A q \in puts[p].child : q \in PutIds
  BY CausalParts, TypeParts DEF PutRec
<1> QED
  BY <1>1, <1>2, <1>3, KeptClientPut, KeptSnapshotPut, KeptRoutePut, KeptPutJoin, KeptForwardSend,
     KeptForwardFails, KeptForwardBreaks, KeptForwardRelay, KeptForwardExhausted
  DEF PutStep

LEMMA KeptGetStep ==
  ASSUME CausalInv, NEW g \in GetIds, GetStep(g) PROVE PutsKept /\ StoresKept
BY KeptClientGet, KeptSnapshotGet, KeptRouteGet, KeptReadReplica, KeptReadFails, KeptFinishGet
DEF GetStep

LEMMA KeptRpcStep ==
  ASSUME CausalInv, NEW m \in rpcs, RpcStep(m) PROVE PutsKept /\ StoresKept
BY KeptRefuseWrite, KeptStoreWrite, KeptMarkHint, KeptStoreHint, KeptPutAck, KeptPutCallFails,
   KeptSnapshotTask, KeptSubstitute, KeptCallOver, KeptHintDelivered
DEF RpcStep

LEMMA KeptNodeStep ==
  ASSUME CausalInv, NEW n \in Node, NodeStep(n) PROVE PutsKept /\ StoresKept
<1>1. ASSUME NEW t \in Node, \/ PingOk(n, t) \/ MarkReachable(n, t) \/ GossipFails(n, t)
                            \/ Bootstrap(n, t) \/ BootstrapFails(n, t)
      PROVE  PutsKept /\ StoresKept
  BY <1>1, KeptOther DEF PingOk, MarkReachable, GossipFails, Bootstrap, BootstrapFails
<1>2. ASSUME NEW view, ChangeRing(n, view) PROVE PutsKept /\ StoresKept
  BY <1>2, KeptOther DEF ChangeRing
<1>3. ASSUME Restart(n) PROVE PutsKept /\ StoresKept
  BY <1>3, KeptOther DEF Restart
<1> QED
  BY <1>1, <1>2, <1>3, KeptDeliverHints, KeptCrash DEF NodeStep

LEMMA CausalInit == Init => CausalInv
<1> SUFFICES ASSUME Init PROVE CausalInv
  OBVIOUS
<1>1. TypeOK
  BY TypeInit
<1>2. \A p \in PutIds : puts[p].ver = {} /\ puts[p].ctx = {}
  BY DEF Init, NewPut
<1>3. Issued = {}
  BY <1>2 DEF Issued
<1>4. \A g \in GetIds : gets[g].win = {} /\ gets[g].results = {}
  BY DEF Init, NewGet
<1> QED
  BY <1>1, <1>2, <1>3, <1>4
  DEF Init, CausalInv, EarlyHasNone, Identity, PastBelow, ContextIssued, KvIssued, HintsIssued,
      RpcsIssued, GetsIssued, AtMostOne

LEMMA CausalNext == CausalInv /\ [Next]_vars => CausalInv'
<1> SUFFICES ASSUME CausalInv, [Next]_vars PROVE CausalInv'
  OBVIOUS
<1>1. TypeOK'
  <2>1. TypeOK
    BY CausalParts
  <2>2. CASE Next
    BY <2>1, <2>2, TypePutStep, TypeGetStep, TypeRpcStep, TypeNodeStep DEF Next
  <2>3. CASE UNCHANGED vars
    BY <2>1, <2>3 DEF vars, TypeOK
  <2> QED
    BY <2>2, <2>3
<1>2. CASE PutsKept /\ StoresKept
  BY <1>1, <1>2, KeptIsCausal
<1>3. CASE \E p \in PutIds : \E e \in puts[p].pref, ts \in Times : PutCommit(p, e, ts)
  BY <1>1, <1>3, CausalPutCommit
<1>4. CASE UNCHANGED vars
  BY <1>2, <1>4, KeptOther DEF vars
<1> QED
  BY <1>2, <1>3, <1>4, KeptPutStep, KeptGetStep, KeptRpcStep, KeptNodeStep DEF Next

(* The inductive invariant holds in every reachable state.                 *)
THEOREM CausalInvariant == Spec => []CausalInv
<1>1. Init => CausalInv
  BY CausalInit
<1>2. CausalInv /\ [Next]_vars => CausalInv'
  BY CausalNext
<1> QED
  BY <1>1, <1>2, PTL DEF Spec

(* A version that a later one descends from, through the client's context  *)
(* or the coordinator's own copy, compares DOMINATED.                      *)
THEOREM CausalityKept == Spec => []CausalPastDominated
<1>1. CausalInv => CausalPastDominated
  <2> SUFFICES ASSUME CausalInv, NEW v \in Issued, NEW w \in Issued, v.id \in Past(w)
               PROVE  Compare(v.clk, w.clk) = "DOMINATED"
    BY DEF CausalPastDominated
  <2>1. PICK u \in Issued : u.id = v.id /\ Below(u.clk, w.clk)
    BY CausalParts
  <2>2. u = v
    BY <2>1, IssuedIsItsPut
  <2>3. v.clk \in Clock /\ w.clk \in Clock
    BY IssuedIsItsPut DEF Version
  <2> QED
    BY <2>1, <2>2, <2>3, DominatedIsBelow
<1> QED
  BY <1>1, CausalInvariant, PTL

-----------------------------------------------------------------------------
(* What takes a slot over is not older than what was there: nothing that   *)
(* the clock check lets through is among the held version's ancestors.     *)

SlotForward(held, next) ==
  next \subseteq held \/ \A w \in next : w \in Issued /\ \A v \in held : ~Below(w.clk, v.clk)

LEMMA ForwardIsAStep ==
  ASSUME CausalInv, NEW held \in SUBSET Issued, AtMostOne(held), NEW next, SlotForward(held, next)
  PROVE  StepsForward(held, next)
<1> SUFFICES ASSUME NEW v \in held, NEW w \in next, v # w, w.id \in Past(v) PROVE FALSE
  BY DEF StepsForward
<1>1. w \notin held
  BY DEF AtMostOne
<1>2. w \in Issued /\ ~Below(w.clk, v.clk)
  BY <1>1 DEF SlotForward
<1>3. PICK u \in Issued : u.id = w.id /\ Below(u.clk, v.clk)
  BY CausalParts
<1>4. u = w
  BY <1>2, <1>3, IssuedIsItsPut
<1> QED
  BY <1>2, <1>3, <1>4

LEMMA StoreReplicatedForward ==
  ASSUME NEW held \in SUBSET Version, AtMostOne(held), NEW v \in Version, v \in Issued
  PROVE  SlotForward(held, StoreReplicated(held, v))
BY StoreReplicatedKeeps DEF SlotForward

SlotsForward ==
  /\ \A n \in Node : SlotForward(kv[n], kv'[n])
  /\ \A n, t \in Node : SlotForward(hints[n][t], hints'[n][t])

LEMMA SlotsAlone ==
  /\ UNCHANGED kv => \A n \in Node : SlotForward(kv[n], kv'[n])
  /\ UNCHANGED hints => \A n, t \in Node : SlotForward(hints[n][t], hints'[n][t])
BY DEF SlotForward

LEMMA ForwardStoreWrite ==
  ASSUME CausalInv, NEW m \in rpcs, StoreWrite(m) PROVE SlotsForward
<1>1. /\ kv \in [Node -> SUBSET Version] /\ m.to \in Node /\ m.ver \in Version
      /\ m.ver \in Issued /\ AtMostOne(kv[m.to])
      /\ kv' = [kv EXCEPT ![m.to] = StoreReplicated(kv[m.to], m.ver)]
  BY CausalParts, TypeParts, RpcFields DEF StoreWrite
<1>2. SlotForward(kv[m.to], StoreReplicated(kv[m.to], m.ver))
  BY <1>1, StoreReplicatedForward
<1>3. \A n \in Node : SlotForward(kv[n], kv'[n])
  BY <1>1, <1>2 DEF SlotForward
<1> QED
  BY <1>3, SlotsAlone DEF StoreWrite, SlotsForward

\* An action on one hint slot.
LEMMA OneHintForward ==
  ASSUME CausalInv, NEW n \in Node, NEW t \in Node, NEW S, SlotForward(hints[n][t], S),
         hints' = [hints EXCEPT ![n][t] = S]
  PROVE  \A x, y \in Node : SlotForward(hints[x][y], hints'[x][y])
<1>1. hints \in [Node -> [Node -> SUBSET Version]]
  BY CausalParts, TypeParts
<1>2. hints'[n][t] = S
  BY <1>1
<1>3. \A x, y \in Node : x # n \/ y # t => hints'[x][y] = hints[x][y]
  BY <1>1
<1> QED
  BY <1>2, <1>3 DEF SlotForward

LEMMA ForwardStoreHint ==
  ASSUME CausalInv, NEW m \in rpcs, StoreHint(m) PROVE SlotsForward
<1> DEFINE S == StoreReplicated(hints[m.to][m.owner], m.ver)
<1>1. /\ hints \in [Node -> [Node -> SUBSET Version]] /\ m.to \in Node /\ m.owner \in Node
      /\ m.ver \in Version /\ m.ver \in Issued /\ AtMostOne(hints[m.to][m.owner])
  BY CausalParts, TypeParts, RpcFields
<1>2. SlotForward(hints[m.to][m.owner], S)
  BY <1>1, StoreReplicatedForward
<1>3. hints' = [hints EXCEPT ![m.to][m.owner] = S] /\ UNCHANGED kv
  BY DEF StoreHint
<1> HIDE DEF S
<1> QED
  BY <1>1, <1>2, <1>3, OneHintForward, SlotsAlone DEF SlotsForward

LEMMA ForwardHintDelivered ==
  ASSUME CausalInv, NEW m \in rpcs, HintDelivered(m) PROVE SlotsForward
<1> DEFINE S == {h \in hints[m.from][m.to] : Compare(h.clk, m.ver.clk) # "EQUAL"}
<1>1. m.from \in Node /\ m.to \in Node
  BY CausalParts, RpcFields
<1>2. SlotForward(hints[m.from][m.to], S)
  BY DEF SlotForward
<1>3. hints' = [hints EXCEPT ![m.from][m.to] = S] /\ UNCHANGED kv
  BY DEF HintDelivered
<1> HIDE DEF S
<1> QED
  BY <1>1, <1>2, <1>3, OneHintForward, SlotsAlone DEF SlotsForward

LEMMA ForwardFinishGet ==
  ASSUME CausalInv, NEW g \in GetIds, NEW f \in Arrivals(g), FinishGet(g, f) PROVE SlotsForward
<1> DEFINE at == gets[g].at
           found == {i \in DOMAIN f : f[i].ver # {}}
           vs == [i \in found |-> CHOOSE v \in f[i].ver : TRUE]
           stale(win) == {r.node : r \in {x \in gets[g].results :
                            \A v \in x.ver : Compare(v.clk, win.clk) # "EQUAL"}}
<1>1. at \in Node /\ kv \in [Node -> SUBSET Version] /\ AtMostOne(kv[at])
  BY CausalParts, TypeParts, GetFields
<1>2. UNCHANGED hints
  BY DEF FinishGet
<1>3. ASSUME NEW win \in ResolveGetResult(vs) PROVE win \in Issued /\ win \in Version
  <2>1. win \in Issued
    BY WinnerIsAReply, CausalParts
  <2> QED
    BY <2>1, IssuedIsItsPut
<1>4. \/ UNCHANGED kv
      \/ \E win \in ResolveGetResult(vs) :
           kv' = [kv EXCEPT ![at] = IF at \in stale(win) THEN StoreReplicated(kv[at], win)
                                                       ELSE kv[at]]
  BY DEF FinishGet
<1> HIDE DEF at, vs, stale
<1>5. ASSUME NEW win \in ResolveGetResult(vs), NEW S, S = kv[at] \/ S = StoreReplicated(kv[at], win),
             kv' = [kv EXCEPT ![at] = S]
      PROVE  \A n \in Node : SlotForward(kv[n], kv'[n])
  <2>1. SlotForward(kv[at], S)
    BY <1>1, <1>3, <1>5, StoreReplicatedForward DEF SlotForward
  <2> QED
    BY <1>1, <1>5, <2>1 DEF SlotForward
<1>6. \A n \in Node : SlotForward(kv[n], kv'[n])
  BY <1>4, <1>5, SlotsAlone
<1> QED
  BY <1>2, <1>6, SlotsAlone DEF SlotsForward

LEMMA ForwardCrash == ASSUME CausalInv, NEW n \in Node, Crash(n) PROVE SlotsForward
<1>1. kv \in [Node -> SUBSET Version] /\ hints \in [Node -> [Node -> SUBSET Version]]
  BY CausalParts, TypeParts
<1>2. kv' = [kv EXCEPT ![n] = {}] /\ hints' = [hints EXCEPT ![n] = [t \in Node |-> {}]]
  BY DEF Crash
<1>3. \A x \in Node : kv'[x] \subseteq kv[x]
  BY <1>1, <1>2
<1>4. \A x, t \in Node : hints'[x][t] \subseteq hints[x][t]
  BY <1>1, <1>2
<1> QED
  BY <1>3, <1>4 DEF SlotsForward, SlotForward

LEMMA ForwardPutCommit ==
  ASSUME CausalInv, NEW p \in PutIds, NEW e, NEW ts \in Times, PutCommit(p, e, ts)
  PROVE  /\ \A n \in Node : StepsForward(kv[n], kv'[n])
         /\ \A n, t \in Node : StepsForward(hints[n][t], hints'[n][t])
<1> DEFINE ver == CommitVer(p, e, ts)
<1>1. ver.id = p /\ puts[p].ver = {}
  BY CommitFacts
<1>2. ASSUME NEW v \in Issued PROVE p \notin Past(v)
  <2> SUFFICES ASSUME p \in Past(v) PROVE FALSE
    OBVIOUS
  <2>1. PICK u \in Issued : u.id = p
    BY CausalParts
  <2> QED
    BY <1>1, <2>1, IssuedIsItsPut
<1>3. /\ \A n \in Node : kv'[n] = kv[n] \/ kv'[n] = {ver}
      /\ \A n, t \in Node : hints'[n][t] = hints[n][t] \/ hints'[n][t] = {ver}
  BY CausalParts, TypeParts DEF PutCommit, CommitVer
<1>4. \A held, next : held \subseteq Issued /\ AtMostOne(held) /\ (next = held \/ next = {ver})
                      => StepsForward(held, next)
  BY <1>1, <1>2 DEF StepsForward, AtMostOne
<1>5. /\ \A n \in Node : kv[n] \subseteq Issued /\ AtMostOne(kv[n])
      /\ \A n, t \in Node : hints[n][t] \subseteq Issued /\ AtMostOne(hints[n][t])
  BY CausalParts, TypeParts
<1> HIDE DEF ver
<1> QED
  BY <1>3, <1>4, <1>5

\* The other actions leave the stores and the hints alone.
LEMMA ForwardPutStep ==
  ASSUME NEW p \in PutIds, PutStep(p)
  PROVE  UNCHANGED <<kv, hints>> \/ \E e \in puts[p].pref, ts \in Times : PutCommit(p, e, ts)
BY DEF PutStep, ClientPut, SnapshotPut, RoutePut, PutJoin, ForwardExhausted, ForwardFails, ForwardSend,
       ForwardBreaks, ForwardRelay, node

LEMMA ForwardGetStep ==
  ASSUME NEW g \in GetIds, GetStep(g)
  PROVE  UNCHANGED <<kv, hints>> \/ \E f \in Arrivals(g) : FinishGet(g, f)
BY DEF GetStep, ClientGet, SnapshotGet, RouteGet, ReadReplica, ReadFails, node

LEMMA ForwardRpcStep ==
  ASSUME NEW m \in rpcs, RpcStep(m)
  PROVE  UNCHANGED <<kv, hints>> \/ StoreWrite(m) \/ StoreHint(m) \/ HintDelivered(m)
BY DEF RpcStep, RefuseWrite, MarkHint, PutAck, PutCallFails, SnapshotTask, Substitute, RepairDone,
       BackgroundCallFails, HintRefused, node

LEMMA ForwardNodeStep ==
  ASSUME NEW n \in Node, NodeStep(n) PROVE UNCHANGED <<kv, hints>> \/ Crash(n)
BY DEF NodeStep, PingOk, MarkReachable, DeliverHints, GossipFails, Bootstrap, BootstrapFails,
       ChangeRing, Restart

(* A replica never steps back in causality: what replaces a version, in    *)
(* the store or among the hints, is not one it descends from.              *)
THEOREM NeverStepsBack == Spec => NoStepBack
<1> DEFINE Steps == \A n \in Node : /\ StepsForward(kv[n], kv'[n])
                                    /\ \A t \in Node : StepsForward(hints[n][t], hints'[n][t])
<1>1. CausalInv /\ SlotsForward => Steps
  BY CausalParts, TypeParts, ForwardIsAStep DEF SlotsForward
<1>2. CausalInv /\ UNCHANGED <<kv, hints>> => Steps
  <2>1. UNCHANGED <<kv, hints>> => SlotsForward
    BY SlotsAlone DEF SlotsForward
  <2> HIDE DEF Steps
  <2> QED
    BY <1>1, <2>1
<1>3. CausalInv /\ (\E p \in PutIds : \E e \in puts[p].pref, ts \in Times : PutCommit(p, e, ts)) => Steps
  BY ForwardPutCommit
<1>4. CausalInv /\ [Next]_vars => [Steps]_vars
  <2> HIDE DEF Steps
  <2> SUFFICES ASSUME CausalInv, Next PROVE Steps
    OBVIOUS
  <2>1. CASE \E p \in PutIds : PutStep(p)
    BY <1>2, <1>3, <2>1, ForwardPutStep
  <2>2. CASE \E g \in GetIds : GetStep(g)
    BY <1>1, <1>2, <2>2, ForwardGetStep, ForwardFinishGet
  <2>3. CASE \E m \in rpcs : RpcStep(m)
    BY <1>1, <1>2, <2>3, ForwardRpcStep, ForwardStoreWrite, ForwardStoreHint, ForwardHintDelivered
  <2>4. CASE \E n \in Node : NodeStep(n)
    BY <1>1, <1>2, <2>4, ForwardNodeStep, ForwardCrash
  <2> QED
    BY <2>1, <2>2, <2>3, <2>4 DEF Next
<1>5. Spec => [][Steps]_vars
  BY <1>4, CausalInvariant, PTL DEF Spec
<1> QED
  BY <1>5 DEF NoStepBack

-----------------------------------------------------------------------------
(* What takes a store slot over supersedes what was there.                 *)

Supersedes(held, next) ==
  \A v \in held, w \in next \ held :
    Compare(v.clk, w.clk) \in IF w \in Issued THEN {"DOMINATED", "CONCURRENT"} ELSE {"DOMINATED"}

SlotsSupersede == \A n \in Node : Supersedes(kv[n], kv'[n])

LEMMA StoreReplicatedSupersedes ==
  ASSUME NEW held, NEW v \in Issued PROVE Supersedes(held, StoreReplicated(held, v))
BY DEF Supersedes, StoreReplicated, Replaces

\* An action on one store slot.
LEMMA OneSlotSupersedes ==
  ASSUME CausalInv, NEW n \in Node, NEW S, Supersedes(kv[n], S), kv' = [kv EXCEPT ![n] = S]
  PROVE  SlotsSupersede
<1>1. kv \in [Node -> SUBSET Version]
  BY CausalParts, TypeParts
<1>2. kv'[n] = S /\ \A x \in Node : x # n => kv'[x] = kv[x]
  BY <1>1
<1> QED
  BY <1>2 DEF SlotsSupersede, Supersedes

LEMMA StoreWriteSupersedes ==
  ASSUME CausalInv, NEW m \in rpcs, StoreWrite(m) PROVE SlotsSupersede
<1>1. m.to \in Node /\ m.ver \in Issued
  BY CausalParts, RpcFields
<1>2. kv' = [kv EXCEPT ![m.to] = StoreReplicated(kv[m.to], m.ver)]
  BY DEF StoreWrite
<1> QED
  BY <1>1, <1>2, StoreReplicatedSupersedes, OneSlotSupersedes

LEMMA FinishGetSupersedes ==
  ASSUME CausalInv, NEW g \in GetIds, NEW f \in Arrivals(g), FinishGet(g, f) PROVE SlotsSupersede
<1> DEFINE at == gets[g].at
           found == {i \in DOMAIN f : f[i].ver # {}}
           vs == [i \in found |-> CHOOSE v \in f[i].ver : TRUE]
           stale(win) == {r.node : r \in {x \in gets[g].results :
                            \A v \in x.ver : Compare(v.clk, win.clk) # "EQUAL"}}
<1>1. at \in Node
  BY CausalParts, GetFields
<1>2. ASSUME NEW win \in ResolveGetResult(vs) PROVE win \in Issued
  BY WinnerIsAReply, CausalParts
<1>3. \/ UNCHANGED kv
      \/ \E win \in ResolveGetResult(vs) :
           kv' = [kv EXCEPT ![at] = IF at \in stale(win) THEN StoreReplicated(kv[at], win)
                                                       ELSE kv[at]]
  BY DEF FinishGet
<1> HIDE DEF at, vs, stale
<1>4. ASSUME NEW win \in ResolveGetResult(vs), NEW S, S = kv[at] \/ S = StoreReplicated(kv[at], win),
             kv' = [kv EXCEPT ![at] = S]
      PROVE  SlotsSupersede
  <2>1. Supersedes(kv[at], S)
    BY <1>2, <1>4, StoreReplicatedSupersedes DEF Supersedes
  <2> QED
    BY <1>1, <1>4, <2>1, OneSlotSupersedes
<1>5. UNCHANGED kv => SlotsSupersede
  BY DEF SlotsSupersede, Supersedes
<1> QED
  BY <1>3, <1>4, <1>5

LEMMA CrashSupersedes == ASSUME CausalInv, NEW n \in Node, Crash(n) PROVE SlotsSupersede
<1>1. kv' = [kv EXCEPT ![n] = {}] /\ Supersedes(kv[n], {})
  BY DEF Crash, Supersedes
<1> QED
  BY <1>1, OneSlotSupersedes

(* The coordinator's write is built above the copy it replaces, which is   *)
(* still the one that was read.                                            *)
LEMMA PutCommitSupersedes ==
  ASSUME CausalInv, NEW p \in PutIds, NEW e, NEW ts \in Times, PutCommit(p, e, ts)
  PROVE  SlotsSupersede
<1> DEFINE n == puts[p].at
           ver == CommitVer(p, e, ts)
           S == IF e.hint = {} THEN {ver} ELSE kv[n]
<1>1. /\ ver \in Version /\ \A v \in OwnCopy(p, e) : Below(v.clk, ver.clk)
      /\ ver.id = p /\ puts[p].ver = {}
  BY CommitFacts
<1>2. ver \notin Issued
  BY <1>1, IssuedIsItsPut
<1>3. n \in Node /\ kv[n] \subseteq Version
  BY CausalParts, PutFields, TypeParts
<1>4. kv' = [kv EXCEPT ![n] = S]
  BY DEF PutCommit, CommitVer
<1>5. Supersedes(kv[n], S)
  <2> SUFFICES ASSUME e.hint = {}, NEW v \in kv[n] PROVE Compare(v.clk, ver.clk) = "DOMINATED"
    BY <1>2 DEF Supersedes
  <2>1. Below(v.clk, ver.clk)
    BY <1>1 DEF OwnCopy
  <2>2. v.clk \in Clock /\ ver.clk \in Clock
    BY <1>1, <1>3 DEF Version
  <2> QED
    BY <2>1, <2>2, DominatedIsBelow
<1> HIDE DEF S, n
<1> QED
  BY <1>3, <1>4, <1>5, OneSlotSupersedes

(* Whatever handlers run at a node, a stored version is replaced only by   *)
(* one that the clocks do not put at or below it, and a write the node     *)
(* coordinates dominates the copy it replaces.                             *)
THEOREM StoresSupersede == Spec => StoreSupersedes
<1>1. UNCHANGED <<kv, hints>> => SlotsSupersede
  BY DEF SlotsSupersede, Supersedes
<1>2. ASSUME NEW m \in rpcs, StoreHint(m) \/ HintDelivered(m) PROVE SlotsSupersede
  BY <1>2 DEF StoreHint, HintDelivered, SlotsSupersede, Supersedes
<1>3. CausalInv /\ [Next]_vars => [SlotsSupersede]_vars
  <2> SUFFICES ASSUME CausalInv, Next PROVE SlotsSupersede
    OBVIOUS
  <2>1. CASE \E p \in PutIds : PutStep(p)
    BY <1>1, <2>1, ForwardPutStep, PutCommitSupersedes
  <2>2. CASE \E g \in GetIds : GetStep(g)
    BY <1>1, <2>2, ForwardGetStep, FinishGetSupersedes
  <2>3. CASE \E m \in rpcs : RpcStep(m)
    BY <1>1, <1>2, <2>3, ForwardRpcStep, StoreWriteSupersedes
  <2>4. CASE \E n \in Node : NodeStep(n)
    BY <1>1, <2>4, ForwardNodeStep, CrashSupersedes
  <2> QED
    BY <2>1, <2>2, <2>3, <2>4 DEF Next
<1>4. Spec => [][SlotsSupersede]_vars
  BY <1>3, CausalInvariant, PTL DEF Spec
<1> QED
  BY <1>4 DEF StoreSupersedes, SlotsSupersede, Supersedes

-----------------------------------------------------------------------------
(* Where the counters of a clock come from.                                *)

\* A counter of the new clock that is not the coordinator's is one of the
\* counters that were merged.
LEMMA BuildCounters ==
  ASSUME NEW S \in SUBSET Version, NEW T \in SUBSET Version, NEW c \in Node,
         AtMostOne(S), AtMostOne(T), NEW n \in Node, n # c, BuildNewClock(S, T, c)[n] > 0
  PROVE  \E v \in S \cup T : v.clk[n] = BuildNewClock(S, T, c)[n]
<1> DEFINE a == ClockOr0(S)
           b == ClockOr0(T)
<1>1. a \in Clock /\ b \in Clock
  BY OptionalClock
<1>2. /\ S # {} => \E v \in S : v.clk = a
      /\ T # {} => \E v \in T : v.clk = b
  BY DEF ClockOr0
<1>3. (S = {} => a[n] = 0) /\ (T = {} => b[n] = 0)
  BY DEF ClockOr0, ZeroClock
<1>4. BuildNewClock(S, T, c) = [MergeClocks(a, b) EXCEPT ![c] = MergeClocks(a, b)[c] + 1]
  BY DEF BuildNewClock
<1> HIDE DEF a, b
<1>5. BuildNewClock(S, T, c)[n] = IF a[n] >= b[n] THEN a[n] ELSE b[n]
  BY <1>4 DEF MergeClocks
<1>6. a[n] \in Nat /\ b[n] \in Nat
  BY <1>1 DEF Clock
<1>7. CASE a[n] >= b[n]
  BY <1>2, <1>3, <1>5, <1>6, <1>7
<1>8. CASE ~(a[n] >= b[n])
  BY <1>2, <1>3, <1>5, <1>6, <1>8
<1> QED
  BY <1>7, <1>8

LEMMA BackedKept == ASSUME CausalInv, ClockBacked, PutsKept PROVE ClockBacked'
<1>1. Issued' = Issued
  BY IssuedKept
<1>2. \A w \in Issued : Past(w)' = Past(w)
  BY IssuedIsItsPut DEF PutsKept, Past
<1> QED
  BY <1>1, <1>2 DEF ClockBacked

LEMMA BackedPutCommit ==
  ASSUME CausalInv, ClockBacked, NEW p \in PutIds, NEW e, NEW ts \in Times, PutCommit(p, e, ts)
  PROVE  ClockBacked'
<1> DEFINE ver == CommitVer(p, e, ts)
           local == OwnCopy(p, e)
           sources == puts[p].ctx \cup local
           c == puts[p].at
<1>1. /\ ver \in Version /\ ver.id = p /\ sources \subseteq Issued
      /\ puts'[p].past = UNION {{v.id} \cup puts[v.id].past : v \in sources}
      /\ \A q \in PutIds \ {p} : puts'[q] = puts[q]
      /\ puts[p].ver = {}
      /\ Issued' = Issued \cup {ver}
  BY CommitFacts
<1>2. ver.clk = BuildNewClock(puts[p].ctx, local, c) /\ ver.wr = c
  BY DEF CommitVer
<1>3. /\ c \in Node /\ puts[p].ctx \in SUBSET Version /\ AtMostOne(puts[p].ctx)
      /\ local \in SUBSET Version /\ AtMostOne(local)
  BY CausalParts, TypeParts, PutFields DEF AtMostOne, OwnCopy
<1> HIDE DEF ver, local, c
<1>4. \A v \in Issued : v.id \in PutIds \ {p} /\ Past(v)' = Past(v)
  BY <1>1, IssuedIsItsPut DEF Past
<1> SUFFICES ASSUME NEW w \in Issued', NEW n \in Node, w.clk[n] > 0
             PROVE  \E v \in Issued' : /\ v = w \/ v.id \in Past(w)'
                                       /\ v.wr = n /\ v.clk[n] = w.clk[n]
  BY DEF ClockBacked
<1>5. CASE w \in Issued
  BY <1>1, <1>4, <1>5 DEF ClockBacked
<1>6. CASE w = ver /\ n = c
  BY <1>1, <1>2, <1>6
<1>7. CASE w = ver /\ n # c
  <2>1. PICK s \in sources : s.clk[n] = ver.clk[n]
    BY <1>2, <1>3, <1>7, BuildCounters
  <2>2. s \in Issued
    BY <1>1
  <2>3. PICK v \in Issued : (v = s \/ v.id \in Past(s)) /\ v.wr = n /\ v.clk[n] = s.clk[n]
    BY <1>7, <2>1, <2>2 DEF ClockBacked
  <2>4. v.id \in Past(w)'
    BY <1>1, <1>7, <2>3 DEF Past
  <2> QED
    BY <1>1, <1>7, <2>1, <2>3, <2>4
<1> QED
  BY <1>1, <1>5, <1>6, <1>7

(* Every counter in a clock was given to a write the version descends      *)
(* from, or to the version itself.                                         *)
THEOREM EveryCounterBacked == Spec => []ClockBacked
<1>1. Init => ClockBacked
  <2> SUFFICES ASSUME Init PROVE Issued = {}
    BY DEF ClockBacked
  <2> QED
    BY DEF Init, NewPut, Issued
<1>2. CausalInv /\ ClockBacked /\ [Next]_vars => ClockBacked'
  <2> SUFFICES ASSUME CausalInv, ClockBacked, [Next]_vars PROVE ClockBacked'
    OBVIOUS
  <2>1. CASE PutsKept
    BY <2>1, BackedKept
  <2>2. CASE \E p \in PutIds : \E e \in puts[p].pref, ts \in Times : PutCommit(p, e, ts)
    BY <2>2, BackedPutCommit
  <2>3. CASE UNCHANGED vars
    BY <2>1, <2>3, PutsAlone DEF vars
  <2> QED
    BY <2>1, <2>2, <2>3, KeptPutStep, KeptGetStep, KeptRpcStep, KeptNodeStep DEF Next
<1> QED
  BY <1>1, <1>2, CausalInvariant, PTL DEF Spec
=============================================================================
