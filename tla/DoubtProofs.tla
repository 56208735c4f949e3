----------------------------- MODULE DoubtProofs -----------------------------
(***************************************************************************)
(* A node of a driftstore cluster never takes itself for unreachable and   *)
(* never holds a hint for itself (NeverDoubtsItself), for every cluster    *)
(* whose nodes are not their own seeds, every quorum configuration and     *)
(* every value of the bounds.                                              *)
(***************************************************************************)
EXTENDS DriftStoreProofs, FiniteSetTheorems

-----------------------------------------------------------------------------
(* Preference lists.                                                       *)

\* A node has one rank among the nodes of S.
LEMMA RankTellsApart ==
  ASSUME NEW S \in SUBSET Node, NEW x \in S, NEW y \in S, Rank(S, x) = Rank(S, y)
  PROVE  x = y
<1> DEFINE before(z) == {w \in S : Pos[w] < Pos[z]}
<1>1. ASSUME NEW a \in S, NEW b \in S, Pos[a] < Pos[b]
      PROVE  Cardinality(before(a)) # Cardinality(before(b))
  <2>1. Pos \in [Node -> Nat]
    BY PosAssumption
  <2>2. before(a) \subseteq before(b)
    BY <1>1, <2>1
  <2>3. a \in before(b) /\ a \notin before(a)
    BY <1>1, <2>1
  <2>4. IsFiniteSet(before(b))
    BY NodeAssumption, FS_Subset
  <2> QED
    BY <2>2, <2>3, <2>4, FS_Subset
<1>2. Cardinality(before(x)) = Cardinality(before(y))
  BY DEF Rank
<1> HIDE DEF before
<1>3. ~(Pos[x] < Pos[y]) /\ ~(Pos[y] < Pos[x])
  BY <1>1, <1>2
<1> QED
  BY <1>3, PosAssumption

\* Nobody covers for itself, and a node is on the list once.
ListGood(list) ==
  /\ \A e \in list : e.node \notin e.hint
  /\ \A e, f \in list : e.node = f.node => e = f

\* So is every list preferenceList may return.
LEMMA ListIsGood ==
  ASSUME NEW S \in SUBSET Node, NEW bad \in SUBSET Node
  PROVE  ListGood(PreferenceList(S, bad))
<1> DEFINE natural == NaturalOwners(S, N)
           pending == natural \cap bad
           spare == (S \ natural) \ bad
           direct == [node : natural \ bad, hint : {{}}]
           cover == {e \in [node : spare, hint : {{x} : x \in pending}] :
                       \A x \in e.hint : Rank(spare, e.node) = Rank(pending, x)}
<1>1. PreferenceList(S, bad) = direct \cup cover
  BY DEF PreferenceList
<1>2. \A e \in direct : e = [node |-> e.node, hint |-> {}] /\ e.node \in natural
  OBVIOUS
<1>3. ASSUME NEW e \in cover
      PROVE  \E x \in pending : /\ e = [node |-> e.node, hint |-> {x}] /\ e.node \in spare
                                /\ Rank(spare, e.node) = Rank(pending, x)
  OBVIOUS
<1>4. pending \in SUBSET Node
  OBVIOUS
<1>5. \A x \in pending : x \in bad
  OBVIOUS
<1>6. \A x \in spare : x \notin bad /\ x \notin natural
  OBVIOUS
<1> HIDE DEF natural, pending, spare, direct, cover
<1>7. ASSUME NEW e \in direct \cup cover PROVE e.node \notin e.hint
  BY <1>2, <1>3, <1>5, <1>6
<1>8. ASSUME NEW e \in direct \cup cover, NEW f \in direct \cup cover, e.node = f.node PROVE e = f
  <2>1. CASE e \in direct /\ f \in direct
    BY <1>2, <1>8, <2>1
  <2>2. CASE e \in cover /\ f \in cover
    <3>1. PICK x \in pending : /\ e = [node |-> e.node, hint |-> {x}]
                               /\ Rank(spare, e.node) = Rank(pending, x)
      BY <1>3, <2>2
    <3>2. PICK y \in pending : /\ f = [node |-> f.node, hint |-> {y}]
                               /\ Rank(spare, f.node) = Rank(pending, y)
      BY <1>3, <2>2
    <3>3. x = y
      BY <1>4, <1>8, <3>1, <3>2, RankTellsApart
    <3> QED
      BY <1>8, <3>1, <3>2, <3>3
  <2>3. CASE (e \in direct /\ f \in cover) \/ (e \in cover /\ f \in direct)
    BY <1>2, <1>3, <1>6, <1>8, <2>3
  <2> QED
    BY <2>1, <2>2, <2>3
<1> QED
  BY <1>1, <1>7, <1>8 DEF ListGood

-----------------------------------------------------------------------------
(* The inductive invariant: calls, forwards and covers go to other nodes.  *)

Outward(m) ==
  /\ m.from # m.to
  /\ m.hinted \/ m.st = "marked" => m.to # m.owner
  /\ m.kind = "put" => m.from \in m.excluded

\* A node may only take itself for unreachable if it is its own seed.
OwnSide == \A n \in Node : (n \in unreachable[n] => n \in Seeds[n]) /\ hints[n][n] = {}

CallsOutward == \A m \in rpcs : Outward(m)

PutOutward(r) == r.at \notin r.untried /\ ListGood(r.pref)

PutsOutward ==
  \A p \in PutIds :
    /\ PutOutward(puts[p])
    /\ puts[p].pc = "waiting" =>
         \A q \in puts[p].child : puts[q].pc # "free" /\ puts[q].at # puts[p].at

DoubtInv == TypeOK /\ OwnSide /\ CallsOutward /\ PutsOutward

LEMMA DoubtParts ==
  ASSUME DoubtInv
  PROVE  /\ TypeOK /\ OwnSide /\ CallsOutward /\ PutsOutward
         /\ \A n \in Node : (n \in unreachable[n] => n \in Seeds[n]) /\ hints[n][n] = {}
         /\ \A m \in rpcs : Outward(m)
         /\ \A p \in PutIds : PutOutward(puts[p])
BY DEF DoubtInv, OwnSide, CallsOutward, PutsOutward

\* What a step leaves alone.
LEMMA CallsAlone == ASSUME CallsOutward, rpcs' \subseteq rpcs PROVE CallsOutward'
BY DEF CallsOutward

LEMMA PutsOutAlone == ASSUME PutsOutward, UNCHANGED puts PROVE PutsOutward'
BY DEF PutsOutward

LEMMA DoubtAlone ==
  ASSUME OwnSide, UNCHANGED <<unreachable, hints>> PROVE OwnSide'
BY DEF OwnSide

LEMMA MarkOther ==
  ASSUME DoubtInv, NEW n \in Node, NEW t, t # n \/ n \in Seeds[n],
         MarkUnreachable(n, t), UNCHANGED hints
  PROVE  OwnSide'
<1>1. unreachable' = [unreachable EXCEPT ![n] = unreachable[n] \cup {t}]
      /\ unreachable \in [Node -> SUBSET Node]
  BY DoubtParts, TypeParts DEF MarkUnreachable
<1>2. \A x \in Node : x \in unreachable'[x] => x \in Seeds[x]
  BY <1>1, DoubtParts
<1> QED
  BY <1>2, DoubtParts DEF OwnSide

LEMMA OneHintOther ==
  ASSUME DoubtInv, NEW n \in Node, NEW t \in Node, NEW S, t # n \/ S = {},
         hints' = [hints EXCEPT ![n][t] = S], UNCHANGED unreachable
  PROVE  OwnSide'
<1>1. hints \in [Node -> [Node -> SUBSET Version]]
  BY DoubtParts, TypeParts
<1>2. \A x \in Node : hints'[x][x] = {}
  BY <1>1, DoubtParts
<1> QED
  BY <1>2, DoubtParts DEF OwnSide

LEMMA OnePutOutward ==
  ASSUME DoubtInv, NEW p \in PutIds, NEW r, puts' = [puts EXCEPT ![p] = r],
         PutOutward(r), r.at = puts[p].at, puts[p].pc # "free" => r.pc # "free",
         r.pc = "waiting" => puts[p].pc = "waiting" /\ r.child = puts[p].child
  PROVE  PutsOutward'
<1>1. puts \in [PutIds -> PutRec]
  BY DoubtParts, TypeParts
<1>2. puts'[p] = r /\ \A q \in PutIds \ {p} : puts'[q] = puts[q]
  BY <1>1
<1>3. \A q \in PutIds : puts[q].child \subseteq PutIds
  BY <1>1 DEF PutRec
<1>4. \A q \in PutIds : /\ puts'[q].at = puts[q].at /\ PutOutward(puts'[q])
                        /\ puts[q].pc # "free" => puts'[q].pc # "free"
                        /\ puts'[q].pc = "waiting" =>
                             puts[q].pc = "waiting" /\ puts'[q].child = puts[q].child
  BY <1>2, DoubtParts
<1> QED
  BY <1>3, <1>4, DoubtParts DEF PutsOutward

-----------------------------------------------------------------------------
(* Puts.                                                                   *)

LEMMA AdmissionType == \A n : Admission(n) \in {"refused", "admitted"}
BY DEF Admission

LEMMA OutClientPut ==
  ASSUME DoubtInv, NEW p \in PutIds, NEW n, NEW ctx, ClientPut(p, n, ctx) PROVE PutsOutward'
<1> DEFINE r == NewPut(n, Admission(n), FALSE, ctx)
<1>1. /\ puts \in [PutIds -> PutRec] /\ puts[p].pc = "free"
      /\ puts' = [puts EXCEPT ![p] = r]
  BY DoubtParts, TypeParts DEF ClientPut, Fresh
<1>2. PutOutward(r) /\ r.pc \in {"refused", "admitted"}
  BY AdmissionType DEF NewPut, PutOutward, ListGood
<1> HIDE DEF r
<1>3. puts'[p] = r /\ \A q \in PutIds \ {p} : puts'[q] = puts[q]
  BY <1>1
<1>4. \A q \in PutIds : puts[q].child \subseteq PutIds
  BY <1>1 DEF PutRec
<1>5. \A q \in PutIds : PutOutward(puts'[q])
  BY <1>2, <1>3, DoubtParts
<1>6. ASSUME NEW w \in PutIds, puts'[w].pc = "waiting", NEW q \in puts'[w].child
      PROVE  puts'[q].pc # "free" /\ puts'[q].at # puts'[w].at
  <2>1. w # p /\ puts'[w] = puts[w]
    BY <1>2, <1>3, <1>6
  <2>2. q \in PutIds /\ puts[q].pc # "free" /\ puts[q].at # puts[w].at
    BY <1>4, <1>6, <2>1, DoubtParts DEF PutsOutward
  <2> QED
    BY <1>1, <1>3, <2>1, <2>2
<1> QED
  BY <1>5, <1>6 DEF PutsOutward

LEMMA OutSnapshotPut ==
  ASSUME DoubtInv, NEW p \in PutIds, SnapshotPut(p) PROVE PutsOutward'
<1> DEFINE r == [puts[p] EXCEPT !.pc = "routing", !.bad = unreachable[puts[p].at]]
<1>1. puts[p] \in PutRec /\ PutOutward(puts[p])
  BY DoubtParts, PutFields
<1>2. PutOutward(r) /\ r.at = puts[p].at /\ r.pc = "routing"
  BY <1>1 DEF PutRec, PutOutward
<1>3. puts' = [puts EXCEPT ![p] = r]
  BY DEF SnapshotPut
<1> HIDE DEF r
<1> QED
  BY <1>2, <1>3, OnePutOutward

LEMMA OutRoutePut == ASSUME DoubtInv, NEW p \in PutIds, RoutePut(p) PROVE PutsOutward'
<1> DEFINE list == PreferenceList(ring[puts[p].at], puts[p].bad)
           to == NodesOf(list)
           goes(pc) == [puts[p] EXCEPT !.pc = pc, !.bad = {}]
           a == [goes(IF Cardinality(list) < W THEN "refused" ELSE "commit") EXCEPT !.pref = list]
           b == goes("refused")
           c(s) == [goes("forward") EXCEPT !.untried = to, !.start = s]
<1>1. puts[p] \in PutRec /\ puts[p].at \in Node /\ PutOutward(puts[p])
  BY DoubtParts, PutFields
<1>2. ListGood(list)
  <2>1. ring[puts[p].at] \in SUBSET Node /\ puts[p].bad \in SUBSET Node
    BY <1>1, DoubtParts, TypeParts, PutFields
  <2> QED
    BY <2>1, ListIsGood
<1>3. /\ \/ puts' = [puts EXCEPT ![p] = a]
         \/ puts' = [puts EXCEPT ![p] = b]
         \/ puts[p].at \notin to /\ \E s \in to : puts' = [puts EXCEPT ![p] = c(s)]
  BY DEF RoutePut
<1> HIDE DEF list, to
<1>4. a.at = puts[p].at /\ a.pc \in {"refused", "commit"} /\ PutOutward(a)
  BY <1>1, <1>2 DEF PutRec, PutOutward
<1>5. b.at = puts[p].at /\ b.pc = "refused" /\ PutOutward(b)
  BY <1>1 DEF PutRec, PutOutward
<1>6. \A s : c(s).at = puts[p].at /\ c(s).pc = "forward"
              /\ (puts[p].at \notin to => PutOutward(c(s)))
  BY <1>1 DEF PutRec, PutOutward
<1> HIDE DEF a, b, c
<1> QED
  BY <1>3, <1>4, <1>5, <1>6, OnePutOutward

LEMMA OutPutJoin == ASSUME DoubtInv, NEW p \in PutIds, PutJoin(p) PROVE PutsOutward'
<1> DEFINE r == [puts[p] EXCEPT !.pc = IF puts[p].acks < W THEN "short" ELSE "ok"]
<1>1. puts[p] \in PutRec /\ PutOutward(puts[p])
  BY DoubtParts, PutFields
<1>2. PutOutward(r) /\ r.at = puts[p].at /\ r.pc \in {"short", "ok"}
  BY <1>1 DEF PutRec, PutOutward
<1>3. puts' = [puts EXCEPT ![p] = r]
  BY DEF PutJoin
<1> HIDE DEF r
<1> QED
  BY <1>2, <1>3, OnePutOutward

LEMMA OutForwardExhausted ==
  ASSUME DoubtInv, NEW p \in PutIds, ForwardExhausted(p) PROVE PutsOutward'
<1> DEFINE r == [puts[p] EXCEPT !.pc = "refused"]
<1>1. puts[p] \in PutRec /\ PutOutward(puts[p])
  BY DoubtParts, PutFields
<1>2. PutOutward(r) /\ r.at = puts[p].at /\ r.pc = "refused"
  BY <1>1 DEF PutRec, PutOutward
<1>3. puts' = [puts EXCEPT ![p] = r]
  BY DEF ForwardExhausted
<1> HIDE DEF r
<1> QED
  BY <1>2, <1>3, OnePutOutward

\* The target is one of those untried, and the node itself is not.
LEMMA OutForwardFails ==
  ASSUME DoubtInv, NEW p \in PutIds, NEW t, ForwardFails(p, t)
  PROVE  PutsOutward' /\ OwnSide'
<1> DEFINE r == [puts[p] EXCEPT !.untried = puts[p].untried \ {t}]
<1>1. puts[p] \in PutRec /\ PutOutward(puts[p]) /\ puts[p].at \in Node
  BY DoubtParts, PutFields
<1>2. PutOutward(r) /\ r.at = puts[p].at /\ r.pc = puts[p].pc
  BY <1>1 DEF PutRec, PutOutward
<1>3. puts' = [puts EXCEPT ![p] = r] /\ puts[p].pc = "forward"
  BY DEF ForwardFails
<1> HIDE DEF r
<1>4. PutsOutward'
  BY <1>2, <1>3, OnePutOutward
<1>5. t # puts[p].at
  BY <1>1, NextTargetType DEF ForwardFails, PutOutward
<1>6. MarkUnreachable(puts[p].at, t) /\ UNCHANGED hints
  BY DEF ForwardFails
<1> QED
  BY <1>1, <1>4, <1>5, <1>6, MarkOther

LEMMA OutForwardBreaks ==
  ASSUME DoubtInv, NEW p \in PutIds, NEW q, ForwardBreaks(p, q)
  PROVE  PutsOutward' /\ OwnSide'
<1> DEFINE r == [puts[p] EXCEPT !.pc = "forward", !.child = {}]
<1>1. puts[p] \in PutRec /\ PutOutward(puts[p]) /\ puts[p].at \in Node
  BY DoubtParts, PutFields
<1>2. PutOutward(r) /\ r.at = puts[p].at /\ r.pc = "forward"
  BY <1>1 DEF PutRec, PutOutward
<1>3. puts' = [puts EXCEPT ![p] = r] /\ puts[p].pc = "waiting" /\ q \in puts[p].child
  BY DEF ForwardBreaks
<1> HIDE DEF r
<1>4. PutsOutward'
  BY <1>2, <1>3, OnePutOutward
<1>5. puts[q].at # puts[p].at
  BY <1>3, DoubtParts DEF PutsOutward
<1>6. MarkUnreachable(puts[p].at, puts[q].at) /\ UNCHANGED hints
  BY DEF ForwardBreaks
<1> QED
  BY <1>1, <1>4, <1>5, <1>6, MarkOther

LEMMA OutForwardRelay ==
  ASSUME DoubtInv, NEW p \in PutIds, NEW q, ForwardRelay(p, q) PROVE PutsOutward'
<1> DEFINE r == [puts[p] EXCEPT !.pc = puts[q].pc, !.ver = puts[q].ver,
                                !.acks = puts[q].acks, !.ackers = puts[q].ackers]
<1>1. puts[p] \in PutRec /\ PutOutward(puts[p])
  BY DoubtParts, PutFields
<1>2. PutOutward(r) /\ r.at = puts[p].at /\ r.pc = puts[q].pc
  BY <1>1 DEF PutRec, PutOutward
<1>3. puts' = [puts EXCEPT ![p] = r] /\ puts[q].pc \in {"ok", "short", "refused"}
  BY DEF ForwardRelay, Done
<1> HIDE DEF r
<1> QED
  BY <1>2, <1>3, OnePutOutward

LEMMA OutForwardSend ==
  ASSUME DoubtInv, NEW p \in PutIds, NEW q \in PutIds, NEW t, ForwardSend(p, q, t)
  PROVE  PutsOutward'
<1> DEFINE r == [puts[p] EXCEPT !.pc = "waiting", !.child = {q},
                                !.untried = puts[p].untried \ {t}]
           c == NewPut(t, Admission(t), TRUE, puts[p].ctx)
<1>1. puts \in [PutIds -> PutRec] /\ puts[p] \in PutRec /\ PutOutward(puts[p])
  BY DoubtParts, TypeParts
<1>2. /\ puts' = [puts EXCEPT ![p] = r, ![q] = c]
      /\ puts[p].pc = "forward" /\ puts[q].pc = "free"
  BY DEF ForwardSend, Fresh
<1>3. /\ PutOutward(r) /\ r.at = puts[p].at /\ r.pc = "waiting" /\ r.child = {q}
  BY <1>1 DEF PutRec, PutOutward
<1>4. PutOutward(c) /\ c.at = t /\ c.pc \in {"admitted", "refused"}
  BY AdmissionType DEF NewPut, PutOutward, ListGood
<1>5. t # puts[p].at
  BY <1>1, NextTargetType DEF ForwardSend, PutOutward
<1> HIDE DEF r, c
<1>6. /\ p # q /\ puts'[q] = c /\ puts'[p] = r
      /\ \A x \in PutIds \ {p, q} : puts'[x] = puts[x]
  BY <1>1, <1>2
<1>7. \A x \in PutIds : PutOutward(puts'[x])
  BY <1>3, <1>4, <1>6, DoubtParts
<1>8. \A x \in PutIds : puts[x].child \subseteq PutIds
  BY <1>1 DEF PutRec
<1>9. ASSUME NEW w \in PutIds, puts'[w].pc = "waiting", NEW x \in puts'[w].child
      PROVE  puts'[x].pc # "free" /\ puts'[x].at # puts'[w].at
  <2>1. CASE w = p
    BY <1>3, <1>4, <1>5, <1>6, <1>9, <2>1
  <2>2. CASE w # p
    <3>1. w # q /\ puts'[w] = puts[w]
      BY <1>4, <1>6, <1>9, <2>2
    <3>2. x \in PutIds /\ puts[x].pc # "free" /\ puts[x].at # puts[w].at
      BY <1>8, <1>9, <3>1, DoubtParts DEF PutsOutward
    <3>3. x # q
      BY <1>2, <3>2
    <3>4. puts'[x].at = puts[x].at /\ puts'[x].pc # "free"
      BY <1>3, <1>6, <3>2, <3>3
    <3> QED
      BY <3>1, <3>2, <3>4
  <2> QED
    BY <2>1, <2>2
<1> QED
  BY <1>7, <1>9 DEF PutsOutward

-----------------------------------------------------------------------------
(* PutCommit: the fan-out goes to the other entries of the list.           *)

LEMMA OutPutCommit ==
  ASSUME DoubtInv, NEW p \in PutIds, NEW e, NEW ts, PutCommit(p, e, ts)
  PROVE  PutsOutward' /\ OwnSide' /\ CallsOutward'
<1> DEFINE n == puts[p].at
           local == OwnCopy(p, e)
           ver == [id |-> p, clk |-> BuildNewClock(puts[p].ctx, local, n), ts |-> ts, wr |-> n]
           past == UNION {{v.id} \cup puts[v.id].past : v \in puts[p].ctx \cup local}
           ids == NodesOf(puts[p].pref)
           keep(held) == \A v \in held : Compare(v.clk, ver.clk) = "DOMINATED"
           r == [puts[p] EXCEPT !.pc = "fanout", !.pref = {}, !.ctx = {}, !.ver = {ver},
                                !.acks = 1, !.ackers = {n}, !.owners = IF e.hint = {} THEN {n} ELSE {},
                                !.past = past]
           out(f) == Call("put", p, n, f.node, ver, OwnerOf(f), f.hint # {}, ids)
<1>1. /\ puts[p] \in PutRec /\ PutOutward(puts[p]) /\ n \in Node
      /\ hints \in [Node -> [Node -> SUBSET Version]]
  BY DoubtParts, PutFields, TypeParts
<1>2. /\ e \in puts[p].pref /\ e.node = n
      /\ puts' = [puts EXCEPT ![p] = r]
      /\ hints' = [hints EXCEPT ![n] = [t \in Node |-> IF t \in e.hint /\ keep(hints[n][t])
                                                    THEN {ver} ELSE hints[n][t]]]
      /\ rpcs' = rpcs \cup {out(f) : f \in puts[p].pref \ {e}}
      /\ UNCHANGED unreachable
  BY DEF PutCommit
<1> HIDE DEF ver, past, local, keep
<1>3. PutOutward(r) /\ r.at = puts[p].at /\ r.pc = "fanout"
  BY <1>1 DEF PutRec, PutOutward, ListGood
<1> HIDE DEF r
<1>4. PutsOutward'
  BY <1>2, <1>3, OnePutOutward
<1>5. ListGood(puts[p].pref)
  BY <1>1 DEF PutOutward
<1>6. OwnSide'
  <2>1. n \notin e.hint
    BY <1>2, <1>5 DEF ListGood
  <2>2. \A x \in Node : hints'[x][x] = hints[x][x]
    BY <1>1, <1>2, <2>1
  <2> QED
    BY <1>2, <2>2 DEF DoubtInv, OwnSide
<1>7. ASSUME NEW f \in puts[p].pref \ {e} PROVE Outward(out(f))
  <2>1. f.node # n /\ f.node \notin f.hint
    BY <1>2, <1>5 DEF ListGood
  <2>2. f.hint # {} => OwnerOf(f) \in f.hint
    BY DEF OwnerOf
  <2>3. n \in ids
    BY <1>2 DEF NodesOf
  <2>4. /\ out(f).kind = "put" /\ out(f).from = n /\ out(f).to = f.node
        /\ out(f).owner = OwnerOf(f) /\ out(f).hinted = (f.hint # {})
        /\ out(f).st = "sent" /\ out(f).excluded = ids
    BY DEF Call
  <2> HIDE DEF out, ids, n
  <2> QED
    BY <2>1, <2>2, <2>3, <2>4 DEF Outward
<1> HIDE DEF out
<1>8. CallsOutward'
  BY <1>2, <1>7, DoubtParts DEF CallsOutward
<1> QED
  BY <1>4, <1>6, <1>8

-----------------------------------------------------------------------------
(* Calls.                                                                  *)

\* A change of kind or progress leaves the ends of a call alone.
LEMMA SameEnds ==
  ASSUME TypeOK, NEW m \in rpcs, Outward(m)
  PROVE  /\ Outward([m EXCEPT !.kind = "orphan"])
         /\ \A st : st # "marked" \/ m.hinted \/ m.st = "marked" => Outward([m EXCEPT !.st = st])
<1>1. m \in RpcRec
  BY RpcFields
<1>2. Outward([m EXCEPT !.kind = "orphan"])
  BY <1>1 DEF Outward, RpcRec
<1>3. ASSUME NEW st, st # "marked" \/ m.hinted \/ m.st = "marked"
      PROVE  Outward([m EXCEPT !.st = st])
  BY <1>1, <1>3 DEF Outward, RpcRec
<1> QED
  BY <1>2, <1>3

LEMMA OutAnswer ==
  ASSUME DoubtInv, NEW m \in rpcs, NEW st, st # "marked", Answer(m, st) PROVE CallsOutward'
<1>1. Outward([m EXCEPT !.st = st])
  BY DoubtParts, SameEnds
<1> QED
  BY <1>1, DoubtParts DEF Answer, CallsOutward

LEMMA OutLeftover ==
  ASSUME DoubtInv, NEW m \in rpcs PROVE \A x \in Leftover(m) : Outward(x)
BY DoubtParts, SameEnds DEF Leftover

\* A substitute is neither the caller, who has left itself out, nor the owner.
LEMMA OutSubstitute == ASSUME DoubtInv, NEW m \in rpcs, Substitute(m) PROVE CallsOutward'
<1> DEFINE next(x) == Call("put", m.by, m.from, x, m.ver, m.owner, TRUE, m.excluded)
           S == Nearest(Candidates(ring[m.from], m.bad, m.excluded, m.owner))
<1>1. rpcs' = (rpcs \ {m}) \cup {next(x) : x \in S}
  BY DEF Substitute
<1>2. m.from \in m.excluded
  BY DoubtParts DEF Substitute, Outward
<1>3. \A x \in S : x \notin m.excluded /\ x # m.owner
  BY DEF Nearest, Candidates
<1>4. \A x : /\ next(x).kind = "put" /\ next(x).from = m.from /\ next(x).to = x
             /\ next(x).owner = m.owner /\ next(x).excluded = m.excluded
  BY DEF Call
<1> HIDE DEF S, next
<1>5. \A x \in S : Outward(next(x))
  BY <1>2, <1>3, <1>4 DEF Outward
<1> QED
  BY <1>1, <1>5, DoubtParts DEF CallsOutward

LEMMA OutSnapshotTask == ASSUME DoubtInv, NEW m \in rpcs, SnapshotTask(m) PROVE CallsOutward'
<1> DEFINE r == [m EXCEPT !.st = "searching", !.bad = unreachable[m.from],
                          !.excluded = m.excluded \cup {m.to}]
<1>1. m \in RpcRec /\ Outward(m)
  BY DoubtParts, RpcFields
<1>2. Outward(r)
  BY <1>1 DEF Outward, RpcRec
<1>3. rpcs' = (rpcs \ {m}) \cup {r}
  BY DEF SnapshotTask
<1> HIDE DEF r
<1> QED
  BY <1>2, <1>3, DoubtParts DEF CallsOutward

DoubtStep == OwnSide' /\ CallsOutward' /\ PutsOutward'

LEMMA OutRpcStep == ASSUME DoubtInv, NEW m \in rpcs, RpcStep(m) PROVE DoubtStep
<1>1. /\ m \in RpcRec /\ m.from \in Node /\ m.to \in Node /\ m.owner \in Node
      /\ Outward(m) /\ OwnSide /\ CallsOutward /\ PutsOutward /\ TypeOK
  BY DoubtParts, RpcFields
<1>2. ASSUME RefuseWrite(m) PROVE DoubtStep
  BY <1>1, <1>2, OutAnswer, PutsOutAlone, DoubtAlone DEF RefuseWrite, node, DoubtStep
<1>3. ASSUME StoreWrite(m) PROVE DoubtStep
  BY <1>1, <1>3, OutAnswer, PutsOutAlone, DoubtAlone DEF StoreWrite, DoubtStep
<1>4. ASSUME MarkHint(m) PROVE DoubtStep
  <2>1. m.hinted /\ m.to # m.owner
    BY <1>1, <1>4 DEF MarkHint, Outward
  <2>2. OwnSide'
    BY <1>1, <1>4, <2>1, MarkOther DEF MarkHint
  <2>3. Outward([m EXCEPT !.st = "marked"])
    BY <1>1, <2>1, SameEnds
  <2>4. rpcs' = (rpcs \ {m}) \cup {[m EXCEPT !.st = "marked"]}
    BY <1>4 DEF MarkHint
  <2>5. CallsOutward'
    BY <1>1, <2>3, <2>4 DEF CallsOutward
  <2> QED
    BY <1>1, <1>4, <2>2, <2>5, PutsOutAlone DEF MarkHint, DoubtStep
<1>5. ASSUME StoreHint(m) PROVE DoubtStep
  <2>1. m.to # m.owner
    BY <1>1, <1>5 DEF StoreHint, Serves, Outward
  <2>2. OwnSide'
    <3> DEFINE S == StoreReplicated(hints[m.to][m.owner], m.ver)
    <3>1. hints' = [hints EXCEPT ![m.to][m.owner] = S] /\ UNCHANGED unreachable
      BY <1>5 DEF StoreHint
    <3> HIDE DEF S
    <3> QED
      BY <1>1, <2>1, <3>1, OneHintOther
  <2> QED
    BY <1>1, <1>5, <2>2, OutAnswer, PutsOutAlone DEF StoreHint, DoubtStep
<1>6. ASSUME PutAck(m) PROVE DoubtStep
  <2> DEFINE r == [puts[m.by] EXCEPT !.acks = puts[m.by].acks + 1,
                                     !.ackers = puts[m.by].ackers \cup {m.to},
                                     !.owners = IF m.hinted THEN puts[m.by].owners
                                                ELSE puts[m.by].owners \cup {m.to}]
  <2>1. puts' = [puts EXCEPT ![m.by] = r] /\ puts \in [PutIds -> PutRec]
    BY <1>1, <1>6, TypeParts DEF PutAck
  <2>2. ASSUME m.by \in PutIds PROVE PutsOutward'
    <3>1. puts[m.by] \in PutRec /\ PutOutward(puts[m.by])
      BY <2>1, <2>2, DoubtParts
    <3>2. PutOutward(r) /\ r.at = puts[m.by].at /\ r.pc = puts[m.by].pc /\ r.child = puts[m.by].child
      BY <3>1 DEF PutRec, PutOutward
    <3> HIDE DEF r
    <3> QED
      BY <2>1, <2>2, <3>2, OnePutOutward
  <2>3. ASSUME m.by \notin PutIds PROVE PutsOutward'
    <3> HIDE DEF r
    <3>1. UNCHANGED puts
      BY <2>1, <2>3
    <3> QED
      BY <1>1, <3>1, PutsOutAlone
  <2> HIDE DEF r
  <2>4. rpcs' \subseteq rpcs /\ UNCHANGED <<unreachable, hints>>
    BY <1>6 DEF PutAck, node
  <2> QED
    BY <1>1, <2>2, <2>3, <2>4, CallsAlone, DoubtAlone DEF DoubtStep
<1>7. ASSUME SnapshotTask(m) \/ Substitute(m) PROVE DoubtStep
  <2>1. CallsOutward'
    BY <1>7, OutSnapshotTask, OutSubstitute
  <2>2. UNCHANGED <<unreachable, hints, puts>>
    BY <1>7 DEF SnapshotTask, Substitute, node
  <2> QED
    BY <1>1, <2>1, <2>2, PutsOutAlone, DoubtAlone DEF DoubtStep
<1>8. ASSUME PutCallFails(m) PROVE DoubtStep
  <2>1. Outward([m EXCEPT !.st = "failed"])
    BY <1>1, SameEnds
  <2>2. CallsOutward'
    BY <1>1, <1>8, <2>1, OutLeftover DEF PutCallFails, CallsOutward
  <2>3. OwnSide'
    BY <1>1, <1>8, MarkOther DEF PutCallFails, Outward
  <2> QED
    BY <1>1, <1>8, <2>2, <2>3, PutsOutAlone DEF PutCallFails, DoubtStep
<1>9. ASSUME RepairDone(m) \/ HintRefused(m) PROVE DoubtStep
  <2>1. rpcs' \subseteq rpcs /\ UNCHANGED <<unreachable, hints, puts>>
    BY <1>9 DEF RepairDone, HintRefused, node
  <2> QED
    BY <1>1, <2>1, CallsAlone, DoubtAlone, PutsOutAlone DEF DoubtStep
<1>10. ASSUME BackgroundCallFails(m) PROVE DoubtStep
  <2>1. CallsOutward'
    BY <1>1, <1>10, OutLeftover DEF BackgroundCallFails, CallsOutward
  <2>2. OwnSide'
    BY <1>1, <1>10, MarkOther DEF BackgroundCallFails, Outward
  <2> QED
    BY <1>1, <1>10, <2>1, <2>2, PutsOutAlone DEF BackgroundCallFails, DoubtStep
<1>11. ASSUME HintDelivered(m) PROVE DoubtStep
  <2>1. m.to # m.from
    BY <1>1 DEF Outward
  <2>2. OwnSide'
    <3> DEFINE S == {h \in hints[m.from][m.to] : Compare(h.clk, m.ver.clk) # "EQUAL"}
    <3>1. hints' = [hints EXCEPT ![m.from][m.to] = S] /\ UNCHANGED unreachable
      BY <1>11 DEF HintDelivered
    <3> HIDE DEF S
    <3> QED
      BY <1>1, <2>1, <3>1, OneHintOther
  <2>3. rpcs' \subseteq rpcs /\ UNCHANGED puts
    BY <1>11 DEF HintDelivered
  <2> QED
    BY <1>1, <2>2, <2>3, CallsAlone, PutsOutAlone DEF DoubtStep
<1> QED
  BY <1>2, <1>3, <1>4, <1>5, <1>6, <1>7, <1>8, <1>9, <1>10, <1>11 DEF RpcStep

-----------------------------------------------------------------------------
(* Gets and nodes.                                                         *)

LEMMA OutGetStep == ASSUME DoubtInv, NEW g \in GetIds, GetStep(g) PROVE DoubtStep
<1>1. /\ gets[g].at \in Node /\ gets[g].pending \subseteq Node
      /\ OwnSide /\ CallsOutward /\ PutsOutward
  BY DoubtParts, GetFields
<1>2. ASSUME (\E n : ClientGet(g, n)) \/ SnapshotGet(g) \/ RouteGet(g)
             \/ (\E n : ReadReplica(g, n)) PROVE DoubtStep
  <2>1. UNCHANGED <<unreachable, hints, rpcs, puts>>
    BY <1>2 DEF ClientGet, SnapshotGet, RouteGet, ReadReplica, node
  <2> QED
    BY <1>1, <2>1, CallsAlone, DoubtAlone, PutsOutAlone DEF DoubtStep
<1>3. ASSUME NEW n, ReadFails(g, n) PROVE DoubtStep
  <2>1. n # gets[g].at /\ MarkUnreachable(gets[g].at, n) /\ UNCHANGED <<hints, rpcs, puts>>
    BY <1>3 DEF ReadFails
  <2> QED
    BY <1>1, <2>1, MarkOther, CallsAlone, PutsOutAlone DEF DoubtStep
<1>4. ASSUME NEW f, FinishGet(g, f) PROVE DoubtStep
  <2> DEFINE at == gets[g].at
             found == {i \in DOMAIN f : f[i].ver # {}}
             vs == [i \in found |-> CHOOSE v \in f[i].ver : TRUE]
             stale(win) == {r.node : r \in {x \in gets[g].results :
                              \A v \in x.ver : Compare(v.clk, win.clk) # "EQUAL"}}
  <2>1. UNCHANGED <<unreachable, hints, puts>>
    BY <1>4 DEF FinishGet
  <2>2. ASSUME rpcs' = rpcs PROVE CallsOutward'
    BY <1>1, <2>2, CallsAlone
  <2>3. ASSUME NEW win \in ResolveGetResult(vs),
               gets' = [gets EXCEPT ![g] = [gets[g] EXCEPT !.pc = "ok", !.results = {}, !.win = {win}]],
               kv' = [kv EXCEPT ![at] = IF at \in stale(win)
                                        THEN StoreReplicated(kv[at], win) ELSE kv[at]],
               rpcs' = rpcs \cup {Call("repair", g, at, n, win, n, FALSE, {}) :
                                    n \in stale(win) \ {at}}
        PROVE  CallsOutward'
    <3> DEFINE repair(n) == Call("repair", g, at, n, win, n, FALSE, {})
    <3>1. ASSUME NEW n, n # at PROVE Outward(repair(n))
      <4>1. /\ repair(n).from = at /\ repair(n).to = n
            /\ repair(n).kind = "repair" /\ repair(n).st = "sent"
        BY DEF Call
      <4>2. ~repair(n).hinted
        BY DEF Call
      <4> HIDE DEF repair
      <4> QED
        BY <3>1, <4>1, <4>2 DEF Outward
    <3>2. rpcs' = rpcs \cup {repair(n) : n \in stale(win) \ {at}}
      BY <2>3
    <3> HIDE DEF repair, stale, vs
    <3> QED
      BY <1>1, <3>1, <3>2 DEF CallsOutward
  <2>4. CallsOutward'
    BY <1>4, <2>2, <2>3 DEF FinishGet
  <2> QED
    BY <1>1, <2>1, <2>4, DoubtAlone, PutsOutAlone DEF DoubtStep
<1> QED
  BY <1>2, <1>3, <1>4 DEF GetStep

LEMMA OutDeliverHints ==
  ASSUME DoubtInv, NEW n \in Node, NEW t \in Node, DeliverHints(n, t) PROVE DoubtStep
<1> DEFINE out(v) == Call("hint", v.id, n, t, v, t, FALSE, {})
<1>1. rpcs' = rpcs \cup {out(v) : v \in hints[n][t]} /\ UNCHANGED <<unreachable, hints, puts>>
  BY DEF DeliverHints
<1>2. ASSUME NEW v \in hints[n][t] PROVE Outward(out(v))
  <2>1. n # t
    BY DoubtParts
  <2>2. out(v).from = n /\ out(v).to = t /\ out(v).kind = "hint" /\ out(v).st = "sent"
    BY DEF Call
  <2>3. ~out(v).hinted
    BY DEF Call
  <2> HIDE DEF out
  <2> QED
    BY <2>1, <2>2, <2>3 DEF Outward
<1> HIDE DEF out
<1>3. CallsOutward'
  BY <1>1, <1>2, DoubtParts DEF CallsOutward
<1> QED
  BY <1>1, <1>3, DoubtParts, DoubtAlone, PutsOutAlone DEF DoubtStep

LEMMA OutCrash == ASSUME DoubtInv, NEW n \in Node, Crash(n) PROVE DoubtStep
<1>1. TypeOK /\ OwnSide /\ PutsOutward /\ puts \in [PutIds -> PutRec]
      /\ unreachable \in [Node -> SUBSET Node]
      /\ hints \in [Node -> [Node -> SUBSET Version]]
  BY DoubtParts, TypeParts
<1>2. OwnSide'
  <2>1. /\ unreachable' = [unreachable EXCEPT ![n] = {}]
        /\ hints' = [hints EXCEPT ![n] = [t \in Node |-> {}]]
    BY DEF Crash
  <2> QED
    BY <1>1, <2>1 DEF OwnSide
<1>3. CallsOutward'
  <2>1. ASSUME NEW x \in Severed(n) PROVE Outward(x)
    <3>1. CASE x \in rpcs
      BY <3>1, DoubtParts
    <3>2. CASE \E m \in rpcs : x = [m EXCEPT !.kind = "orphan"] \/ x = [m EXCEPT !.st = "broken"]
      <4>1. PICK m \in rpcs : x = [m EXCEPT !.kind = "orphan"] \/ x = [m EXCEPT !.st = "broken"]
        BY <3>2
      <4>2. Outward(m)
        BY DoubtParts
      <4>3. Outward([m EXCEPT !.kind = "orphan"]) /\ Outward([m EXCEPT !.st = "broken"])
        BY <1>1, <4>2, SameEnds
      <4> QED
        BY <4>1, <4>3
    <3> QED
      BY <3>1, <3>2 DEF Severed
  <2> QED
    BY <2>1 DEF Crash, CallsOutward
<1>4. PutsOutward'
  <2>1. ASSUME NEW p \in PutIds
        PROVE  /\ puts'[p].at = puts[p].at /\ puts'[p].child = puts[p].child
               /\ PutOutward(puts'[p])
               /\ puts[p].pc # "free" => puts'[p].pc # "free"
               /\ puts'[p].pc = "waiting" => puts[p].pc = "waiting"
    <3>1. \/ puts'[p] = puts[p]
          \/ puts'[p] = [puts[p] EXCEPT !.pc = "dead"]
      BY DEF Crash
    <3>2. puts[p] \in PutRec /\ PutOutward(puts[p])
      BY <1>1, DoubtParts
    <3>3. CASE puts'[p] = puts[p]
      BY <3>2, <3>3
    <3>4. CASE puts'[p] = [puts[p] EXCEPT !.pc = "dead"]
      BY <3>2, <3>4 DEF PutRec, PutOutward
    <3> QED
      BY <3>1, <3>3, <3>4
  <2>2. \A q \in PutIds : puts[q].child \subseteq PutIds
    BY <1>1 DEF PutRec
  <2> QED
    BY <1>1, <2>1, <2>2 DEF PutsOutward
<1> QED
  BY <1>2, <1>3, <1>4 DEF DoubtStep

LEMMA OutNodeStep == ASSUME DoubtInv, NEW n \in Node, NodeStep(n) PROVE DoubtStep
<1>1. OwnSide /\ CallsOutward /\ PutsOutward /\ unreachable \in [Node -> SUBSET Node]
  BY DoubtParts, TypeParts
<1>2. ASSUME UNCHANGED <<unreachable, hints, rpcs, puts>> PROVE DoubtStep
  BY <1>1, <1>2, CallsAlone, DoubtAlone, PutsOutAlone DEF DoubtStep
<1>3. ASSUME NEW t, PingOk(n, t) \/ Bootstrap(n, t) PROVE DoubtStep
  BY <1>2, <1>3 DEF PingOk, Bootstrap
<1>4. ASSUME NEW view, ChangeRing(n, view) PROVE DoubtStep
  BY <1>2, <1>4 DEF ChangeRing
<1>5. ASSUME Restart(n) PROVE DoubtStep
  BY <1>2, <1>5 DEF Restart
<1>6. ASSUME NEW t, MarkReachable(n, t) PROVE DoubtStep
  <2>1. unreachable' = [unreachable EXCEPT ![n] = unreachable[n] \ {t}]
        /\ UNCHANGED <<hints, rpcs, puts>>
    BY <1>6 DEF MarkReachable
  <2>2. OwnSide'
    BY <1>1, <2>1 DEF OwnSide
  <2> QED
    BY <1>1, <2>1, <2>2, CallsAlone, PutsOutAlone DEF DoubtStep
<1>7. ASSUME NEW t, GossipFails(n, t) PROVE DoubtStep
  <2>1. t # n /\ MarkUnreachable(n, t) /\ UNCHANGED <<hints, rpcs, puts>>
    BY <1>7 DEF GossipFails
  <2> QED
    BY <1>1, <2>1, MarkOther, CallsAlone, PutsOutAlone DEF DoubtStep
<1>8. ASSUME NEW t, BootstrapFails(n, t) PROVE DoubtStep
  <2>1. /\ t # n \/ n \in Seeds[n]
        /\ MarkUnreachable(n, t) /\ UNCHANGED <<hints, rpcs, puts>>
    BY <1>8 DEF BootstrapFails
  <2> QED
    BY <1>1, <2>1, MarkOther, CallsAlone, PutsOutAlone DEF DoubtStep
<1> QED
  BY <1>3, <1>4, <1>5, <1>6, <1>7, <1>8, OutDeliverHints, OutCrash DEF NodeStep

LEMMA OutPutStep == ASSUME DoubtInv, NEW p \in PutIds, PutStep(p) PROVE DoubtStep
<1>1. OwnSide /\ CallsOutward
  BY DoubtParts
<1>2. ASSUME PutsOutward', UNCHANGED <<unreachable, hints, rpcs>> PROVE DoubtStep
  BY <1>1, <1>2, CallsAlone, DoubtAlone DEF DoubtStep
<1>3. ASSUME NEW n, NEW ctx, ClientPut(p, n, ctx) PROVE DoubtStep
  BY <1>2, <1>3, OutClientPut DEF ClientPut, node
<1>4. ASSUME SnapshotPut(p) \/ RoutePut(p) PROVE DoubtStep
  BY <1>2, <1>4, OutSnapshotPut, OutRoutePut DEF SnapshotPut, RoutePut, node
<1>5. ASSUME PutJoin(p) PROVE DoubtStep
  BY <1>2, <1>5, OutPutJoin DEF PutJoin, node
<1>6. ASSUME ForwardExhausted(p) PROVE DoubtStep
  BY <1>2, <1>6, OutForwardExhausted DEF ForwardExhausted, node
<1>7. ASSUME NEW q, ForwardRelay(p, q) PROVE DoubtStep
  BY <1>2, <1>7, OutForwardRelay DEF ForwardRelay, node
<1>8. ASSUME NEW q \in PutIds, NEW t, ForwardSend(p, q, t) PROVE DoubtStep
  BY <1>2, <1>8, OutForwardSend DEF ForwardSend, node
<1>9. ASSUME NEW t, ForwardFails(p, t) PROVE DoubtStep
  <2>1. UNCHANGED rpcs
    BY <1>9 DEF ForwardFails
  <2> QED
    BY <1>1, <1>9, <2>1, OutForwardFails, CallsAlone DEF DoubtStep
<1>10. ASSUME NEW q, ForwardBreaks(p, q) PROVE DoubtStep
  <2>1. UNCHANGED rpcs
    BY <1>10 DEF ForwardBreaks
  <2> QED
    BY <1>1, <1>10, <2>1, OutForwardBreaks, CallsAlone DEF DoubtStep
<1>11. ASSUME NEW e, NEW ts, PutCommit(p, e, ts) PROVE DoubtStep
  BY <1>11, OutPutCommit DEF DoubtStep
<1> QED
  BY <1>3, <1>4, <1>5, <1>6, <1>7, <1>8, <1>9, <1>10, <1>11 DEF PutStep

-----------------------------------------------------------------------------
LEMMA DoubtInit == Init => OwnSide /\ CallsOutward /\ PutsOutward
<1> SUFFICES ASSUME Init PROVE OwnSide /\ CallsOutward /\ PutsOutward
  OBVIOUS
<1>1. OwnSide /\ CallsOutward
  BY DEF Init, OwnSide, CallsOutward
<1>2. \A p \in PutIds : puts[p].pc = "free" /\ puts[p].untried = {} /\ puts[p].pref = {}
  BY DEF Init, NewPut
<1>3. PutsOutward
  BY <1>2 DEF PutsOutward, PutOutward, ListGood
<1> QED
  BY <1>1, <1>3

(* The inductive invariant holds in every reachable state.                 *)
THEOREM DoubtInvariant == Spec => []DoubtInv
<1> DEFINE Inv == OwnSide /\ CallsOutward /\ PutsOutward
<1>1. Init => Inv
  BY DoubtInit
<1>2. TypeOK /\ Inv /\ [Next]_vars => Inv'
  <2> SUFFICES ASSUME DoubtInv, [Next]_vars PROVE DoubtStep
    BY DEF DoubtInv, DoubtStep
  <2>1. CASE Next
    BY <2>1, OutPutStep, OutGetStep, OutRpcStep, OutNodeStep DEF Next
  <2>2. CASE UNCHANGED vars
    BY <2>2, DoubtParts, CallsAlone, DoubtAlone, PutsOutAlone DEF vars, DoubtStep
  <2> QED
    BY <2>1, <2>2
<1>3. TypeOK /\ Inv => DoubtInv
  BY DEF DoubtInv
<1> HIDE DEF Inv
<1> QED
  BY <1>1, <1>2, <1>3, TypeCorrect, PTL DEF Spec

(* A node never takes itself for unreachable and never holds a hint for    *)
(* itself, unless it has been given its own address as a seed: it calls,   *)
(* forwards to and covers for others only, and a preference list names a   *)
(* node once.                                                              *)
THEOREM NobodyDoubtsItself ==
  ASSUME \A n \in Node : n \notin Seeds[n]
  PROVE  Spec => []NeverDoubtsItself
<1>1. DoubtInv => NeverDoubtsItself
  BY DEF DoubtInv, OwnSide, NeverDoubtsItself
<1> QED
  BY <1>1, DoubtInvariant, PTL
=============================================================================
