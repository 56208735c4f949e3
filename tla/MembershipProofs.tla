-------------------------- MODULE MembershipProofs --------------------------
(***************************************************************************)
(* Membership for every set of nodes, every clock and every number of      *)
(* removals, starts and lost calls: the ring is the table, the tables are  *)
(* last-writer-wins registers, and what stamps that never repeat buy.      *)
(***************************************************************************)
EXTENDS Membership, TLAPS

USE NodeAssumption, TimesAssumption, VnodesAssumption, SeedsAssumption,
    GroupAssumption, BoundAssumption

\* What the entry of a node the table does not know looks like.
LEMMA UnknownType ==
  /\ Unknown.status = "UNKNOWN" /\ Unknown.last_updated = 0
  /\ Unknown.writer_id = 0 /\ Unknown.tokens = {} /\ Unknown.life = 0
  /\ Unknown \notin MembershipEntry
BY DEF Unknown, MembershipEntry

LEMMA EntryFields ==
  ASSUME NEW e \in MembershipEntry
  PROVE  /\ e.status \in {"UP", "REMOVED"} /\ e.last_updated \in Times
         /\ e.last_updated \in Nat \ {0} /\ e.writer_id \in Node
         /\ e.writer_id \in Nat /\ e.tokens \in SUBSET Token /\ e.life \in Nat
BY DEF MembershipEntry

LEMMA EmptyTableType == EmptyTable \in MembershipTable
BY DEF EmptyTable, MembershipTable

LEMMA MergedTableType ==
  ASSUME NEW a \in MembershipTable, NEW b \in MembershipTable
  PROVE  MergedTable(a, b) \in MembershipTable
BY DEF MergedTable, MembershipTable

LEMMA TableEntry ==
  ASSUME NEW a \in MembershipTable, NEW x \in Node
  PROVE  /\ a[x] \in MembershipEntry \/ a[x] = Unknown
         /\ a[x].last_updated \in Nat /\ a[x].writer_id \in Nat
         /\ a[x].status \in {"UP", "REMOVED", "UNKNOWN"}
         /\ a[x].tokens \in SUBSET Token
         /\ a[x].status # "UNKNOWN" => a[x] \in MembershipEntry
BY UnknownType, EntryFields DEF MembershipTable

LEMMA MergedRingType ==
  ASSUME NEW a \in MembershipTable, NEW b \in MembershipTable,
         NEW r \in SUBSET Token
  PROVE  MergedRing(r, a, b) \in SUBSET Token
<1>1. \A x \in Node : b[x].tokens \in SUBSET Token
  BY TableEntry
<1> QED
  BY <1>1 DEF MergedRing, Added, Erased

LEMMA RemovedEntryType ==
  ASSUME NEW e \in MembershipEntry, NEW n \in Node, NEW t \in Times
  PROVE  LET d == RemovedEntry(n, e, t) IN
         /\ d \in MembershipEntry /\ d.status = "REMOVED" /\ d.writer_id = n
         /\ d.last_updated = t /\ d.tokens = {} /\ d.life = e.life
BY DEF RemovedEntry, MembershipEntry

LEMMA TokensType ==
  ASSUME NEW x \in Node, NEW v \in Vnodes
  PROVE  Tokens(x, v) \in SUBSET Token
BY DEF Tokens, Token

LEMMA SelfEntryType ==
  ASSUME NEW n \in Node, NEW v \in Vnodes, NEW t \in Times, NEW k \in Nat
  PROVE  LET e == SelfEntry(n, v, t, k) IN
         /\ e \in MembershipEntry /\ e.status = "UP" /\ e.writer_id = n
         /\ e.last_updated = t /\ e.tokens = Tokens(n, v) /\ e.life = k
BY TokensType DEF SelfEntry, MembershipEntry

-----------------------------------------------------------------------------
LEMMA ApplyGossipType ==
  ASSUME table \in [Node -> MembershipTable], ring \in [Node -> SUBSET Token],
         NEW n \in Node, NEW incoming \in MembershipTable,
         ApplyGossip(n, incoming)
  PROVE  /\ table' \in [Node -> MembershipTable]
         /\ ring' \in [Node -> SUBSET Token]
<1>1. MergedTable(table[n], incoming) \in MembershipTable
  BY MergedTableType
<1>2. MergedRing(ring[n], table[n], incoming) \in SUBSET Token
  BY MergedRingType
<1> QED
  BY <1>1, <1>2 DEF ApplyGossip

CallType == [state : {"idle", "sent", "answered", "broken"},
             peer : Nat, table : MembershipTable]

LEMMA IdleType == Idle \in CallType /\ Idle.state = "idle"
BY EmptyTableType DEF Idle, CallType

LEMMA SendGossipType ==
  ASSUME TypeOK, NEW n \in up, NEW m \in Nat, SendGossip(n, m)
  PROVE  /\ call' \in [Node -> CallType]
         /\ \A k \in Node : call'[k].state # "idle"
              => k \in up
BY DEF SendGossip, TypeOK, CallType

\* What Stop does to the calls keeps them well typed.
LEMMA StopType ==
  ASSUME TypeOK, NEW n \in Node, Stop(n)
  PROVE  TypeOK'
<1>1. call' \in [Node -> CallType]
  BY IdleType DEF Stop, TypeOK, CallType
<1>2. \A k \in Node : call'[k].state # "idle" => k \in up'
  BY IdleType DEF Stop, TypeOK, CallType
<1>3. late' \subseteq [to : up', table : MembershipTable]
  <2>1. call[n].table \in MembershipTable
    BY DEF TypeOK
  <2> QED
    BY <2>1 DEF Stop, TypeOK
<1> QED
  BY <1>1, <1>2, <1>3, EmptyTableType DEF Stop, TypeOK, CallType

\* The table, the clock's reading and the entry RemoveNode writes.
LEMMA RemoveNodeType ==
  ASSUME TypeOK, NEW n \in Node, NEW x \in Node, RemoveNode(n, x)
  PROVE  TypeOK'
<1>1. PICK t \in Readings(n) :
         LET e == RemovedEntry(n, table[n][x], t) IN
         /\ table' = [table EXCEPT ![n] = [table[n] EXCEPT ![x] = e]]
         /\ issued' = [issued EXCEPT ![x] = issued[x] \cup {e}]
  BY DEF RemoveNode
<1>2. table[n] \in MembershipTable /\ table[n][x] \in MembershipEntry
  BY TableEntry DEF TypeOK, RemoveNode, UpIn
<1> DEFINE e == RemovedEntry(n, table[n][x], t)
<1>3. e \in MembershipEntry
  BY <1>2, RemovedEntryType DEF Readings
<1>4. table' = [table EXCEPT ![n] = [table[n] EXCEPT ![x] = e]]
      /\ issued' = [issued EXCEPT ![x] = issued[x] \cup {e}]
  BY <1>1
<1> HIDE DEF e
<1>5. [table[n] EXCEPT ![x] = e] \in MembershipTable
  BY <1>2, <1>3 DEF MembershipTable
<1>6. table' \in [Node -> MembershipTable] /\ issued' \in [Node -> SUBSET MembershipEntry]
  BY <1>3, <1>4, <1>5 DEF TypeOK
<1>7. ring' \in [Node -> SUBSET Token]
  BY DEF RemoveNode, TypeOK
<1> QED
  BY <1>6, <1>7, SMTT(30) DEF RemoveNode, TypeOK

LEMMA StartType ==
  ASSUME TypeOK, NEW n \in Node, Start(n)
  PROVE  TypeOK'
<1>1. PICK t \in Readings(n), v \in Vnodes :
         LET e == SelfEntry(n, v, t, starts[n] + 1) IN
         /\ table' = [table EXCEPT ![n] = [EmptyTable EXCEPT ![n] = e]]
         /\ issued' = [issued EXCEPT ![n] = issued[n] \cup {e}]
         /\ ring' = [ring EXCEPT ![n] = Tokens(n, v)]
  BY DEF Start
<1> DEFINE e == SelfEntry(n, v, t, starts[n] + 1)
<1>2. e \in MembershipEntry
  <2>1. starts[n] + 1 \in Nat /\ t \in Times
    BY DEF TypeOK, Readings
  <2> QED
    BY <2>1, SelfEntryType
<1>3. table' = [table EXCEPT ![n] = [EmptyTable EXCEPT ![n] = e]]
      /\ issued' = [issued EXCEPT ![n] = issued[n] \cup {e}]
  BY <1>1
<1> HIDE DEF e
<1>4. [EmptyTable EXCEPT ![n] = e] \in MembershipTable
  BY <1>2, EmptyTableType DEF MembershipTable
<1>5. table' \in [Node -> MembershipTable] /\ issued' \in [Node -> SUBSET MembershipEntry]
  BY <1>2, <1>3, <1>4 DEF TypeOK
<1>6. ring' \in [Node -> SUBSET Token]
  BY <1>1, TokensType DEF TypeOK
<1>7. late' \subseteq [to : up', table : MembershipTable]
  BY DEF Start, TypeOK
<1> QED
  BY <1>5, <1>6, <1>7, SMTT(30) DEF Start, TypeOK

-----------------------------------------------------------------------------
LEMMA InitTables ==
  ASSUME Init
  PROVE  \E v \in Vnodes, at \in [Node -> FounderTimes] :
           /\ table = [n \in Node |-> IF n \in Founders THEN View(v, at)
                                      ELSE EmptyTable]
           /\ ring = [n \in Node |-> IF n \in Founders
                       THEN UNION {Tokens(x, v) : x \in Founders} ELSE {}]
           /\ issued = [x \in Node |-> IF x \in Founders THEN {View(v, at)[x]}
                                       ELSE {}]
BY DEF Init

LEMMA ViewType ==
  ASSUME NEW v \in Vnodes, NEW at \in [Node -> FounderTimes]
  PROVE  /\ View(v, at) \in MembershipTable
         /\ \A x \in Founders : View(v, at)[x] \in MembershipEntry
<1>1. \A x \in Founders : SelfEntry(x, v, at[x], 1) \in MembershipEntry
  BY SelfEntryType
<1> QED
  BY <1>1 DEF View, MembershipTable

LEMMA InitType == Init => TypeOK
<1> SUFFICES ASSUME Init PROVE TypeOK
  OBVIOUS
<1>1. PICK v \in Vnodes, at \in [Node -> FounderTimes] :
           /\ table = [n \in Node |-> IF n \in Founders THEN View(v, at)
                                      ELSE EmptyTable]
           /\ ring = [n \in Node |-> IF n \in Founders
                       THEN UNION {Tokens(x, v) : x \in Founders} ELSE {}]
           /\ issued = [x \in Node |-> IF x \in Founders THEN {View(v, at)[x]}
                                       ELSE {}]
  BY InitTables
<1>2. table \in [Node -> MembershipTable] /\ issued \in [Node -> SUBSET MembershipEntry]
  BY <1>1, ViewType, EmptyTableType
<1>3. ring \in [Node -> SUBSET Token]
  <2>1. UNION {Tokens(x, v) : x \in Founders} \in SUBSET Token
    BY TokensType
  <2> QED
    BY <1>1, <2>1
<1>4. call \in [Node -> CallType] /\ \A n \in Node : call[n].state = "idle"
  BY IdleType DEF Init
<1> QED
  BY <1>2, <1>3, <1>4 DEF Init, TypeOK, CallType

LEMMA StepType == TypeOK /\ [Next]_vars => TypeOK'
<1> SUFFICES ASSUME TypeOK, [Next]_vars PROVE TypeOK'
  OBVIOUS
<1>0. call \in [Node -> CallType]
  BY DEF TypeOK, CallType
<1>1. ASSUME NEW n \in Node, NEW m \in Node, StartRound(n, m) PROVE TypeOK'
  <2>1. n \in up
    BY <1>1 DEF StartRound, TypeOK
  <2>2. /\ call' \in [Node -> CallType]
        /\ \A k \in Node : call'[k].state # "idle"
             => k \in up
    BY <1>1, <2>1, SendGossipType DEF StartRound
  <2> QED
    BY <1>1, <2>2 DEF StartRound, TypeOK, CallType
<1>2. ASSUME NEW n \in Node, CallSeed(n) PROVE TypeOK'
  <2> DEFINE s == Seeds[n][(tries[n] % Len(Seeds[n])) + 1]
  <2>1. n \in up /\ tries[n] \in Nat /\ Seeds[n] \in Seq(Nat)
        /\ tries[n] < 3 * Len(Seeds[n]) /\ SendGossip(n, s)
    BY <1>2 DEF CallSeed, TypeOK
  <2>2. Len(Seeds[n]) \in Nat /\ Len(Seeds[n]) > 0
    BY <2>1
  <2>3. (tries[n] % Len(Seeds[n])) + 1 \in 1 .. Len(Seeds[n])
    BY <2>1, <2>2
  <2>4. s \in Nat
    BY <2>1, <2>3
  <2> HIDE DEF s
  <2>5. /\ call' \in [Node -> CallType]
        /\ \A k \in Node : call'[k].state # "idle"
             => k \in up
    BY <2>1, <2>4, SendGossipType
  <2> QED
    BY <1>2, <2>5 DEF CallSeed, TypeOK, CallType
<1>3. ASSUME NEW n \in Node, GossipExchange(n) PROVE TypeOK'
  <2> DEFINE m == call[n].peer
  <2> DEFINE q == MergedTable(table[m], call[n].table)
  <2>1. m \in Node /\ m \in up /\ n \in up /\ call[n].table \in MembershipTable
        /\ table[m] \in MembershipTable /\ ApplyGossip(m, call[n].table)
    BY <1>3 DEF GossipExchange, TypeOK
  <2>2. table' \in [Node -> MembershipTable] /\ ring' \in [Node -> SUBSET Token]
    BY <2>1, ApplyGossipType DEF TypeOK
  <2>3. q \in MembershipTable
    BY <2>1, MergedTableType
  <2>4. call' = [call EXCEPT ![n] = [state |-> "answered", peer |-> m, table |-> q]]
    BY <1>3 DEF GossipExchange
  <2> HIDE DEF q, m
  <2>5. call' \in [Node -> CallType]
    BY <1>0, <2>1, <2>3, <2>4 DEF CallType
  <2>6. \A k \in Node : call'[k].state # "idle" => k \in up
    BY <1>0, <2>1, <2>4 DEF CallType, TypeOK
  <2> QED
    BY <1>3, <2>2, <2>5, <2>6 DEF GossipExchange, TypeOK, CallType
<1>4. ASSUME NEW r \in late, LateExchange(r) PROVE TypeOK'
  <2>1. r.to \in Node /\ r.table \in MembershipTable /\ ApplyGossip(r.to, r.table)
    BY <1>4 DEF LateExchange, TypeOK
  <2>2. table' \in [Node -> MembershipTable] /\ ring' \in [Node -> SUBSET Token]
    BY <2>1, ApplyGossipType DEF TypeOK
  <2> QED
    BY <1>4, <2>2 DEF LateExchange, TypeOK
<1>5. ASSUME NEW n \in Node, TakeAnswer(n) PROVE TypeOK'
  <2>1. call[n].table \in MembershipTable /\ ApplyGossip(n, call[n].table) /\ n \in up
    BY <1>5 DEF TakeAnswer, TypeOK
  <2>2. table' \in [Node -> MembershipTable] /\ ring' \in [Node -> SUBSET Token]
    BY <2>1, ApplyGossipType DEF TypeOK
  <2> QED
    BY <1>0, <1>5, <2>1, <2>2, IdleType DEF TakeAnswer, TypeOK, CallType
<1>6. ASSUME NEW n \in Node, CallRefused(n) PROVE TypeOK'
  BY <1>0, <1>6, IdleType, SMTT(30) DEF CallRefused, GiveUpCall, TypeOK, CallType
<1>7. ASSUME NEW n \in Node, CallLost(n) PROVE TypeOK'
  <2>1. late' \subseteq [to : up, table : MembershipTable]
    BY <1>7 DEF CallLost, TypeOK
  <2>2. call' \in [Node -> CallType]
        /\ \A k \in Node : call'[k].state # "idle" => k \in up
    BY <1>0, <1>7, IdleType DEF CallLost, GiveUpCall, TypeOK
  <2>3. losses' \in 0 .. MaxLosses /\ tries' \in [Node -> Nat]
    BY <1>7 DEF CallLost, GiveUpCall, TypeOK
  <2> QED
    BY <1>7, <2>1, <2>2, <2>3 DEF CallLost, GiveUpCall, TypeOK, CallType
<1>8. ASSUME NEW n \in Node, NEW x \in Node, RemoveNode(n, x) PROVE TypeOK'
  BY <1>8, RemoveNodeType
<1>9. ASSUME NEW n \in Node, Start(n) PROVE TypeOK'
  BY <1>9, StartType
<1>10. ASSUME NEW n \in Node, Crash(n) PROVE TypeOK'
  BY <1>10, StopType DEF Crash
<1>11. ASSUME NEW n \in Node, BootstrapFailed(n) PROVE TypeOK'
  BY <1>11, StopType DEF BootstrapFailed
<1>12. ASSUME UNCHANGED vars PROVE TypeOK'
  BY <1>12 DEF vars, TypeOK
<1> QED
  BY <1>1, <1>2, <1>3, <1>4, <1>5, <1>6, <1>7, <1>8, <1>9, <1>10, <1>11, <1>12
  DEF Next

\* Every reachable state has the types of the code's tables, ring and calls.
THEOREM TypeCorrect == Spec => []TypeOK
BY InitType, StepType, PTL DEF Spec

-----------------------------------------------------------------------------
\* Every entry in a table, in a message or in a request left behind was written
\* about that node.
From(tab, iss) == \A x \in Node : tab[x] \in iss[x] \cup {Unknown}

OnlyIssued ==
  /\ \A n \in Node : From(table[n], issued)
  /\ \A n \in Node : From(call[n].table, issued)
  /\ \A r \in late : From(r.table, issued)

LEMMA MergedFrom ==
  ASSUME NEW a, NEW b, NEW iss, From(a, iss), From(b, iss)
  PROVE  From(MergedTable(a, b), iss)
BY DEF From, MergedTable

LEMMA EmptyFrom == \A iss : From(EmptyTable, iss)
BY DEF From, EmptyTable

\* What a RemoveNode or a start writes, by name.
RemoveWrites(n, x, e) ==
  /\ e \in MembershipEntry
  /\ table' = [table EXCEPT ![n] = [table[n] EXCEPT ![x] = e]]
  /\ issued' = [issued EXCEPT ![x] = issued[x] \cup {e}]
  /\ e.status = "REMOVED" /\ e.writer_id = n /\ e.tokens = {}
  /\ e.life = table[n][x].life /\ e.last_updated \in Readings(n)

BeginWrites(n, v, e) ==
  /\ e \in MembershipEntry
  /\ table' = [table EXCEPT ![n] = [EmptyTable EXCEPT ![n] = e]]
  /\ issued' = [issued EXCEPT ![n] = issued[n] \cup {e}]
  /\ ring' = [ring EXCEPT ![n] = Tokens(n, v)]
  /\ e.status = "UP" /\ e.writer_id = n /\ e.tokens = Tokens(n, v)
  /\ e.life = starts[n] + 1 /\ e.last_updated \in Readings(n)

LEMMA RemoveNodeWrites ==
  ASSUME TypeOK, NEW n \in Node, NEW x \in Node, RemoveNode(n, x)
  PROVE  \E e : RemoveWrites(n, x, e)
<1>1. PICK t \in Readings(n) :
         LET e == RemovedEntry(n, table[n][x], t) IN
         /\ table' = [table EXCEPT ![n] = [table[n] EXCEPT ![x] = e]]
         /\ issued' = [issued EXCEPT ![x] = issued[x] \cup {e}]
  BY DEF RemoveNode
<1>2. table[n][x] \in MembershipEntry /\ t \in Times
  BY TableEntry DEF TypeOK, RemoveNode, UpIn, Readings
<1> DEFINE e == RemovedEntry(n, table[n][x], t)
<1>3. /\ e \in MembershipEntry /\ e.status = "REMOVED" /\ e.writer_id = n
      /\ e.tokens = {} /\ e.life = table[n][x].life /\ e.last_updated = t
  BY <1>2, RemovedEntryType
<1>4. /\ table' = [table EXCEPT ![n] = [table[n] EXCEPT ![x] = e]]
      /\ issued' = [issued EXCEPT ![x] = issued[x] \cup {e}]
  BY <1>1
<1> HIDE DEF e
<1>5. RemoveWrites(n, x, e)
  BY <1>3, <1>4 DEF RemoveWrites
<1> QED
  BY <1>5

LEMMA StartWrites ==
  ASSUME TypeOK, NEW n \in Node, Start(n)
  PROVE  \E v \in Vnodes : \E e : BeginWrites(n, v, e)
<1>1. PICK t \in Readings(n), v \in Vnodes :
         LET e == SelfEntry(n, v, t, starts[n] + 1) IN
         /\ table' = [table EXCEPT ![n] = [EmptyTable EXCEPT ![n] = e]]
         /\ issued' = [issued EXCEPT ![n] = issued[n] \cup {e}]
         /\ ring' = [ring EXCEPT ![n] = Tokens(n, v)]
  BY DEF Start
<1>2. starts[n] + 1 \in Nat /\ t \in Times
  BY DEF TypeOK, Readings
<1> DEFINE e == SelfEntry(n, v, t, starts[n] + 1)
<1>3. /\ e \in MembershipEntry /\ e.status = "UP" /\ e.writer_id = n
      /\ e.tokens = Tokens(n, v) /\ e.life = starts[n] + 1 /\ e.last_updated = t
  BY <1>2, SelfEntryType
<1>4. /\ table' = [table EXCEPT ![n] = [EmptyTable EXCEPT ![n] = e]]
      /\ issued' = [issued EXCEPT ![n] = issued[n] \cup {e}]
      /\ ring' = [ring EXCEPT ![n] = Tokens(n, v)]
  BY <1>1
<1> HIDE DEF e
<1>5. BeginWrites(n, v, e)
  BY <1>3, <1>4 DEF BeginWrites
<1> QED
  BY <1>5

\* Entries are written by RemoveNode and by Start alone.
LEMMA WritingSteps ==
  ASSUME [Next]_vars
  PROVE  \/ UNCHANGED <<issued, starts>>
         \/ \E n, x \in Node : RemoveNode(n, x)
         \/ \E n \in Node : Start(n)
<1> DEFINE Silent == UNCHANGED <<issued, starts>>
<1>1. ASSUME NEW n, NEW m, StartRound(n, m) PROVE Silent
  BY <1>1 DEF StartRound
<1>2. ASSUME NEW n, CallSeed(n) \/ GossipExchange(n) \/ TakeAnswer(n) PROVE Silent
  BY <1>2 DEF CallSeed, GossipExchange, TakeAnswer
<1>3. ASSUME NEW r, LateExchange(r) PROVE Silent
  BY <1>3 DEF LateExchange
<1>4. ASSUME NEW n, CallRefused(n) \/ CallLost(n) PROVE Silent
  BY <1>4 DEF CallRefused, CallLost, GiveUpCall
<1>5. ASSUME NEW n, Crash(n) \/ BootstrapFailed(n) PROVE Silent
  BY <1>5 DEF Crash, BootstrapFailed, Stop
<1>6. CASE UNCHANGED vars
  BY <1>6 DEF vars
<1> HIDE DEF Silent
<1>7. CASE Next
  BY <1>1, <1>2, <1>3, <1>4, <1>5, <1>7 DEF Next, Silent
<1> QED
  BY <1>6, <1>7 DEF Silent

\* Nothing written is forgotten by the history.
LEMMA IssuedGrows ==
  ASSUME TypeOK, [Next]_vars, NEW x \in Node
  PROVE  issued[x] \subseteq issued'[x]
<1>1. ASSUME NEW n \in Node, NEW y \in Node, RemoveNode(n, y)
      PROVE  issued[x] \subseteq issued'[x]
  <2>1. PICK e : RemoveWrites(n, y, e)
    BY <1>1, RemoveNodeWrites
  <2> QED
    BY <2>1 DEF RemoveWrites, TypeOK
<1>2. ASSUME NEW n \in Node, Start(n)
      PROVE  issued[x] \subseteq issued'[x]
  <2>1. PICK v \in Vnodes : \E e : BeginWrites(n, v, e)
    BY <1>2, StartWrites
  <2> QED
    BY <2>1 DEF BeginWrites, TypeOK
<1> QED
  BY <1>1, <1>2, WritingSteps

LEMMA FromGrows ==
  ASSUME TypeOK, [Next]_vars, NEW tab, From(tab, issued)
  PROVE  From(tab, issued')
BY IssuedGrows DEF From

LEMMA StopOnlyIssued ==
  ASSUME TypeOK, OnlyIssued, NEW n \in Node, Stop(n)
  PROVE  OnlyIssued'
<1>1. issued' = issued
  BY DEF Stop
<1>2. \A m \in Node : From(table'[m], issued)
  BY EmptyFrom DEF Stop, TypeOK, OnlyIssued
<1>3. \A m \in Node : From(call'[m].table, issued)
  <2> SUFFICES ASSUME NEW m \in Node PROVE From(call'[m].table, issued)
    OBVIOUS
  <2>1. Idle.table = EmptyTable
    BY DEF Idle
  <2>2. call'[m] = Idle \/ call'[m].table = call[m].table
    BY DEF Stop, TypeOK
  <2> QED
    BY <2>1, <2>2, EmptyFrom DEF OnlyIssued
<1>4. \A r \in late' : From(r.table, issued)
  BY DEF Stop, OnlyIssued
<1> QED
  BY <1>1, <1>2, <1>3, <1>4 DEF OnlyIssued

\* A merge of an issued table leaves issued tables.
LEMMA ApplyGossipFrom ==
  ASSUME TypeOK, OnlyIssued, NEW n \in Node, NEW incoming,
         From(incoming, issued), ApplyGossip(n, incoming)
  PROVE  /\ From(MergedTable(table[n], incoming), issued)
         /\ \A m \in Node : From(table'[m], issued)
BY MergedFrom DEF OnlyIssued, TypeOK, ApplyGossip

LEMMA StepOnlyIssued == TypeOK /\ OnlyIssued /\ [Next]_vars => OnlyIssued'
<1> SUFFICES ASSUME TypeOK, OnlyIssued, [Next]_vars PROVE OnlyIssued'
  OBVIOUS
<1> USE EmptyFrom
<1>0. \A tab : From(tab, issued) => From(tab, issued')
  BY FromGrows
<1>1. ASSUME NEW n \in Node, NEW m \in Node, StartRound(n, m) PROVE OnlyIssued'
  BY <1>1 DEF StartRound, SendGossip, OnlyIssued, TypeOK
<1>2. ASSUME NEW n \in Node, CallSeed(n) PROVE OnlyIssued'
  BY <1>2 DEF CallSeed, SendGossip, OnlyIssued, TypeOK
<1>3. ASSUME NEW n \in Node, GossipExchange(n) PROVE OnlyIssued'
  <2> DEFINE m == call[n].peer
  <2>1. /\ m \in Node /\ ApplyGossip(m, call[n].table)
        /\ From(call[n].table, issued)
    BY <1>3 DEF GossipExchange, TypeOK, OnlyIssued
  <2>2. /\ From(MergedTable(table[m], call[n].table), issued)
        /\ \A k \in Node : From(table'[k], issued)
    BY <2>1, ApplyGossipFrom
  <2>3. \A k \in Node : From(call'[k].table, issued)
    BY <1>3, <2>2 DEF GossipExchange, TypeOK, OnlyIssued
  <2> QED
    BY <1>3, <2>2, <2>3 DEF GossipExchange, OnlyIssued
<1>4. ASSUME NEW r \in late, LateExchange(r) PROVE OnlyIssued'
  <2>1. r.to \in Node /\ ApplyGossip(r.to, r.table) /\ From(r.table, issued)
    BY <1>4 DEF LateExchange, TypeOK, OnlyIssued
  <2> QED
    BY <1>4, <2>1, ApplyGossipFrom DEF LateExchange, OnlyIssued
<1>5. ASSUME NEW n \in Node, TakeAnswer(n) PROVE OnlyIssued'
  <2>1. ApplyGossip(n, call[n].table) /\ From(call[n].table, issued)
    BY <1>5 DEF TakeAnswer, OnlyIssued
  <2> QED
    BY <1>5, <2>1, ApplyGossipFrom DEF TakeAnswer, TypeOK, OnlyIssued, Idle
<1>6. ASSUME NEW n \in Node, CallRefused(n) PROVE OnlyIssued'
  BY <1>6 DEF CallRefused, GiveUpCall, TypeOK, OnlyIssued, Idle
<1>7. ASSUME NEW n \in Node, CallLost(n) PROVE OnlyIssued'
  BY <1>7 DEF CallLost, GiveUpCall, TypeOK, OnlyIssued, Idle
<1>8. ASSUME NEW n \in Node, NEW x \in Node, RemoveNode(n, x) PROVE OnlyIssued'
  <2>0. PICK e : RemoveWrites(n, x, e)
    BY <1>8, RemoveNodeWrites
  <2>1. /\ table' = [table EXCEPT ![n] = [table[n] EXCEPT ![x] = e]]
        /\ issued' = [issued EXCEPT ![x] = issued[x] \cup {e}]
    BY <2>0 DEF RemoveWrites
  <2>2. From(table'[n], issued')
    <3>1. From(table[n], issued)
      BY <1>0 DEF OnlyIssued
    <3>2. table \in [Node -> MembershipTable] /\ issued \in [Node -> SUBSET MembershipEntry]
      BY DEF TypeOK
    <3>3. table'[n] = [table[n] EXCEPT ![x] = e] /\ table[n] \in MembershipTable
      BY <2>1, <3>2
    <3>4. \A y \in Node : table'[n][y] = IF y = x THEN e ELSE table[n][y]
      BY <3>3 DEF MembershipTable
    <3>5. \A y \in Node : issued[y] \subseteq issued'[y]
      BY <2>1, <3>2
    <3>6. e \in issued'[x]
      BY <2>1, <3>2
    <3> QED
      BY <3>1, <3>4, <3>5, <3>6 DEF From
  <2>3. \A m \in Node \ {n} : table'[m] = table[m]
    BY <2>1 DEF TypeOK
  <2> QED
    BY <1>0, <1>8, <2>2, <2>3 DEF RemoveNode, OnlyIssued
<1>9. ASSUME NEW n \in Node, Start(n) PROVE OnlyIssued'
  <2>0. PICK v \in Vnodes : \E e : BeginWrites(n, v, e)
    BY <1>9, StartWrites
  <2>1. PICK e : /\ table' = [table EXCEPT ![n] = [EmptyTable EXCEPT ![n] = e]]
                 /\ issued' = [issued EXCEPT ![n] = issued[n] \cup {e}]
    BY <2>0 DEF BeginWrites
  <2>2. From(table'[n], issued')
    BY <2>1 DEF From, TypeOK, EmptyTable
  <2>3. \A m \in Node \ {n} : table'[m] = table[m]
    BY <2>1 DEF TypeOK
  <2> QED
    BY <1>0, <1>9, <2>2, <2>3 DEF Start, OnlyIssued
<1>10. ASSUME NEW n \in Node, Crash(n) PROVE OnlyIssued'
  BY <1>10, StopOnlyIssued DEF Crash
<1>11. ASSUME NEW n \in Node, BootstrapFailed(n) PROVE OnlyIssued'
  BY <1>11, StopOnlyIssued DEF BootstrapFailed
<1>12. ASSUME UNCHANGED vars PROVE OnlyIssued'
  BY <1>12 DEF vars, OnlyIssued
<1> QED
  BY <1>1, <1>2, <1>3, <1>4, <1>5, <1>6, <1>7, <1>8, <1>9, <1>10, <1>11, <1>12
  DEF Next

LEMMA InitOnlyIssued == Init => OnlyIssued
<1> SUFFICES ASSUME Init PROVE OnlyIssued
  OBVIOUS
<1>1. PICK v \in Vnodes, at \in [Node -> FounderTimes] :
           /\ table = [n \in Node |-> IF n \in Founders THEN View(v, at)
                                      ELSE EmptyTable]
           /\ issued = [x \in Node |-> IF x \in Founders THEN {View(v, at)[x]}
                                       ELSE {}]
  BY InitTables
<1>2. From(View(v, at), issued)
  BY <1>1 DEF From, View
<1> QED
  BY <1>1, <1>2, EmptyFrom DEF Init, OnlyIssued, Idle

-----------------------------------------------------------------------------
\* An UP entry carries the tokens of its subject, any other entry none.
Shape(e, x) ==
  /\ e.status = "UP" => \E v \in Vnodes : e.tokens = Tokens(x, v)
  /\ e.status # "UP" => e.tokens = {}

IssuedShape == \A x \in Node : \A e \in issued[x] : Shape(e, x)

OneVnodes == \A v, w \in Vnodes : v = w

RingOf(tab) == UNION {tab[x].tokens : x \in UpIn(tab)}

LEMMA TokenOwner ==
  ASSUME NEW x \in Node, NEW e, Shape(e, x), NEW k \in e.tokens
  PROVE  k[1] = x /\ e.status = "UP"
BY DEF Shape, Tokens

LEMMA TableShape ==
  ASSUME IssuedShape, NEW a \in MembershipTable, From(a, issued), NEW x \in Node
  PROVE  Shape(a[x], x)
BY UnknownType DEF IssuedShape, From, Shape

\* mergeInto keeps the ring the table's, if it was before.
LEMMA MergeKeepsRing ==
  ASSUME OneVnodes, IssuedShape,
         NEW a \in MembershipTable, From(a, issued),
         NEW b \in MembershipTable, From(b, issued)
  PROVE  MergedRing(RingOf(a), a, b) = RingOf(MergedTable(a, b))
<1> DEFINE c == MergedTable(a, b)
<1>1. \A x \in Node : Shape(a[x], x) /\ Shape(b[x], x)
  BY TableShape
<1>2. \A x \in Node : /\ a[x].status \in {"UP", "REMOVED", "UNKNOWN"}
                      /\ b[x].status \in {"UP", "REMOVED", "UNKNOWN"}
                      /\ Wins(b[x], a[x]) => b[x].status # "UNKNOWN"
  <2> SUFFICES ASSUME NEW x \in Node
               PROVE  /\ a[x].status \in {"UP", "REMOVED", "UNKNOWN"}
                      /\ b[x].status \in {"UP", "REMOVED", "UNKNOWN"}
                      /\ Wins(b[x], a[x]) => b[x].status # "UNKNOWN"
    OBVIOUS
  <2>1. b[x].status = "UNKNOWN" => b[x] = Unknown
    BY EntryFields, UnknownType, TableEntry
  <2>2. a[x].last_updated \in Nat /\ a[x].writer_id \in Nat
    BY TableEntry
  <2>3. Wins(b[x], a[x]) => b[x] # Unknown
    BY <2>2, UnknownType DEF Wins
  <2> QED
    BY <2>1, <2>3, TableEntry
<1>3. \A x \in Node : c[x] = IF Wins(b[x], a[x]) THEN b[x] ELSE a[x]
  BY DEF MergedTable
<1>4. \A x \in Node : a[x].status = "UP" /\ b[x].status = "UP"
                        => a[x].tokens = b[x].tokens
  BY <1>1 DEF Shape, OneVnodes
<1> HIDE DEF c
<1>5. ASSUME NEW k \in MergedRing(RingOf(a), a, b) PROVE k \in RingOf(c)
  <2>1. CASE k \in RingOf(a) /\ k \notin Erased(a, b)
    <3>1. PICK x \in Node : a[x].status = "UP" /\ k \in a[x].tokens
      BY <2>1 DEF RingOf, UpIn
    <3>2. Wins(b[x], a[x]) => b[x].status # "REMOVED"
      BY <2>1, <3>1 DEF Erased
    <3>3. Wins(b[x], a[x]) => b[x].status = "UP" /\ k \in b[x].tokens
      BY <1>2, <1>4, <3>1, <3>2
    <3>4. c[x].status = "UP" /\ k \in c[x].tokens
      BY <1>3, <3>1, <3>3
    <3> QED
      BY <3>4 DEF RingOf, UpIn
  <2>2. CASE k \in Added(a, b)
    <3>1. PICK x \in Node : Wins(b[x], a[x]) /\ k \in b[x].tokens
      BY <2>2 DEF Added
    <3>2. b[x].status = "UP"
      BY <1>1, <3>1, TokenOwner
    <3>3. c[x].status = "UP" /\ k \in c[x].tokens
      BY <1>3, <3>1, <3>2
    <3> QED
      BY <3>3 DEF RingOf, UpIn
  <2> QED
    BY <1>5, <2>1, <2>2 DEF MergedRing
<1>6. ASSUME NEW k \in RingOf(c) PROVE k \in MergedRing(RingOf(a), a, b)
  <2>1. PICK x \in Node : c[x].status = "UP" /\ k \in c[x].tokens
    BY <1>6 DEF RingOf, UpIn
  <2>2. k[1] = x
    BY <1>1, <1>3, <2>1, TokenOwner
  <2>3. CASE ~Wins(b[x], a[x])
    <3>1. a[x].status = "UP" /\ k \in a[x].tokens
      BY <1>3, <2>1, <2>3
    <3>2. k \in RingOf(a)
      BY <3>1 DEF RingOf, UpIn
    <3>3. k \notin Erased(a, b)
      <4> SUFFICES ASSUME NEW y \in Node, Wins(b[y], a[y]), k \in a[y].tokens
                   PROVE  FALSE
        BY DEF Erased
      <4>1. y = x
        BY <1>1, <2>2, TokenOwner
      <4> QED
        BY <2>3, <4>1
    <3> QED
      BY <3>2, <3>3 DEF MergedRing
  <2>4. CASE Wins(b[x], a[x]) /\ a[x].status = "UP"
    <3>1. b[x].status = "UP" /\ k \in b[x].tokens
      BY <1>3, <2>1, <2>4
    <3>2. k \in RingOf(a)
      BY <1>4, <2>4, <3>1 DEF RingOf, UpIn
    <3>3. k \notin Erased(a, b)
      <4> SUFFICES ASSUME NEW y \in Node, b[y].status = "REMOVED",
                          k \in a[y].tokens
                   PROVE  FALSE
        BY DEF Erased
      <4>1. y = x
        BY <1>1, <2>2, TokenOwner
      <4> QED
        BY <3>1, <4>1
    <3> QED
      BY <3>2, <3>3 DEF MergedRing
  <2>5. CASE Wins(b[x], a[x]) /\ a[x].status # "UP"
    <3>1. b[x].status = "UP" /\ k \in b[x].tokens
      BY <1>3, <2>1, <2>5
    <3>2. k \in Added(a, b)
      BY <1>2, <2>5, <3>1 DEF Added
    <3> QED
      BY <3>2 DEF MergedRing
  <2> QED
    BY <2>3, <2>4, <2>5
<1> QED
  BY <1>5, <1>6 DEF c

LEMMA InitShape == Init => IssuedShape /\ RingIsTable
<1> SUFFICES ASSUME Init PROVE IssuedShape /\ RingIsTable
  OBVIOUS
<1>1. PICK v \in Vnodes, at \in [Node -> FounderTimes] :
           /\ table = [n \in Node |-> IF n \in Founders THEN View(v, at)
                                      ELSE EmptyTable]
           /\ ring = [n \in Node |-> IF n \in Founders
                       THEN UNION {Tokens(x, v) : x \in Founders} ELSE {}]
           /\ issued = [x \in Node |-> IF x \in Founders THEN {View(v, at)[x]}
                                       ELSE {}]
  BY InitTables
<1>2. \A x \in Founders : /\ View(v, at)[x].status = "UP"
                          /\ View(v, at)[x].tokens = Tokens(x, v)
  <2> SUFFICES ASSUME NEW x \in Founders
               PROVE  /\ View(v, at)[x].status = "UP"
                      /\ View(v, at)[x].tokens = Tokens(x, v)
    OBVIOUS
  <2>1. x \in Node
    OBVIOUS
  <2>2. View(v, at)[x] = SelfEntry(x, v, at[x], 1)
    BY <2>1 DEF View
  <2> QED
    BY <2>2 DEF SelfEntry
<1>3. \A x \in Node \ Founders : View(v, at)[x].status = "UNKNOWN"
  BY UnknownType DEF View
<1>4. IssuedShape
  BY <1>1, <1>2 DEF IssuedShape, Shape
<1>5. UpIn(View(v, at)) = Founders
  BY <1>2, <1>3 DEF UpIn
<1>6. UNION {View(v, at)[x].tokens : x \in UpIn(View(v, at))}
        = UNION {Tokens(x, v) : x \in Founders}
  <2>1. {View(v, at)[x].tokens : x \in Founders} = {Tokens(x, v) : x \in Founders}
    BY <1>2
  <2> QED
    BY <1>5, <2>1
<1>7. UpIn(EmptyTable) = {}
  BY UnknownType DEF UpIn, EmptyTable
<1>8. ASSUME NEW n \in Node
      PROVE  ring[n] = UNION {table[n][x].tokens : x \in UpIn(table[n])}
  <2>1. CASE n \in Founders
    <3>1. table[n] = View(v, at) /\ ring[n] = UNION {Tokens(x, v) : x \in Founders}
      BY <1>1, <2>1
    <3> QED
      BY <1>6, <3>1
  <2>2. CASE n \notin Founders
    <3>1. table[n] = EmptyTable /\ ring[n] = {}
      BY <1>1, <2>2
    <3> QED
      BY <1>7, <3>1
  <2> QED
    BY <2>1, <2>2
<1> QED
  BY <1>4, <1>8 DEF RingIsTable

\* The shape of the entries and the ring survive a step.
LEMMA StepShape ==
  TypeOK /\ IssuedShape /\ [Next]_vars => IssuedShape'
<1> SUFFICES ASSUME TypeOK, IssuedShape, [Next]_vars PROVE IssuedShape'
  OBVIOUS
<1>1. ASSUME NEW n \in Node, NEW x \in Node, RemoveNode(n, x) PROVE IssuedShape'
  <2>1. PICK e : RemoveWrites(n, x, e)
    BY <1>1, RemoveNodeWrites
  <2>2. Shape(e, x) /\ issued' = [issued EXCEPT ![x] = issued[x] \cup {e}]
    BY <2>1 DEF RemoveWrites, Shape
  <2> QED
    BY <2>2 DEF IssuedShape, TypeOK
<1>2. ASSUME NEW n \in Node, Start(n) PROVE IssuedShape'
  <2>1. PICK v \in Vnodes : \E e : BeginWrites(n, v, e)
    BY <1>2, StartWrites
  <2>2. PICK e : BeginWrites(n, v, e)
    BY <2>1
  <2>3. Shape(e, n) /\ issued' = [issued EXCEPT ![n] = issued[n] \cup {e}]
    BY <2>2 DEF BeginWrites, Shape
  <2> QED
    BY <2>3 DEF IssuedShape, TypeOK
<1>3. CASE issued' = issued
  BY <1>3 DEF IssuedShape
<1> QED
  BY <1>1, <1>2, <1>3, WritingSteps

\* A step that changes one node's table and ring.
LEMMA RingPerNode ==
  ASSUME RingIsTable, NEW n \in Node, ring'[n] = RingOf(table'[n]),
         \A m \in Node \ {n} : ring'[m] = ring[m] /\ table'[m] = table[m]
  PROVE  RingIsTable'
<1>1. \A m \in Node : ring[m] = RingOf(table[m])
  BY DEF RingIsTable, RingOf
<1>2. ASSUME NEW m \in Node PROVE ring'[m] = RingOf(table'[m])
  <2>1. CASE m = n
    BY <2>1
  <2>2. CASE m # n
    <3>1. ring'[m] = ring[m] /\ table'[m] = table[m]
      BY <2>2
    <3> QED
      BY <1>1, <3>1
  <2> QED
    BY <2>1, <2>2
<1> QED
  BY <1>2 DEF RingIsTable, RingOf

LEMMA ApplyGossipRing ==
  ASSUME TypeOK, OnlyIssued, IssuedShape, RingIsTable, OneVnodes,
         NEW n \in Node, NEW incoming \in MembershipTable,
         From(incoming, issued), ApplyGossip(n, incoming)
  PROVE  RingIsTable'
<1>1. ring[n] = RingOf(table[n])
  BY DEF RingIsTable, RingOf
<1>2. MergedRing(ring[n], table[n], incoming) = RingOf(MergedTable(table[n], incoming))
  BY <1>1, MergeKeepsRing DEF TypeOK, OnlyIssued
<1>3. ring'[n] = RingOf(table'[n])
  BY <1>2 DEF ApplyGossip, TypeOK
<1>4. \A m \in Node \ {n} : ring'[m] = ring[m] /\ table'[m] = table[m]
  BY DEF ApplyGossip, TypeOK
<1> QED
  BY <1>3, <1>4, RingPerNode

LEMMA RemoveNodeRing ==
  ASSUME TypeOK, OnlyIssued, IssuedShape, RingIsTable,
         NEW n \in Node, NEW x \in Node, RemoveNode(n, x)
  PROVE  RingIsTable'
<1>1. PICK e : RemoveWrites(n, x, e)
  BY RemoveNodeWrites
<1>2. /\ table'[n] = [table[n] EXCEPT ![x] = e]
      /\ ring'[n] = ring[n] \ table[n][x].tokens
      /\ \A m \in Node \ {n} : ring'[m] = ring[m] /\ table'[m] = table[m]
  <2>1. /\ table \in [Node -> MembershipTable] /\ ring \in [Node -> SUBSET Token]
        /\ table' = [table EXCEPT ![n] = [table[n] EXCEPT ![x] = e]]
        /\ ring' = [ring EXCEPT ![n] = ring[n] \ table[n][x].tokens]
    BY <1>1 DEF RemoveWrites, RemoveNode, TypeOK
  <2> QED
    BY <2>1
<1>3. e.status = "REMOVED" /\ table[n] \in MembershipTable
  BY <1>1 DEF RemoveWrites, TypeOK
<1>4. \A y \in Node : Shape(table[n][y], y)
  BY TableShape, <1>3 DEF OnlyIssued
<1>5. UpIn(table'[n]) = UpIn(table[n]) \ {x}
  BY <1>2, <1>3 DEF UpIn, MembershipTable
<1>6. \A y \in Node \ {x} : table'[n][y] = table[n][y]
  BY <1>2, <1>3 DEF MembershipTable
<1>7. ring[n] = RingOf(table[n])
  BY DEF RingIsTable, RingOf
<1>8. ASSUME NEW k \in ring'[n] PROVE k \in RingOf(table'[n])
  <2>1. PICK y \in UpIn(table[n]) : k \in table[n][y].tokens
    BY <1>2, <1>7, <1>8 DEF RingOf
  <2>2. y # x
    BY <1>2, <1>8, <2>1
  <2>3. y \in UpIn(table'[n]) /\ k \in table'[n][y].tokens
    BY <1>5, <1>6, <2>1, <2>2 DEF UpIn
  <2> QED
    BY <2>3 DEF RingOf
<1>9. ASSUME NEW k \in RingOf(table'[n]) PROVE k \in ring'[n]
  <2>1. PICK y \in UpIn(table'[n]) : k \in table'[n][y].tokens
    BY <1>9 DEF RingOf
  <2>2. y \in Node \ {x} /\ y \in UpIn(table[n]) /\ k \in table[n][y].tokens
    BY <1>5, <1>6, <2>1 DEF UpIn
  <2>3. k \notin table[n][x].tokens
    BY <1>4, <2>2, TokenOwner
  <2> QED
    BY <1>2, <1>7, <2>2, <2>3 DEF RingOf
<1>10. ring'[n] = RingOf(table'[n])
  BY <1>8, <1>9
<1> QED
  BY <1>2, <1>10, RingPerNode

LEMMA StartRing ==
  ASSUME TypeOK, RingIsTable, NEW n \in Node, Start(n)
  PROVE  RingIsTable'
<1>1. PICK v \in Vnodes : \E e : BeginWrites(n, v, e)
  BY StartWrites
<1>2. PICK e : BeginWrites(n, v, e)
  BY <1>1
<1>3. /\ table'[n] = [EmptyTable EXCEPT ![n] = e] /\ ring'[n] = Tokens(n, v)
      /\ e.status = "UP" /\ e.tokens = Tokens(n, v)
      /\ \A m \in Node \ {n} : ring'[m] = ring[m] /\ table'[m] = table[m]
  BY <1>2 DEF BeginWrites, TypeOK
<1>4. UpIn(table'[n]) = {n} /\ table'[n][n] = e
  <2>1. \A x \in Node : table'[n][x] = IF x = n THEN e ELSE Unknown
    BY <1>3 DEF EmptyTable
  <2>2. Unknown.status # "UP"
    BY UnknownType
  <2> HIDE DEF TypeOK
  <2> QED
    BY <1>3, <2>1, <2>2 DEF UpIn
<1>5. ASSUME NEW k PROVE k \in RingOf(table'[n]) <=> k \in Tokens(n, v)
  <2>1. ASSUME k \in Tokens(n, v) PROVE k \in RingOf(table'[n])
    <3>1. n \in UpIn(table'[n]) /\ k \in table'[n][n].tokens
      BY <1>3, <1>4, <2>1
    <3> QED
      BY <3>1 DEF RingOf
  <2>2. ASSUME k \in RingOf(table'[n]) PROVE k \in Tokens(n, v)
    <3>1. PICK x \in UpIn(table'[n]) : k \in table'[n][x].tokens
      BY <2>2 DEF RingOf
    <3> QED
      BY <1>3, <1>4, <3>1
  <2> QED
    BY <2>1, <2>2
<1>6. RingOf(table'[n]) = Tokens(n, v)
  BY <1>5
<1>7. ring'[n] = RingOf(table'[n])
  BY <1>3, <1>6
<1> QED
  BY <1>3, <1>7, RingPerNode

LEMMA StopRing ==
  ASSUME TypeOK, RingIsTable, NEW n \in Node, Stop(n)
  PROVE  RingIsTable'
<1>1. /\ table'[n] = EmptyTable /\ ring'[n] = {}
      /\ \A m \in Node \ {n} : ring'[m] = ring[m] /\ table'[m] = table[m]
  BY DEF Stop, TypeOK
<1>2. UpIn(EmptyTable) = {}
  BY UnknownType DEF UpIn, EmptyTable
<1>3. RingOf(table'[n]) = {}
  BY <1>1, <1>2 DEF RingOf
<1> QED
  BY <1>1, <1>3, RingPerNode

LEMMA StepRing ==
  ASSUME OneVnodes
  PROVE  TypeOK /\ OnlyIssued /\ IssuedShape /\ RingIsTable /\ [Next]_vars
           => RingIsTable'
<1> SUFFICES ASSUME TypeOK, OnlyIssued, IssuedShape, RingIsTable, [Next]_vars
             PROVE  RingIsTable'
  OBVIOUS
<1>1. ASSUME NEW n \in Node, GossipExchange(n) PROVE RingIsTable'
  <2>1. /\ call[n].peer \in Node /\ call[n].table \in MembershipTable
        /\ From(call[n].table, issued) /\ ApplyGossip(call[n].peer, call[n].table)
    BY <1>1 DEF GossipExchange, TypeOK, OnlyIssued
  <2> QED
    BY <2>1, ApplyGossipRing
<1>2. ASSUME NEW r \in late, LateExchange(r) PROVE RingIsTable'
  <2>1. /\ r.to \in Node /\ r.table \in MembershipTable
        /\ From(r.table, issued) /\ ApplyGossip(r.to, r.table)
    BY <1>2 DEF LateExchange, TypeOK, OnlyIssued
  <2> QED
    BY <2>1, ApplyGossipRing
<1>3. ASSUME NEW n \in Node, TakeAnswer(n) PROVE RingIsTable'
  <2>1. /\ call[n].table \in MembershipTable
        /\ From(call[n].table, issued) /\ ApplyGossip(n, call[n].table)
    BY <1>3 DEF TakeAnswer, TypeOK, OnlyIssued
  <2> QED
    BY <2>1, ApplyGossipRing
<1>4. ASSUME NEW n \in Node, NEW x \in Node, RemoveNode(n, x) PROVE RingIsTable'
  BY <1>4, RemoveNodeRing
<1>5. ASSUME NEW n \in Node, Start(n) PROVE RingIsTable'
  BY <1>5, StartRing
<1>6. ASSUME NEW n \in Node, Stop(n) PROVE RingIsTable'
  BY <1>6, StopRing
<1>7. CASE UNCHANGED <<table, ring>>
  BY <1>7 DEF RingIsTable
<1> QED
  BY <1>1, <1>2, <1>3, <1>4, <1>5, <1>6, <1>7 DEF Next, vars, StartRound,
     CallSeed, CallRefused, CallLost, GiveUpCall, Crash, BootstrapFailed

\* While every process is started with one --vnodes, the ring every node walks
\* is exactly the tokens of the nodes its table shows UP.
THEOREM RingCorrect ==
  ASSUME OneVnodes
  PROVE  Spec => []RingIsTable
<1> DEFINE Inv == TypeOK /\ OnlyIssued /\ IssuedShape /\ RingIsTable
<1>1. Init => Inv
  BY InitType, InitOnlyIssued, InitShape
<1>2. Inv /\ [Next]_vars => Inv'
  BY StepType, StepOnlyIssued, StepShape, StepRing
<1>3. Inv => RingIsTable
  OBVIOUS
<1> QED
  BY <1>1, <1>2, <1>3, PTL DEF Spec

-----------------------------------------------------------------------------
LEMMA WinsOrder ==
  ASSUME NEW a \in MembershipTable, NEW b \in MembershipTable, NEW x \in Node,
         NEW e \in MembershipEntry, ~Wins(e, a[x])
  PROVE  ~Wins(e, MergedTable(a, b)[x])
<1>1. /\ a[x].last_updated \in Nat /\ a[x].writer_id \in Nat
      /\ b[x].last_updated \in Nat /\ b[x].writer_id \in Nat
      /\ e.last_updated \in Nat /\ e.writer_id \in Nat
  BY TableEntry, EntryFields
<1>2. MergedTable(a, b)[x] = IF Wins(b[x], a[x]) THEN b[x] ELSE a[x]
  BY DEF MergedTable
<1> QED
  BY <1>1, <1>2 DEF Wins

\* Two steps of the abstract registers, read off a merge and a stop.
LEMMA MergeLearns ==
  ASSUME TypeOK, OnlyIssued, NEW n \in Node, NEW incoming \in MembershipTable,
         From(incoming, issued), ApplyGossip(n, incoming), issued' = issued
  PROVE  LWW!Next
<1>1. table'[n] = MergedTable(table[n], incoming)
      /\ \A m \in Node \ {n} : table'[m] = table[m]
  BY DEF ApplyGossip, TypeOK
<1>2. ASSUME NEW x \in Node
      PROVE  \/ table'[n][x] = table[n][x]
             \/ /\ table'[n][x] \in issued[x]
                /\ Wins(table'[n][x], table[n][x])
  <2>1. table'[n][x] = IF Wins(incoming[x], table[n][x]) THEN incoming[x]
                       ELSE table[n][x]
    BY <1>1 DEF MergedTable
  <2>2. Wins(incoming[x], table[n][x]) => incoming[x] # Unknown
    <3>1. table[n] \in MembershipTable
      BY DEF TypeOK
    <3>2. table[n][x].last_updated \in Nat /\ table[n][x].writer_id \in Nat
      BY <3>1, TableEntry
    <3>3. Unknown.last_updated = 0 /\ Unknown.writer_id = 0
      BY UnknownType
    <3> QED
      BY <3>2, <3>3 DEF Wins
  <2> QED
    BY <2>1, <2>2 DEF From
<1> QED
  BY <1>1, <1>2 DEF LWW!Next, LWW!Learn, LWW!LearnedBy, LWW!Others

LEMMA StopForgets ==
  ASSUME TypeOK, NEW n \in Node, Stop(n)
  PROVE  LWW!Next
BY DEF Stop, TypeOK, EmptyTable, LWW!Next, LWW!Forget, LWW!Others

LEMMA RemoveNodeIsWrite ==
  ASSUME TypeOK, NEW n \in Node, NEW x \in Node, RemoveNode(n, x)
  PROVE  LWW!Next
<1>1. PICK e : RemoveWrites(n, x, e)
  BY RemoveNodeWrites
<1>2. /\ table' = [table EXCEPT ![n] = [table[n] EXCEPT ![x] = e]]
      /\ issued' = [issued EXCEPT ![x] = issued[x] \cup {e}]
      /\ e \in MembershipEntry /\ table[n] \in MembershipTable
  BY <1>1 DEF RemoveWrites, TypeOK
<1>3. table'[n] = [table[n] EXCEPT ![x] = e] /\ table'[n][x] = e
  BY <1>2 DEF TypeOK, MembershipTable
<1>4. \A m \in Node \ {n} : table'[m] = table[m]
  BY <1>2 DEF TypeOK
<1>5. LWW!Written(n, x)
  BY <1>2, <1>3 DEF LWW!Written
<1>6. LWW!Write(n, x)
  BY <1>3, <1>4, <1>5 DEF LWW!Write, LWW!Others
<1> QED
  BY <1>6 DEF LWW!Next

LEMMA StartIsBegin ==
  ASSUME TypeOK, NEW n \in Node, Start(n)
  PROVE  LWW!Next
<1>1. PICK v \in Vnodes : \E e : BeginWrites(n, v, e)
  BY StartWrites
<1>2. PICK e : BeginWrites(n, v, e)
  BY <1>1
<1>3. /\ table'[n] = [EmptyTable EXCEPT ![n] = e]
      /\ issued' = [issued EXCEPT ![n] = issued[n] \cup {e}]
      /\ e \in MembershipEntry
      /\ \A m \in Node \ {n} : table'[m] = table[m]
  BY <1>2 DEF BeginWrites, TypeOK
<1>4. table'[n] = [x \in Node |-> IF x = n THEN e ELSE Unknown] /\ table'[n][n] = e
  BY <1>3 DEF EmptyTable
<1> QED
  BY <1>3, <1>4 DEF LWW!Next, LWW!Begin, LWW!Written, LWW!Others

LEMMA StepRefines ==
  TypeOK /\ OnlyIssued /\ [Next]_vars => [LWW!Next]_<<table, issued>>
<1> SUFFICES ASSUME TypeOK, OnlyIssued, [Next]_vars
             PROVE  [LWW!Next]_<<table, issued>>
  OBVIOUS
<1>1. ASSUME NEW n \in Node, GossipExchange(n) PROVE LWW!Next
  <2>1. /\ call[n].peer \in Node /\ call[n].table \in MembershipTable
        /\ From(call[n].table, issued) /\ ApplyGossip(call[n].peer, call[n].table)
        /\ issued' = issued
    BY <1>1 DEF GossipExchange, TypeOK, OnlyIssued
  <2> QED
    BY <2>1, MergeLearns
<1>2. ASSUME NEW r \in late, LateExchange(r) PROVE LWW!Next
  <2>1. /\ r.to \in Node /\ r.table \in MembershipTable
        /\ From(r.table, issued) /\ ApplyGossip(r.to, r.table) /\ issued' = issued
    BY <1>2 DEF LateExchange, TypeOK, OnlyIssued
  <2> QED
    BY <2>1, MergeLearns
<1>3. ASSUME NEW n \in Node, TakeAnswer(n) PROVE LWW!Next
  <2>1. /\ call[n].table \in MembershipTable
        /\ From(call[n].table, issued) /\ ApplyGossip(n, call[n].table)
        /\ issued' = issued
    BY <1>3 DEF TakeAnswer, TypeOK, OnlyIssued
  <2> QED
    BY <2>1, MergeLearns
<1>4. ASSUME NEW n \in Node, NEW x \in Node, RemoveNode(n, x) PROVE LWW!Next
  BY <1>4, RemoveNodeIsWrite
<1>5. ASSUME NEW n \in Node, Start(n) PROVE LWW!Next
  BY <1>5, StartIsBegin
<1>6. ASSUME NEW n \in Node, Stop(n) PROVE LWW!Next
  BY <1>6, StopForgets
<1>7. CASE UNCHANGED <<table, issued>>
  BY <1>7
<1> QED
  BY <1>1, <1>2, <1>3, <1>4, <1>5, <1>6, <1>7 DEF Next, vars, StartRound,
     CallSeed, CallRefused, CallLost, GiveUpCall, Crash, BootstrapFailed

LEMMA InitRefines == Init => LWW!Init
<1> SUFFICES ASSUME Init PROVE LWW!Init
  OBVIOUS
<1>1. TypeOK /\ OnlyIssued
  BY InitType, InitOnlyIssued
<1> QED
  BY <1>1 DEF LWW!Init, TypeOK, MembershipTable, OnlyIssued, From

\* Gossip by snapshots, merges, answers and late requests implements
\* last-writer-wins registers.
THEOREM MembershipIsRegisters == Spec => ImplementsRegisters
<1>1. TypeOK /\ OnlyIssued /\ [Next]_vars => (TypeOK /\ OnlyIssued)'
  BY StepType, StepOnlyIssued
<1> QED
  BY <1>1, InitType, InitOnlyIssued, InitRefines, StepRefines, PTL
  DEF Spec, ImplementsRegisters, LWW!Spec

-----------------------------------------------------------------------------
(***************************************************************************)
(* What clocks that never repeat a reading buy.                            *)
(***************************************************************************)
OwnClocksForward == Clocks \in {"one", "skewed"}

\* An UP entry is written by its subject; a node's entries have earlier stamps
\* than its clock's next reading, so no two share a stamp.
UpByItself ==
  \A x \in Node : \A e \in issued[x] : e.status = "UP" => e.writer_id = x

StampsUnique ==
  \A x, y \in Node : \A d \in issued[x], e \in issued[y] :
    d.last_updated = e.last_updated /\ d.writer_id = e.writer_id
      => x = y /\ d = e

Authors == UpByItself /\ StampsUnique

LEMMA AuthorsStay == Authors /\ UNCHANGED issued => Authors'
BY DEF Authors, UpByItself, StampsUnique

\* A running node's own entry is beaten by no UP entry about it, and a stopped
\* node has no table.
OwnEntryAhead ==
  \A n \in Node :
    IF n \in up THEN \A e \in issued[n] : e.status = "UP" => ~Wins(e, table[n][n])
    ELSE table[n] = EmptyTable

LEMMA LaterReading ==
  ASSUME OwnClocksForward, TypeOK, NEW n \in Node, NEW t \in Readings(n),
         NEW x \in Node, NEW e \in issued[x], e.writer_id = n
  PROVE  e.last_updated < t
BY DEF OwnClocksForward, Readings

LEMMA InitAuthors == Init => Authors /\ OwnEntryAhead
<1> SUFFICES ASSUME Init PROVE Authors /\ OwnEntryAhead
  OBVIOUS
<1>1. PICK v \in Vnodes, at \in [Node -> FounderTimes] :
           /\ table = [n \in Node |-> IF n \in Founders THEN View(v, at)
                                      ELSE EmptyTable]
           /\ issued = [x \in Node |-> IF x \in Founders THEN {View(v, at)[x]}
                                       ELSE {}]
  BY InitTables
<1>2. ASSUME NEW x \in Founders
      PROVE  View(v, at)[x].writer_id = x /\ View(v, at)[x] \in MembershipEntry
  <2>1. View(v, at)[x] = SelfEntry(x, v, at[x], 1)
    BY DEF View
  <2> QED
    BY <2>1, ViewType DEF SelfEntry
<1>3. Authors
  <2>1. \A x \in Node : \A e \in issued[x] :
          x \in Founders /\ e = View(v, at)[x] /\ e.writer_id = x
    BY <1>1, <1>2
  <2> QED
    BY <2>1 DEF Authors, UpByItself, StampsUnique
<1>4. ASSUME NEW n \in Founders, NEW e \in issued[n] PROVE ~Wins(e, table[n][n])
  <2>1. e = View(v, at)[n] /\ table[n][n] = View(v, at)[n]
    BY <1>1
  <2>2. e.last_updated \in Nat /\ e.writer_id \in Nat
    BY <1>2, <2>1, EntryFields
  <2> QED
    BY <2>1, <2>2 DEF Wins
<1> QED
  BY <1>1, <1>3, <1>4 DEF Init, OwnEntryAhead

LEMMA StepAuthors ==
  ASSUME OwnClocksForward
  PROVE  TypeOK /\ Authors /\ [Next]_vars => Authors'
<1> SUFFICES ASSUME TypeOK, Authors, [Next]_vars PROVE Authors'
  OBVIOUS
<1>0. ASSUME NEW n \in Node, NEW x \in Node, NEW e \in MembershipEntry,
             e.writer_id = n, e.last_updated \in Readings(n),
             e.status = "UP" => x = n,
             issued' = [issued EXCEPT ![x] = issued[x] \cup {e}]
      PROVE  Authors'
  <2>1. \A y \in Node : \A d \in issued[y] : d.writer_id = n
          => d.last_updated # e.last_updated
    <3> SUFFICES ASSUME NEW y \in Node, NEW d \in issued[y], d.writer_id = n
                 PROVE  d.last_updated # e.last_updated
      OBVIOUS
    <3>1. d.last_updated < e.last_updated
      BY <1>0, LaterReading
    <3>2. d.last_updated \in Nat /\ e.last_updated \in Nat
      BY <1>0, EntryFields DEF TypeOK
    <3> QED
      BY <3>1, <3>2
  <2>2. \A y \in Node : \A d \in issued'[y] : d \in issued[y] \/ (y = x /\ d = e)
    BY <1>0 DEF TypeOK
  <2>3. \A y \in Node : \A d \in issued'[y] : d.status = "UP" => d.writer_id = y
    BY <1>0, <2>2 DEF Authors, UpByItself
  <2>4. ASSUME NEW y \in Node, NEW z \in Node,
               NEW d \in issued'[y], NEW f \in issued'[z],
               d.last_updated = f.last_updated, d.writer_id = f.writer_id
        PROVE  y = z /\ d = f
    BY <1>0, <2>1, <2>2, <2>4 DEF Authors, StampsUnique
  <2>5. UpByItself'
    BY <2>3 DEF UpByItself
  <2>6. StampsUnique'
    BY <2>4 DEF StampsUnique
  <2> QED
    BY <2>5, <2>6 DEF Authors
<1>1. ASSUME NEW n \in Node, NEW x \in Node, RemoveNode(n, x) PROVE Authors'
  <2>1. PICK e : RemoveWrites(n, x, e)
    BY <1>1, RemoveNodeWrites
  <2> QED
    BY <1>0, <2>1 DEF RemoveWrites
<1>2. ASSUME NEW n \in Node, Start(n) PROVE Authors'
  <2>1. PICK v \in Vnodes : \E e : BeginWrites(n, v, e)
    BY <1>2, StartWrites
  <2>2. PICK e : BeginWrites(n, v, e)
    BY <2>1
  <2>3. /\ e \in MembershipEntry /\ e.writer_id = n
        /\ e.last_updated \in Readings(n)
        /\ issued' = [issued EXCEPT ![n] = issued[n] \cup {e}]
    BY <2>2 DEF BeginWrites
  <2>4. e.status = "UP" => n = n
    OBVIOUS
  <2> QED
    BY <1>0, <2>3, <2>4
<1>3. CASE issued' = issued
  BY <1>3, AuthorsStay
<1> QED
  BY <1>1, <1>2, <1>3, WritingSteps

\* While no host's clock goes back or serves two writes with one reading, two
\* entries with one stamp are one entry.
THEOREM StampsDecide ==
  ASSUME OwnClocksForward
  PROVE  Spec => []StampDecides
<1>1. TypeOK /\ Authors /\ [Next]_vars => (TypeOK /\ Authors)'
  BY StepType, StepAuthors
<1>2. Authors => StampDecides
  BY DEF Authors, StampsUnique, StampDecides
<1> QED
  BY <1>1, <1>2, InitType, InitAuthors, PTL DEF Spec

LEMMA MergeKeepsAhead ==
  ASSUME TypeOK, OwnEntryAhead, NEW n \in up, NEW incoming \in MembershipTable,
         ApplyGossip(n, incoming), issued' = issued, up' = up
  PROVE  OwnEntryAhead'
<1>1. n \in Node /\ table[n] \in MembershipTable
  BY DEF TypeOK
<1>2. /\ table'[n] = MergedTable(table[n], incoming)
      /\ \A m \in Node \ {n} : table'[m] = table[m]
  BY <1>1 DEF ApplyGossip, TypeOK
<1>3. \A e \in issued[n] : e.status = "UP" => ~Wins(e, table'[n][n])
  BY <1>1, <1>2, WinsOrder DEF OwnEntryAhead, TypeOK
<1> QED
  BY <1>1, <1>2, <1>3 DEF OwnEntryAhead

LEMMA StepAhead ==
  ASSUME OwnClocksForward
  PROVE  TypeOK /\ Authors /\ OwnEntryAhead /\ [Next]_vars => OwnEntryAhead'
<1> SUFFICES ASSUME TypeOK, Authors, OwnEntryAhead, [Next]_vars
             PROVE  OwnEntryAhead'
  OBVIOUS
<1>1. ASSUME NEW n \in Node, GossipExchange(n) PROVE OwnEntryAhead'
  <2>1. /\ call[n].peer \in up /\ call[n].table \in MembershipTable
        /\ ApplyGossip(call[n].peer, call[n].table)
        /\ issued' = issued /\ up' = up
    BY <1>1 DEF GossipExchange, TypeOK
  <2> QED
    BY <2>1, MergeKeepsAhead
<1>2. ASSUME NEW r \in late, LateExchange(r) PROVE OwnEntryAhead'
  <2>1. /\ r.to \in up /\ r.table \in MembershipTable
        /\ ApplyGossip(r.to, r.table) /\ issued' = issued /\ up' = up
    BY <1>2 DEF LateExchange, TypeOK
  <2> QED
    BY <2>1, MergeKeepsAhead
<1>3. ASSUME NEW n \in Node, TakeAnswer(n) PROVE OwnEntryAhead'
  <2>1. /\ n \in up /\ call[n].table \in MembershipTable
        /\ ApplyGossip(n, call[n].table) /\ issued' = issued /\ up' = up
    BY <1>3 DEF TakeAnswer, TypeOK
  <2> QED
    BY <2>1, MergeKeepsAhead
<1>4. ASSUME NEW n \in Node, NEW x \in Node, RemoveNode(n, x) PROVE OwnEntryAhead'
  <2>0. PICK e : RemoveWrites(n, x, e)
    BY <1>4, RemoveNodeWrites
  <2>1. /\ table' = [table EXCEPT ![n] = [table[n] EXCEPT ![x] = e]]
        /\ issued' = [issued EXCEPT ![x] = issued[x] \cup {e}]
        /\ e.status = "REMOVED" /\ e.writer_id = n /\ e.last_updated \in Readings(n)
        /\ n \in up /\ up' = up
    BY <1>4, <2>0 DEF RemoveWrites, RemoveNode
  <2>2. \A m \in Node : \A d \in issued'[m] : d.status = "UP" => d \in issued[m]
    BY <2>1 DEF TypeOK
  <2>3. \A m \in Node : (m # n \/ x # n) => table'[m][m] = table[m][m]
    BY <2>1 DEF TypeOK, MembershipTable
  <2>4. \A m \in Node \ up : table'[m] = table[m]
    BY <2>1 DEF TypeOK
  <2>5. ASSUME x = n, NEW d \in issued[n], d.status = "UP"
        PROVE  ~Wins(d, table'[n][n])
    <3>1. d.writer_id = n
      BY <2>5 DEF Authors, UpByItself
    <3>2. d.last_updated < e.last_updated
      BY <2>1, <2>5, <3>1, LaterReading
    <3>3. table'[n][n] = e
      BY <2>1, <2>5 DEF TypeOK, MembershipTable
    <3>4. d.last_updated \in Nat /\ e.last_updated \in Nat
      BY <2>0, EntryFields DEF TypeOK, RemoveWrites
    <3> QED
      BY <3>2, <3>3, <3>4 DEF Wins
  <2> QED
    BY <2>1, <2>2, <2>3, <2>4, <2>5 DEF OwnEntryAhead
<1>5. ASSUME NEW n \in Node, Start(n) PROVE OwnEntryAhead'
  <2>0. PICK v \in Vnodes : \E e : BeginWrites(n, v, e)
    BY <1>5, StartWrites
  <2>1. PICK e : BeginWrites(n, v, e)
    BY <2>0
  <2>2. /\ table'[n][n] = e /\ up' = up \cup {n}
        /\ issued'[n] = issued[n] \cup {e}
        /\ e \in MembershipEntry /\ e.writer_id = n /\ e.last_updated \in Readings(n)
        /\ \A m \in Node \ {n} : table'[m] = table[m] /\ issued'[m] = issued[m]
    BY <1>5, <2>1 DEF BeginWrites, Start, TypeOK, EmptyTable
  <2>3. e.last_updated \in Nat /\ e.writer_id \in Nat
    BY <2>2, EntryFields
  <2>4. ASSUME NEW d \in issued[n], d.status = "UP" PROVE ~Wins(d, e)
    <3>1. d.writer_id = n /\ d.last_updated \in Nat
      BY <2>4, EntryFields DEF Authors, UpByItself, TypeOK
    <3>2. d.last_updated < e.last_updated
      BY <2>2, <2>4, <3>1, LaterReading
    <3> QED
      BY <2>3, <3>1, <3>2 DEF Wins
  <2>5. ~Wins(e, e)
    BY <2>3 DEF Wins
  <2> QED
    BY <2>2, <2>4, <2>5 DEF OwnEntryAhead
<1>6. ASSUME NEW n \in Node, Stop(n) PROVE OwnEntryAhead'
  BY <1>6 DEF Stop, TypeOK, OwnEntryAhead
<1>7. CASE UNCHANGED <<table, issued, up>>
  BY <1>7 DEF OwnEntryAhead
<1> QED
  BY <1>1, <1>2, <1>3, <1>4, <1>5, <1>6, <1>7 DEF Next, vars, StartRound,
     CallSeed, CallRefused, CallLost, GiveUpCall, Crash, BootstrapFailed

\* One merge never takes a node's own entry from REMOVED to UP.
LEMMA MergeNoReboot ==
  ASSUME TypeOK, OnlyIssued, OwnEntryAhead, NEW n \in Node,
         NEW incoming \in MembershipTable, From(incoming, issued),
         n \in up, ApplyGossip(n, incoming), NEW k \in up,
         table[k][k].status = "REMOVED"
  PROVE  table'[k][k].status # "UP"
<1>1. k \in Node /\ table[n] \in MembershipTable
  BY DEF TypeOK
<1>2. CASE k # n
  BY <1>1, <1>2 DEF ApplyGossip, TypeOK
<1>3. CASE k = n
  <2>1. table'[n][n] = IF Wins(incoming[n], table[n][n]) THEN incoming[n]
                       ELSE table[n][n]
    BY <1>1 DEF ApplyGossip, MergedTable, TypeOK
  <2>2. incoming[n].status = "UP" => incoming[n] \in issued[n]
    BY UnknownType DEF From
  <2> QED
    BY <1>3, <2>1, <2>2 DEF OwnEntryAhead
<1> QED
  BY <1>2, <1>3

\* While no host's clock goes back or serves two writes with one reading, no
\* running node merges its own entry back from REMOVED to UP.
THEOREM NoSelfReboot ==
  ASSUME OwnClocksForward
  PROVE  Spec => NeverRebootsItself
<1> DEFINE Inv == TypeOK /\ OnlyIssued /\ Authors /\ OwnEntryAhead
<1> DEFINE Stays == \A n \in Node : table[n][n].status = "REMOVED" /\ n \in up'
                      => table'[n][n].status # "UP" \/ n \notin up
<1>1. Init => Inv
  BY InitType, InitOnlyIssued, InitAuthors
<1>2. Inv /\ [Next]_vars => Inv'
  BY StepType, StepOnlyIssued, StepAuthors, StepAhead
<1>3. Inv /\ [Next]_vars => [Stays]_vars
  <2> SUFFICES ASSUME Inv, Next, NEW k \in up, table[k][k].status = "REMOVED",
                      k \in up'
               PROVE  table'[k][k].status # "UP"
    BY DEF TypeOK
  <2>1. ASSUME NEW n \in Node, GossipExchange(n) PROVE table'[k][k].status # "UP"
    <3>1. /\ call[n].peer \in Node /\ call[n].peer \in up
          /\ call[n].table \in MembershipTable /\ From(call[n].table, issued)
          /\ ApplyGossip(call[n].peer, call[n].table)
      BY <2>1 DEF GossipExchange, TypeOK, OnlyIssued
    <3> QED
      BY <3>1, MergeNoReboot
  <2>2. ASSUME NEW r \in late, LateExchange(r) PROVE table'[k][k].status # "UP"
    <3>1. /\ r.to \in Node /\ r.to \in up
          /\ r.table \in MembershipTable /\ From(r.table, issued)
          /\ ApplyGossip(r.to, r.table)
      BY <2>2 DEF LateExchange, TypeOK, OnlyIssued
    <3> QED
      BY <3>1, MergeNoReboot
  <2>3. ASSUME NEW n \in Node, TakeAnswer(n) PROVE table'[k][k].status # "UP"
    <3>1. /\ n \in up /\ call[n].table \in MembershipTable
          /\ From(call[n].table, issued) /\ ApplyGossip(n, call[n].table)
      BY <2>3 DEF TakeAnswer, TypeOK, OnlyIssued
    <3> QED
      BY <3>1, MergeNoReboot
  <2>4. ASSUME NEW n \in Node, NEW x \in Node, RemoveNode(n, x)
        PROVE  table'[k][k].status # "UP"
    <3>1. PICK e : RemoveWrites(n, x, e)
      BY <2>4, RemoveNodeWrites
    <3>2. table' = [table EXCEPT ![n] = [table[n] EXCEPT ![x] = e]] /\ e.status = "REMOVED"
      BY <3>1 DEF RemoveWrites
    <3>3. k \in Node /\ (table'[k][k] = table[k][k] \/ table'[k][k] = e)
      BY <3>2 DEF TypeOK, MembershipTable
    <3> QED
      BY <3>2, <3>3
  <2>5. ASSUME NEW n \in Node, Start(n) PROVE table'[k][k].status # "UP"
    <3>1. n # k /\ k \in Node
      BY <2>5 DEF Start, TypeOK
    <3>2. table'[k] = table[k]
      BY <2>5, <3>1 DEF Start, TypeOK
    <3> QED
      BY <3>2
  <2>6. ASSUME NEW n \in Node, Stop(n) PROVE table'[k][k].status # "UP"
    <3>1. n # k /\ k \in Node
      BY <2>6 DEF Stop, TypeOK
    <3>2. table'[k] = table[k]
      BY <2>6, <3>1 DEF Stop, TypeOK
    <3> QED
      BY <3>2
  <2>7. CASE table' = table
    BY <2>7
  <2> QED
    BY <2>1, <2>2, <2>3, <2>4, <2>5, <2>6, <2>7 DEF Next, StartRound,
       CallSeed, CallRefused, CallLost, GiveUpCall, Crash, BootstrapFailed
<1> QED
  BY <1>1, <1>2, <1>3, PTL DEF Spec, NeverRebootsItself

-----------------------------------------------------------------------------
(***************************************************************************)
(* What clocks that agree buy: a removal holds until the node is started   *)
(* again.                                                                  *)
(***************************************************************************)
LivesBounded == \A x \in Node : \A e \in issued[x] : e.life <= starts[x]

RemovalHolds ==
  \A x \in Node : \A d, e \in issued[x] :
    d.status = "REMOVED" /\ e.status = "UP" /\ e.life <= d.life => ~Wins(e, d)

LEMMA InitLives == Init => LivesBounded /\ RemovalHolds
<1> SUFFICES ASSUME Init PROVE LivesBounded /\ RemovalHolds
  OBVIOUS
<1>1. PICK v \in Vnodes, at \in [Node -> FounderTimes] :
        issued = [x \in Node |-> IF x \in Founders THEN {View(v, at)[x]} ELSE {}]
  BY InitTables
<1>2. \A x \in Node : \A e \in issued[x] :
        x \in Founders /\ e = SelfEntry(x, v, at[x], 1)
  BY <1>1 DEF View
<1>3. \A x \in Node : \A e \in issued[x] :
        x \in Founders /\ e.status = "UP" /\ e.life = 1
  BY <1>2 DEF SelfEntry
<1>4. LivesBounded
  BY <1>3 DEF Init, LivesBounded
<1> QED
  BY <1>3, <1>4 DEF RemovalHolds

LEMMA RemovalIsLater ==
  ASSUME Clocks = "one", TypeOK, LivesBounded, RemovalHolds,
         NEW n \in Node, NEW x \in Node, OnlyIssued, RemoveNode(n, x)
  PROVE  LivesBounded' /\ RemovalHolds'
<1>1. PICK d : RemoveWrites(n, x, d)
  BY RemoveNodeWrites
<1>2. /\ issued' = [issued EXCEPT ![x] = issued[x] \cup {d}] /\ starts' = starts
      /\ d \in MembershipEntry /\ d.status = "REMOVED"
      /\ d.life = table[n][x].life /\ d.last_updated \in Readings(n)
  BY <1>1 DEF RemoveWrites, RemoveNode
<1>3. \A y \in Node : \A e \in issued'[y] : e \in issued[y] \/ (y = x /\ e = d)
  BY <1>2 DEF TypeOK
<1>4. d.life <= starts[x]
  <2>1. table[n][x] \in issued[x]
    BY UnknownType DEF RemoveNode, UpIn, OnlyIssued, From
  <2> QED
    BY <1>2, <2>1 DEF LivesBounded
<1>5. \A e \in issued[x] : e.last_updated < d.last_updated
  BY <1>2 DEF Readings
<1>6. \A e \in issued[x] : ~Wins(e, d)
  <2> SUFFICES ASSUME NEW e \in issued[x] PROVE ~Wins(e, d)
    OBVIOUS
  <2>1. e.last_updated \in Nat /\ d.last_updated \in Nat
    BY <1>2, EntryFields DEF TypeOK
  <2> QED
    BY <1>5, <2>1 DEF Wins
<1>7. LivesBounded'
  BY <1>2, <1>3, <1>4 DEF LivesBounded
<1>8. RemovalHolds'
  BY <1>2, <1>3, <1>6 DEF RemovalHolds
<1> QED
  BY <1>7, <1>8

LEMMA StartIsNewer ==
  ASSUME TypeOK, LivesBounded, RemovalHolds, NEW n \in Node, Start(n)
  PROVE  LivesBounded' /\ RemovalHolds'
<1>1. PICK v \in Vnodes : \E e : BeginWrites(n, v, e)
  BY StartWrites
<1>2. PICK e : BeginWrites(n, v, e)
  BY <1>1
<1>3. /\ issued' = [issued EXCEPT ![n] = issued[n] \cup {e}]
      /\ e.status = "UP" /\ e.life = starts[n] + 1
      /\ starts' = [starts EXCEPT ![n] = starts[n] + 1]
      /\ starts \in [Node -> Nat]
  BY <1>2 DEF BeginWrites, Start, TypeOK
<1>4. \A y \in Node : \A d \in issued'[y] : d \in issued[y] \/ (y = n /\ d = e)
  BY <1>3 DEF TypeOK
<1>5. \A y \in Node : \A d \in issued[y] : d.life \in Nat /\ d.life <= starts[y]
  BY EntryFields DEF TypeOK, LivesBounded
<1>6. \A d \in issued[n] : ~(e.life <= d.life)
  BY <1>3, <1>5
<1>7. LivesBounded'
  BY <1>3, <1>4, <1>5 DEF LivesBounded
<1>8. RemovalHolds'
  BY <1>3, <1>4, <1>6 DEF RemovalHolds
<1> QED
  BY <1>7, <1>8

LEMMA StepLives ==
  ASSUME Clocks = "one"
  PROVE  TypeOK /\ OnlyIssued /\ LivesBounded /\ RemovalHolds /\ [Next]_vars
           => LivesBounded' /\ RemovalHolds'
<1> SUFFICES ASSUME TypeOK, OnlyIssued, LivesBounded, RemovalHolds, [Next]_vars
             PROVE  LivesBounded' /\ RemovalHolds'
  OBVIOUS
<1>1. ASSUME NEW n \in Node, NEW x \in Node, RemoveNode(n, x)
      PROVE  LivesBounded' /\ RemovalHolds'
  BY <1>1, RemovalIsLater
<1>2. ASSUME NEW n \in Node, Start(n) PROVE LivesBounded' /\ RemovalHolds'
  BY <1>2, StartIsNewer
<1>3. CASE UNCHANGED <<issued, starts>>
  BY <1>3 DEF LivesBounded, RemovalHolds
<1> QED
  BY <1>1, <1>2, <1>3, WritingSteps

LEMMA MergeReturns ==
  ASSUME TypeOK, OnlyIssued, RemovalHolds, NEW m \in Node,
         NEW incoming \in MembershipTable, From(incoming, issued),
         ApplyGossip(m, incoming), NEW n \in Node, NEW x \in Node,
         table[n][x].status = "REMOVED", table'[n][x].status = "UP"
  PROVE  table'[n][x].life > table[n][x].life
<1>1. table[n] \in MembershipTable
  BY DEF TypeOK
<1>2. m = n
  BY <1>1 DEF ApplyGossip, TypeOK
<1>3. table'[n][x] = IF Wins(incoming[x], table[n][x]) THEN incoming[x]
                     ELSE table[n][x]
  BY <1>1, <1>2 DEF ApplyGossip, MergedTable, TypeOK
<1>4. Wins(incoming[x], table[n][x]) /\ table'[n][x] = incoming[x]
  BY <1>3
<1>5. incoming[x] \in issued[x] /\ table[n][x] \in issued[x]
  BY <1>4, UnknownType DEF From, OnlyIssued
<1>6. incoming[x].life \in Nat /\ table[n][x].life \in Nat
  BY <1>5, EntryFields DEF TypeOK
<1>7. ~(incoming[x].life <= table[n][x].life)
  BY <1>4, <1>5 DEF RemovalHolds
<1> QED
  BY <1>4, <1>6, <1>7

\* While the hosts' clocks agree and no two entries are written in one
\* millisecond, a removed node is UP again in nobody's table before it is
\* started again.
THEOREM RemovalLasts ==
  ASSUME Clocks = "one"
  PROVE  Spec => ReturnsOnlyByRestart
<1> DEFINE Inv == /\ TypeOK /\ OnlyIssued /\ Authors /\ OwnEntryAhead
                  /\ LivesBounded /\ RemovalHolds
<1> DEFINE Later == \A n, x \in Node :
       table[n][x].status = "REMOVED" /\ table'[n][x].status = "UP"
         => table'[n][x].life > table[n][x].life
<1>0. OwnClocksForward
  BY DEF OwnClocksForward
<1>1. Init => Inv
  BY InitType, InitOnlyIssued, InitAuthors, InitLives
<1>2. Inv /\ [Next]_vars => Inv'
  BY <1>0, StepType, StepOnlyIssued, StepAuthors, StepAhead, StepLives
<1>3. Inv /\ [Next]_vars => [Later]_vars
  <2> SUFFICES ASSUME Inv, Next, NEW n \in Node, NEW x \in Node,
                      table[n][x].status = "REMOVED", table'[n][x].status = "UP"
               PROVE  table'[n][x].life > table[n][x].life
    OBVIOUS
  <2>1. ASSUME NEW m \in Node, GossipExchange(m)
        PROVE  table'[n][x].life > table[n][x].life
    <3>1. /\ call[m].peer \in Node /\ call[m].table \in MembershipTable
          /\ From(call[m].table, issued) /\ ApplyGossip(call[m].peer, call[m].table)
      BY <2>1 DEF GossipExchange, TypeOK, OnlyIssued
    <3> QED
      BY <3>1, MergeReturns
  <2>2. ASSUME NEW r \in late, LateExchange(r)
        PROVE  table'[n][x].life > table[n][x].life
    <3>1. /\ r.to \in Node /\ r.table \in MembershipTable
          /\ From(r.table, issued) /\ ApplyGossip(r.to, r.table)
      BY <2>2 DEF LateExchange, TypeOK, OnlyIssued
    <3> QED
      BY <3>1, MergeReturns
  <2>3. ASSUME NEW m \in Node, TakeAnswer(m)
        PROVE  table'[n][x].life > table[n][x].life
    <3>1. /\ call[m].table \in MembershipTable
          /\ From(call[m].table, issued) /\ ApplyGossip(m, call[m].table)
      BY <2>3 DEF TakeAnswer, TypeOK, OnlyIssued
    <3> QED
      BY <3>1, MergeReturns
  <2>4. ASSUME NEW m \in Node, NEW y \in Node, RemoveNode(m, y) PROVE FALSE
    <3>1. PICK e : RemoveWrites(m, y, e)
      BY <2>4, RemoveNodeWrites
    <3>2. table' = [table EXCEPT ![m] = [table[m] EXCEPT ![y] = e]]
          /\ e.status = "REMOVED"
      BY <3>1 DEF RemoveWrites
    <3>3. table'[n][x] = table[n][x] \/ table'[n][x] = e
      BY <3>2 DEF TypeOK, MembershipTable
    <3> QED
      BY <3>2, <3>3
  <2>5. ASSUME NEW m \in Node, Start(m) PROVE FALSE
    <3>1. table[m] = EmptyTable
      BY <2>5 DEF Start, OwnEntryAhead
    <3>2. n # m
      BY <3>1, UnknownType DEF EmptyTable
    <3>3. table'[n] = table[n]
      BY <2>5, <3>2 DEF Start, TypeOK
    <3> QED
      BY <3>3
  <2>6. ASSUME NEW m \in Node, Stop(m) PROVE FALSE
    <3>1. table'[n] = table[n] \/ table'[n] = EmptyTable
      BY <2>6 DEF Stop, TypeOK
    <3> QED
      BY <3>1, UnknownType DEF EmptyTable
  <2>7. CASE table' = table
    BY <2>7
  <2> QED
    BY <2>1, <2>2, <2>3, <2>4, <2>5, <2>6, <2>7 DEF Next, StartRound,
       CallSeed, CallRefused, CallLost, GiveUpCall, Crash, BootstrapFailed
<1> QED
  BY <1>1, <1>2, <1>3, PTL DEF Spec, ReturnsOnlyByRestart
=============================================================================
