----------------------------- MODULE Membership -----------------------------
(***************************************************************************)
(* Who is in the cluster: the membership table of every node, the gossip   *)
(* that spreads it, RemoveNode, and the start of a process with its        *)
(* bootstrap (node_membership.cpp, ring.hpp mergeInto, node_main.cpp).     *)
(*                                                                         *)
(* A table gives every node an entry.  A node the table does not know has  *)
(* the entry Unknown, whose stamp is below every stamp nowMillis() gives.  *)
(* Tokens are hashes of a node's name and an index, so a token is the      *)
(* pair of the two and the node it belongs to is its first component.      *)
(***************************************************************************)
EXTENDS Naturals, FiniteSets, Sequences

CONSTANTS Node,         \* node identifiers, ordered as writer_id strings are
          Times,        \* what nowMillis() may return
          Vnodes,       \* values of --vnodes a process is started with
          Seeds,        \* the --seed list each node is started with; an
                        \* address on it need not be a node's
          Founders,     \* the nodes that have met when the model starts
          FounderTimes, \* what their clocks may have read at their start
          Clocks,       \* how the hosts' clocks are related, see Readings
          Removable,    \* nodes an administrator may remove
          Mortal,       \* nodes that may crash
          MaxRemovals,  \* bound on the calls of RemoveNode that write
          MaxStarts,    \* bound on the processes started under one name
          MaxLosses,    \* bound on the calls that fail with both ends running
          MaxCalls      \* bound on the nodes that wait for a call at one time

ASSUME NodeAssumption == Node \subseteq Nat
ASSUME TimesAssumption == Times \subseteq Nat \ {0} /\ FounderTimes \subseteq Times
ASSUME VnodesAssumption == Vnodes \subseteq Nat \ {0} /\ Vnodes # {}
ASSUME SeedsAssumption == Seeds \in [Node -> Seq(Nat)]
ASSUME GroupAssumption == Founders \cup Removable \cup Mortal \subseteq Node
ASSUME BoundAssumption ==
  MaxRemovals \in Nat /\ MaxStarts \in Nat /\ MaxLosses \in Nat /\ MaxCalls \in Nat

VARIABLES table,     \* table_ of each node
          ring,      \* ring_ of each node: the tokens on it
          up,        \* nodes whose process runs and serves calls
          joined,    \* those of them that run gossipLoop
          call,      \* the GossipExchange each node waits for
          late,      \* requests whose caller has stopped waiting
          tries,     \* failed calls of bootstrapFromSeed
          issued,    \* history: every entry written, by subject
          starts,    \* history: processes started, by name
          removals,  \* number of removals so far
          losses     \* number of lost calls so far

vars == <<table, ring, up, joined, call, late, tries, issued, starts,
          removals, losses>>
-----------------------------------------------------------------------------
Tokens(x, v) == {<<x, i>> : i \in 1 .. v}
Token == Node \X Nat

\* MembershipEntry.  "life" is history: which process of the subject's name
\* the entry is about.
MembershipEntry ==
  [status : {"UP", "REMOVED"}, last_updated : Times, writer_id : Node,
   tokens : SUBSET Token, life : Nat]

Unknown == [status |-> "UNKNOWN", last_updated |-> 0, writer_id |-> 0,
            tokens |-> {}, life |-> 0]

MembershipTable == [Node -> MembershipEntry \cup {Unknown}]
EmptyTable == [x \in Node |-> Unknown]

\* The constructor's entry for the node itself.
SelfEntry(n, v, t, k) ==
  [status |-> "UP", last_updated |-> t, writer_id |-> n,
   tokens |-> Tokens(n, v), life |-> k]

UpIn(tab) == {x \in Node : tab[x].status = "UP"}

\* nowMillis() at n.  "one": the hosts' clocks agree and no two entries are
\* written in one millisecond.  "skewed": the clocks disagree, but each goes
\* forward and a node writes one entry in a millisecond.  "any": clocks are
\* set back, and a node may write twice in a millisecond.
Readings(n) ==
  {t \in Times : \A x \in Node : \A e \in issued[x] :
     CASE Clocks = "one"    -> e.last_updated < t
       [] Clocks = "skewed" -> e.writer_id = n => e.last_updated < t
       [] OTHER             -> TRUE}
-----------------------------------------------------------------------------
\* Mutants: equal stamps are not told apart by their writer; whatever comes in
\* replaces what the table holds.
Wins_NoTie(incoming, local) == incoming.last_updated > local.last_updated
Wins_Always(incoming, local) == incoming.status # "UNKNOWN"

\* mergeInto: the comparison, the table and the ring it leaves.  Two subjects
\* never share a token, so their order does not matter.
Wins(incoming, local) ==
  \/ incoming.last_updated > local.last_updated
  \/ /\ incoming.last_updated = local.last_updated
     /\ incoming.writer_id > local.writer_id

\* Mutant: the winning entry is copied without its tokens.
MergedTable_Fields(tab, incoming) ==
  [x \in Node |-> IF Wins(incoming[x], tab[x])
                  THEN [incoming[x] EXCEPT !.tokens = tab[x].tokens] ELSE tab[x]]

MergedTable(tab, incoming) ==
  [x \in Node |-> IF Wins(incoming[x], tab[x]) THEN incoming[x] ELSE tab[x]]

\* Mutant: a reboot is looked for before the comparison decides.
Added_Draft(tab, incoming) ==
  UNION {incoming[x].tokens : x \in
           {y \in Node : \/ tab[y].status = "UNKNOWN"
                         \/ /\ tab[y].status = "REMOVED"
                            /\ incoming[y].status = "UP"}}

Added(tab, incoming) ==
  UNION {incoming[x].tokens : x \in
           {y \in Node : /\ Wins(incoming[y], tab[y])
                         /\ \/ tab[y].status = "UNKNOWN"
                            \/ /\ tab[y].status = "REMOVED"
                               /\ incoming[y].status = "UP"}}

Erased(tab, incoming) ==
  UNION {tab[x].tokens : x \in
           {y \in Node : /\ Wins(incoming[y], tab[y])
                         /\ tab[y].status = "UP"
                         /\ incoming[y].status = "REMOVED"}}

MergedRing(r, tab, incoming) ==
  (r \ Erased(tab, incoming)) \cup Added(tab, incoming)

\* applyGossip at n, under table_mutex_.
ApplyGossip(n, incoming) ==
  /\ table' = [table EXCEPT ![n] = MergedTable(table[n], incoming)]
  /\ ring' = [ring EXCEPT ![n] = MergedRing(ring[n], table[n], incoming)]
-----------------------------------------------------------------------------
\* A node waits for one call at a time: the bootstrap, then gossipLoop, make
\* them one after the other.
Idle == [state |-> "idle", peer |-> 0, table |-> EmptyTable]

\* The request is the snapshot taken under the lock.  SendGossip sets no
\* deadline.
SendGossip(n, m) ==
  /\ Cardinality({k \in Node : call[k].state # "idle"}) < MaxCalls
  /\ call' = [call EXCEPT ![n] = [state |-> "sent", peer |-> m, table |-> table[n]]]

\* gossipRound: a peer picked at random among those the snapshot shows UP.
StartRound(n, m) ==
  /\ n \in joined /\ call[n].state = "idle"
  /\ m \in UpIn(table[n]) \ {n}
  /\ SendGossip(n, m)
  /\ UNCHANGED <<table, ring, up, joined, late, tries, issued, starts,
                 removals, losses>>

\* bootstrapFromSeed: the next seed of the pass.
CallSeed(n) ==
  /\ n \in up \ joined /\ call[n].state = "idle"
  /\ tries[n] < 3 * Len(Seeds[n])
  /\ SendGossip(n, Seeds[n][(tries[n] % Len(Seeds[n])) + 1])
  /\ UNCHANGED <<table, ring, up, joined, late, tries, issued, starts,
                 removals, losses>>

\* Mutant: the callee answers with its table and merges nothing.
GossipExchange_Pull(n) ==
  /\ call[n].state = "sent" /\ call[n].peer \in up
  /\ call' = [call EXCEPT ![n].state = "answered", ![n].table = table[call[n].peer]]
  /\ UNCHANGED <<table, ring, up, joined, late, tries, issued, starts,
                 removals, losses>>

\* GossipExchange at the callee: merge, then answer with the merged table.
GossipExchange(n) ==
  LET m == call[n].peer IN
  /\ call[n].state = "sent" /\ m \in up
  /\ ApplyGossip(m, call[n].table)
  /\ call' = [call EXCEPT ![n] = [state |-> "answered", peer |-> m,
                                  table |-> MergedTable(table[m], call[n].table)]]
  /\ UNCHANGED <<up, joined, late, tries, issued, starts, removals, losses>>

\* The same handler for a request whose caller is gone.
LateExchange(r) ==
  /\ r \in late
  /\ ApplyGossip(r.to, r.table)
  /\ late' = late \ {r}
  /\ UNCHANGED <<up, joined, call, tries, issued, starts, removals, losses>>

\* The answer is merged.  A node that was bootstrapping starts its loops.
TakeAnswer(n) ==
  /\ call[n].state = "answered"
  /\ ApplyGossip(n, call[n].table)
  /\ joined' = joined \cup {n}
  /\ call' = [call EXCEPT ![n] = Idle]
  /\ UNCHANGED <<up, late, tries, issued, starts, removals, losses>>

\* The call failed.  What markUnreachable records is not read by gossip.
GiveUpCall(n) ==
  /\ call' = [call EXCEPT ![n] = Idle]
  /\ tries' = IF n \in joined THEN tries ELSE [tries EXCEPT ![n] = @ + 1]
  /\ UNCHANGED <<table, ring, up, joined, issued, starts, removals>>

\* The peer does not run, or the process that was called has stopped.
CallRefused(n) ==
  /\ \/ call[n].state = "broken"
     \/ call[n].state = "sent" /\ call[n].peer \notin up
  /\ GiveUpCall(n)
  /\ UNCHANGED <<late, losses>>

\* The connection fails under the call: the request may be lost, may still
\* reach the peer, or was handled and its answer is lost.
CallLost(n) ==
  /\ losses < MaxLosses /\ losses' = losses + 1
  /\ call[n].state \in {"sent", "answered"}
  /\ \/ late' = late
     \/ /\ call[n].state = "sent" /\ call[n].peer \in up
        /\ late' = late \cup {[to |-> call[n].peer, table |-> call[n].table]}
  /\ GiveUpCall(n)
-----------------------------------------------------------------------------
\* Mutants: last_updated is left alone, or cleared with the tokens.
RemovedEntry_OldStamp(n, e, t) ==
  [e EXCEPT !.status = "REMOVED", !.writer_id = n, !.tokens = {}]
RemovedEntry_NoStamp(n, e, t) ==
  [e EXCEPT !.status = "REMOVED", !.writer_id = n, !.tokens = {},
            !.last_updated = 0]

\* RemoveNode at n for x.  An x that n does not know, or that is REMOVED
\* already, is answered without a write.
RemovedEntry(n, e, t) ==
  [e EXCEPT !.status = "REMOVED", !.writer_id = n, !.tokens = {},
            !.last_updated = t]

RemoveNode(n, x) ==
  /\ n \in up /\ x \in Removable /\ x \in UpIn(table[n])
  /\ removals < MaxRemovals /\ removals' = removals + 1
  /\ \E t \in Readings(n) :
       LET e == RemovedEntry(n, table[n][x], t) IN
       /\ table' = [table EXCEPT ![n] = [table[n] EXCEPT ![x] = e]]
       /\ issued' = [issued EXCEPT ![x] = issued[x] \cup {e}]
  /\ ring' = [ring EXCEPT ![n] = ring[n] \ table[n][x].tokens]
  /\ UNCHANGED <<up, joined, call, late, tries, starts, losses>>

\* The constructor, BuildAndStart, and start() at once if there is no seed.
Start(n) ==
  /\ n \notin up /\ starts[n] < MaxStarts
  /\ starts' = [starts EXCEPT ![n] = @ + 1]
  /\ up' = up \cup {n}
  /\ joined' = IF Seeds[n] = <<>> THEN joined \cup {n} ELSE joined
  /\ \E t \in Readings(n), v \in Vnodes :
       LET e == SelfEntry(n, v, t, starts[n] + 1) IN
       /\ table' = [table EXCEPT ![n] = [EmptyTable EXCEPT ![n] = e]]
       /\ issued' = [issued EXCEPT ![n] = issued[n] \cup {e}]
       /\ ring' = [ring EXCEPT ![n] = Tokens(n, v)]
  /\ tries' = [tries EXCEPT ![n] = 0]
  /\ UNCHANGED <<call, late, removals, losses>>

\* The process ends: its memory goes, calls it served break, and a request
\* of its own may still be under way.
Stop(n) ==
  /\ up' = up \ {n} /\ joined' = joined \ {n}
  /\ table' = [table EXCEPT ![n] = EmptyTable]
  /\ ring' = [ring EXCEPT ![n] = {}]
  /\ call' = [m \in Node |->
                IF m = n THEN Idle
                ELSE IF call[m].state = "sent" /\ call[m].peer = n
                     THEN [call[m] EXCEPT !.state = "broken"] ELSE call[m]]
  /\ LET kept == {r \in late : r.to # n} IN
     \/ late' = kept
     \/ /\ call[n].state = "sent" /\ call[n].peer \in up \ {n}
        /\ late' = kept \cup {[to |-> call[n].peer, table |-> call[n].table]}
  /\ UNCHANGED <<tries, issued, starts, removals, losses>>

Crash(n) == n \in up \cap Mortal /\ Stop(n)

\* main() exits when no seed answered in three passes.
BootstrapFailed(n) ==
  /\ n \in up \ joined /\ call[n].state = "idle"
  /\ tries[n] = 3 * Len(Seeds[n])
  /\ Stop(n)

-----------------------------------------------------------------------------
\* The table of the founders, which have met.
View(v, at) ==
  [x \in Node |-> IF x \in Founders THEN SelfEntry(x, v, at[x], 1) ELSE Unknown]

Init ==
  /\ \E v \in Vnodes, at \in [Node -> FounderTimes] :
       /\ table = [n \in Node |-> IF n \in Founders THEN View(v, at) ELSE EmptyTable]
       /\ ring = [n \in Node |-> IF n \in Founders
                                 THEN UNION {Tokens(x, v) : x \in Founders} ELSE {}]
       /\ issued = [x \in Node |-> IF x \in Founders THEN {View(v, at)[x]} ELSE {}]
  /\ starts = [n \in Node |-> IF n \in Founders THEN 1 ELSE 0]
  /\ up = Founders /\ joined = Founders
  /\ call = [n \in Node |-> Idle] /\ late = {}
  /\ tries = [n \in Node |-> 0] /\ removals = 0 /\ losses = 0

Next ==
  \/ \E n, m \in Node : StartRound(n, m)
  \/ \E n \in Node : CallSeed(n)
  \/ \E n \in Node : GossipExchange(n)
  \/ \E r \in late : LateExchange(r)
  \/ \E n \in Node : TakeAnswer(n)
  \/ \E n \in Node : CallRefused(n)
  \/ \E n \in Node : CallLost(n)
  \/ \E n, x \in Node : RemoveNode(n, x)
  \/ \E n \in Node : Start(n)
  \/ \E n \in Node : Crash(n)
  \/ \E n \in Node : BootstrapFailed(n)

Spec == Init /\ [][Next]_vars

\* The call n waits for, or its bootstrap, goes on.
CallRuns(n) ==
  GossipExchange(n) \/ TakeAnswer(n) \/ CallRefused(n) \/ BootstrapFailed(n)

\* The loops run, calls that both ends serve are answered, and a random pick
\* made for ever picks every candidate for ever.  A bootstrap waits for others
\* only where MaxCalls does, hence SF.  Nothing makes an administrator act, a
\* process start or stop, or a call fail.
Fairness ==
  \A n \in Node :
    /\ \A m \in Node \ {n} : SF_vars(StartRound(n, m))
    /\ SF_vars(CallSeed(n))
    /\ WF_vars(CallRuns(n))

FairSpec == Spec /\ Fairness
-----------------------------------------------------------------------------
TypeOK ==
  /\ table \in [Node -> MembershipTable]
  /\ ring \in [Node -> SUBSET Token]
  /\ up \subseteq Node /\ joined \subseteq up
  /\ call \in [Node -> [state : {"idle", "sent", "answered", "broken"},
                        peer : Nat, table : MembershipTable]]
  /\ \A n \in Node : call[n].state # "idle" => n \in up
  /\ late \subseteq [to : up, table : MembershipTable]
  /\ tries \in [Node -> Nat]
  /\ issued \in [Node -> SUBSET MembershipEntry]
  /\ starts \in [Node -> Nat]
  /\ removals \in 0 .. MaxRemovals /\ losses \in 0 .. MaxLosses

\* While a node is started with one --vnodes, the ring a node walks is exactly
\* the tokens of the nodes its table shows UP, whatever was merged in whatever
\* order: mergeInto and RemoveNode change the ring step by step and never
\* rebuild it from the table.
RingIsTable ==
  \A n \in Node :
    ring[n] = UNION {table[n][x].tokens : x \in UpIn(table[n])}

\* A node that the table shows REMOVED, or does not know, has no token on the
\* ring ("REMOVED nodes are already absent from ring_").
RemovedOffRing ==
  \A n \in Node : \A k \in ring[n] : k[1] \in UpIn(table[n])

\* Two entries about a node with one (last_updated, writer_id) are the same
\* entry: where they differ neither wins, and no merge settles it.
StampDecides ==
  \A x \in Node : \A d, e \in issued[x] :
    d.last_updated = e.last_updated /\ d.writer_id = e.writer_id => d = e

\* A node never merges its way back from REMOVED to UP in its own table
\* (NODE_REBOOTED is only ever logged by a peer).  It would serve keys again
\* without having lost what it holds.
NeverRebootsItself ==
  [][\A n \in Node : table[n][n].status = "REMOVED" /\ n \in up'
       => table'[n][n].status # "UP" \/ n \notin up]_vars

\* A removed node comes back on a node's ring only as a process started after
\* the one that was removed.
ReturnsOnlyByRestart ==
  [][\A n, x \in Node :
       table[n][x].status = "REMOVED" /\ table'[n][x].status = "UP"
         => table'[n][x].life > table[n][x].life]_vars

\* Once nobody is removed or started any more, the running nodes come to have
\* one table and keep it.
Converges ==
  <>[](\A m, n \in joined : table[m] = table[n])

\* A process that is started is heard of everywhere: every running node comes
\* to hold an entry about it and not about an earlier process of its name, or
\* a removal that was written later.
StartedIsHeard ==
  \A n \in Node :
    n \in up ~> \/ n \notin up
                \/ \A m \in joined :
                     \/ table[m][n].life = starts[n]
                     \/ /\ table[m][n].status = "REMOVED"
                        /\ \E e \in issued[n] : e.life = starts[n] /\ Wins(table[m][n], e)

\* A removed node that keeps running is UP again in the end.
SoftRemove ==
  \A n \in Node :
    (n \in up /\ table[n][n].status = "REMOVED")
      ~> (n \notin up \/ table[n][n].status = "UP")

\* A node that knows it is REMOVED starts no gossip round.
RemovedStaysSilent ==
  [][\A n \in joined : /\ call[n].state = "idle" /\ call'[n].state = "sent"
                       => table[n][n].status = "UP"]_vars

\* The tables are last-writer-wins registers: through snapshots taken before a
\* merge and answered after it, calls handled late and processes restarted, a
\* table entry changes only to an entry somebody wrote about that node, whose
\* stamp wins, or by RemoveNode or the constructor.
LWW == INSTANCE Registers WITH Value <- MembershipEntry, Nothing <- Unknown,
                               Beats <- Wins, register <- table,
                               written <- issued
ImplementsRegisters == LWW!Spec
=============================================================================
