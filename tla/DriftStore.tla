----------------------------- MODULE DriftStore -----------------------------
(***************************************************************************)
(* The data path of a driftstore cluster for one key: Put, Get, the        *)
(* replica RPCs, read repair, and hinted handoff with the reachability     *)
(* thread that drives it (node_kv.cpp, node_reachability.cpp).  Keys never *)
(* meet except in the locks, so one key is enough.                         *)
(*                                                                         *)
(* A handler is a record that moves through program counters; every step   *)
(* that takes a lock, calls a peer or joins its tasks is an action.  A     *)
(* ReplicateWrite call is a record of rpcs from the moment a task sends it *)
(* to the moment the task has looked at its outcome.  Calls carry no       *)
(* deadline, so a call ends only with a response or a broken connection.   *)
(*                                                                         *)
(* Membership is seen from here as each node's ring, which any step of     *)
(* gossip may change.                                                      *)
(***************************************************************************)
EXTENDS VersionClock, Placement

CONSTANTS ClientIds,     \* bound: identifiers that clients' Puts may take
          GetIds,        \* identifiers of Get executions
          PutContacts,   \* the nodes clients send their Puts to
          GetContacts,   \* the nodes clients send their Gets to
          Seeds,         \* the seeds each node is started with (--seed)
          MaxLosses,     \* bound: calls that fail although the callee is up
          MaxCrashes,    \* bound: crashes
          MaxChanges     \* bound: membership changes

ASSUME BoundAssumption ==
  /\ ClientIds \subseteq PutIds
  /\ GetIds \subseteq Nat /\ GetIds \cap PutIds = {}
  /\ PutContacts \subseteq Node /\ GetContacts \subseteq Node
  /\ Seeds \in [Node -> SUBSET Node]
  /\ MaxLosses \in Nat /\ MaxCrashes \in Nat /\ MaxChanges \in Nat

VARIABLES
  kv,           \* kv_store_: the version a node stores (a set of at most one)
  hints,        \* hints_for_target_: hints[n][t], at most one version
  unreachable,  \* unreachable_peers_
  probe,        \* probe[n][t]: where n's reachability round is with peer t
  ring,         \* ring_: the nodes with tokens on a node's ring
  up,           \* is the process running
  puts, gets,   \* the executions of the Put and Get handlers
  rpcs,         \* ReplicateWrite calls whose outcome is still open
  spent         \* how much of each bound is used

node == <<kv, hints, unreachable, probe, ring, up>>
vars == <<kv, hints, unreachable, probe, ring, up, puts, gets, rpcs, spent>>

\* A node whose own table entry is REMOVED has no token on its own ring.
isSelfRemoved(n) == n \notin ring[n]

-----------------------------------------------------------------------------
(* The shapes of the records.                                              *)

PutPC == {"free", "admitted", "routing",
          "commit", "fanout",                          \* coordinating
          "forward", "waiting",                        \* forwarding
          "ok", "short", "refused", "dead"}            \* over

\* ctx is the version whose clock the client sent as context; forwarded is
\* the request's flag; bad the unreachable peers as routing found them; past
\* (history) is the set of writes ver descends from, ackers (history) the nodes
\* behind the acks, and owners those of them that stored the write as their own
\* and not as a hint.
PutRec == [pc : PutPC, at : Node, forwarded : BOOLEAN, ctx : SUBSET Version,
           bad : SUBSET Node, pref : SUBSET Entry, untried : SUBSET Node, start : Node,
           child : SUBSET PutIds, ver : SUBSET Version, acks : Nat,
           past : SUBSET PutIds, ackers : SUBSET Node, owners : SUBSET Node]

GetPC == {"free", "admitted", "routing", "reading", "ok", "none", "failed", "dead"}

\* results: the replies so far; win: the version returned; before (history):
\* the writes acknowledged to a client before the read began.
GetRec == [pc : GetPC, at : Node, bad : SUBSET Node, pending : SUBSET Node,
           results : SUBSET [node : Node, ver : SUBSET Version],
           win : SUBSET Version, before : SUBSET Version]

\* kind: the task the call belongs to (an orphan's task is gone); by: the Put
\* or Get behind it; owner: true_owner; hinted: has_hint_for_node_id().  A task
\* whose call has failed stays a record until it has found a substitute.
RpcRec == [kind : {"put", "repair", "hint", "orphan"}, by : PutIds \cup GetIds,
           from : Node, to : Node, ver : Version, owner : Node,
           hinted : BOOLEAN, excluded : SUBSET Node, bad : SUBSET Node,
           st : {"sent", "marked", "stored", "refused", "broken",
                 "failed", "searching"}]

Spent == [losses : 0..MaxLosses, crashes : 0..MaxCrashes, changes : 0..MaxChanges]

TypeOK ==
  /\ kv \in [Node -> SUBSET Version]
  /\ hints \in [Node -> [Node -> SUBSET Version]]
  /\ unreachable \in [Node -> SUBSET Node]
  /\ probe \in [Node -> [Node -> {"idle", "alive", "reachable"}]]
  /\ ring \in [Node -> SUBSET Node]
  /\ up \in [Node -> BOOLEAN]
  /\ puts \in [PutIds -> PutRec]
  /\ gets \in [GetIds -> GetRec]
  /\ rpcs \subseteq RpcRec
  /\ spent \in Spent
  \* one version per key, never siblings
  /\ \A n \in Node : AtMostOne(kv[n]) /\ \A t \in Node : AtMostOne(hints[n][t])

\* The versions any Put has built, and those a client may hold the clock of.
Issued == UNION {puts[p].ver : p \in PutIds}

Done(p) == puts[p].pc \in {"ok", "short", "refused"}

Seen == (UNION {puts[p].ver : p \in {q \in PutIds : Done(q) /\ ~puts[q].forwarded}})
        \cup (UNION {gets[g].win : g \in GetIds})

\* Acknowledged to a client as successful.
Acked == UNION {puts[p].ver : p \in {q \in PutIds : puts[q].pc = "ok" /\ ~puts[q].forwarded}}

NewPut(n, pc, forwarded, ctx) ==
  [pc |-> pc, at |-> n, forwarded |-> forwarded, ctx |-> ctx, bad |-> {},
   pref |-> {}, untried |-> {}, start |-> n, child |-> {}, ver |-> {}, acks |-> 0,
   past |-> {}, ackers |-> {}, owners |-> {}]

NewGet(n, pc, before) ==
  [pc |-> pc, at |-> n, bad |-> {}, pending |-> {}, results |-> {},
   win |-> {}, before |-> before]

SomeNode == CHOOSE n \in Node : TRUE

\* All nodes run, know each other and store nothing.
Init ==
  /\ kv = [n \in Node |-> {}]
  /\ hints = [n \in Node |-> [t \in Node |-> {}]]
  /\ unreachable = [n \in Node |-> {}]
  /\ probe = [n \in Node |-> [t \in Node |-> "idle"]]
  /\ ring = [n \in Node |-> Node]
  /\ up = [n \in Node |-> TRUE]
  /\ puts = [p \in PutIds |-> NewPut(SomeNode, "free", FALSE, {})]
  /\ gets = [g \in GetIds |-> NewGet(SomeNode, "free", {})]
  /\ rpcs = {}
  /\ spent = [losses |-> 0, crashes |-> 0, changes |-> 0]

-----------------------------------------------------------------------------
(* Calls.  A call to a node that is down fails; a call to a node that is   *)
(* up may fail while the loss bound lasts, before or after it was served.  *)

CallFails(n) ==
  IF up[n] THEN /\ spent.losses < MaxLosses
                /\ spent' = [spent EXCEPT !.losses = @ + 1]
           ELSE UNCHANGED spent

Call(kind, by, from, to, ver, owner, hinted, excluded) ==
  [kind |-> kind, by |-> by, from |-> from, to |-> to, ver |-> ver,
   owner |-> owner, hinted |-> hinted, excluded |-> excluded,
   bad |-> {}, st |-> "sent"]

\* The callee answers; nobody reads the answer to an orphan.
Answer(m, st) ==
  rpcs' = (rpcs \ {m}) \cup (IF m.kind = "orphan" THEN {} ELSE {[m EXCEPT !.st = st]})

\* The caller's side of m breaks.  What a running callee has not finished it
\* may still do later.
Breaks(m) ==
  /\ m.kind # "orphan" /\ m.st \notin {"failed", "searching"}
  /\ up[m.from]
  /\ IF m.st = "broken" THEN UNCHANGED spent ELSE CallFails(m.to)

\* Equal leftovers are one: to serve a write again changes nothing.
Leftover(m) ==
  IF up[m.to] /\ m.st \in {"sent", "marked"}
  THEN {[m EXCEPT !.kind = "orphan"]} ELSE {}

MarkUnreachable(n, t) == unreachable' = [unreachable EXCEPT ![n] = @ \cup {t}]

-----------------------------------------------------------------------------
(* ReplicateWrite at the callee.                                           *)

Serves(m, st) == m \in rpcs /\ m.st = st /\ up[m.to]

RefuseWrite(m) ==
  /\ Serves(m, "sent") /\ isSelfRemoved(m.to)
  /\ Answer(m, "refused")
  /\ UNCHANGED <<node, puts, gets, spent>>

\* storeReplicatedWrite, under kv_store_mutex_.
StoreWrite(m) ==
  /\ Serves(m, "sent") /\ ~isSelfRemoved(m.to) /\ ~m.hinted
  /\ kv' = [kv EXCEPT ![m.to] = StoreReplicated(@, m.ver)]
  /\ Answer(m, "stored")
  /\ UNCHANGED <<hints, unreachable, probe, ring, up, puts, gets, spent>>

\* The hint branch marks the owner unreachable first, under its own mutex...
MarkHint(m) ==
  /\ Serves(m, "sent") /\ ~isSelfRemoved(m.to) /\ m.hinted
  /\ MarkUnreachable(m.to, m.owner)
  /\ rpcs' = (rpcs \ {m}) \cup {[m EXCEPT !.st = "marked"]}
  /\ UNCHANGED <<kv, hints, probe, ring, up, puts, gets, spent>>

\* ... and then stores the hint under hints_mutex_.
StoreHint(m) ==
  /\ Serves(m, "marked")
  /\ hints' = [hints EXCEPT ![m.to][m.owner] = StoreReplicated(@, m.ver)]
  /\ Answer(m, "stored")
  /\ UNCHANGED <<kv, unreachable, probe, ring, up, puts, gets, spent>>

-----------------------------------------------------------------------------
(* Put: admission, routing, coordination.                                  *)

Fresh(p) == puts[p].pc = "free" /\ \A q \in PutIds : q < p => puts[q].pc # "free"

\* A Put that reaches a removed node is refused.
Admission(n) == IF isSelfRemoved(n) THEN "refused" ELSE "admitted"

\* A client calls Put at n, blind or with the context of a version it saw.
ClientPut(p, n, ctx) ==
  /\ Fresh(p) /\ p \in ClientIds /\ up[n]
  /\ puts' = [puts EXCEPT ![p] = NewPut(n, Admission(n), FALSE, ctx)]
  /\ UNCHANGED <<node, gets, rpcs, spent>>

\* preferenceListForKey: unreachableSnapshot, under its own mutex...
SnapshotPut(p) ==
  /\ puts[p].pc = "admitted"
  /\ puts' = [puts EXCEPT ![p] =
                 [puts[p] EXCEPT !.pc = "routing", !.bad = unreachable[puts[p].at]]]
  /\ UNCHANGED <<node, gets, rpcs, spent>>

\* ... then the walk, under table_mutex_, and the choice of what to do.
RoutePut(p) ==
  LET n    == puts[p].at
      list == PreferenceList(ring[n], puts[p].bad)
      to   == NodesOf(list)
      Goes(pc) == [puts[p] EXCEPT !.pc = pc, !.bad = {}]
  IN  /\ puts[p].pc = "routing"
      /\ \/ /\ n \in to                                   \* coordinatePut
            /\ puts' = [puts EXCEPT ![p] =
                 [Goes(IF Cardinality(list) < W THEN "refused" ELSE "commit")
                    EXCEPT !.pref = list]]
         \/ /\ n \notin to                                \* loop prevented, or no target
            /\ puts[p].forwarded \/ to = {}
            /\ puts' = [puts EXCEPT ![p] = Goes("refused")]
         \/ /\ n \notin to /\ ~puts[p].forwarded          \* forwardPut
            /\ \E s \in to : puts' = [puts EXCEPT ![p] =
                              [Goes("forward") EXCEPT !.untried = to, !.start = s]]
      /\ UNCHANGED <<node, gets, rpcs, spent>>

OwnerOf(e) == IF e.hint = {} THEN e.node ELSE CHOOSE x \in e.hint : TRUE

\* Mutant: the copy is read when the Put arrives, and misses what Puts that
\* came later have stored since.
OwnCopy_Early(p, e) ==
  IF e.hint = {} THEN {v \in kv[puts[p].at] : v.id < p} ELSE {}

\* The copy a coordinator merges with: its own store's, if it is an owner.
OwnCopy(p, e) == IF e.hint = {} THEN kv[puts[p].at] ELSE {}

\* The coordinator builds the version and stores its own copy: as a natural
\* owner merging with what it holds (commitCoordinatedWrite), as a substitute
\* keeping it as a hint unless a hint is there that it does not dominate.  It
\* counts its own ack and starts a task per other entry.
PutCommit(p, e, ts) ==
  LET n     == puts[p].at
      local == OwnCopy(p, e)
      ver   == [id |-> p, clk |-> BuildNewClock(puts[p].ctx, local, n), ts |-> ts, wr |-> n]
      dominates(held) == \A v \in held : Compare(v.clk, ver.clk) = "DOMINATED"
      ids   == NodesOf(puts[p].pref)
  IN  /\ puts[p].pc = "commit"
      /\ e \in puts[p].pref /\ e.node = n
      /\ kv' = [kv EXCEPT ![n] = IF e.hint = {} THEN {ver} ELSE @]
      /\ hints' = [hints EXCEPT ![n] =
                     [t \in Node |-> IF t \in e.hint /\ dominates(@[t]) THEN {ver} ELSE @[t]]]
      /\ puts' = [puts EXCEPT ![p] =
                    [@ EXCEPT !.pc = "fanout", !.pref = {}, !.ctx = {}, !.ver = {ver},
                       !.acks = 1, !.ackers = {n}, !.owners = IF e.hint = {} THEN {n} ELSE {},
                       !.past = UNION {{v.id} \cup puts[v.id].past : v \in puts[p].ctx \cup local}]]
      /\ rpcs' = rpcs \cup {Call("put", p, n, f.node, ver, OwnerOf(f), f.hint # {}, ids) :
                              f \in puts[p].pref \ {e}}
      /\ UNCHANGED <<unreachable, probe, ring, up, gets, spent>>

\* A task of the fan-out sees success.
PutAck(m) ==
  /\ m \in rpcs /\ m.kind = "put" /\ m.st = "stored"
  /\ puts' = [puts EXCEPT ![m.by] =
                 [puts[m.by] EXCEPT !.acks = @ + 1, !.ackers = @ \cup {m.to},
                                    !.owners = IF m.hinted THEN @ ELSE @ \cup {m.to}]]
  /\ rpcs' = rpcs \ {m}
  /\ UNCHANGED <<node, gets, spent>>

\* Mutant: the task calls the same node again.
PutCallFails_Again(m) ==
  /\ m \in rpcs /\ m.kind = "put" /\ Breaks(m)
  /\ MarkUnreachable(m.from, m.to)
  /\ rpcs' = (rpcs \ {m}) \cup Leftover(m) \cup
             {Call("put", m.by, m.from, m.to, m.ver, m.owner, m.hinted, m.excluded)}
  /\ UNCHANGED <<kv, hints, probe, ring, up, puts, gets>>

\* Its call breaks: it marks the callee, and goes on as after a refusal.
PutCallFails(m) ==
  /\ m \in rpcs /\ m.kind = "put" /\ Breaks(m)
  /\ MarkUnreachable(m.from, m.to)
  /\ rpcs' = (rpcs \ {m}) \cup Leftover(m) \cup {[m EXCEPT !.st = "failed"]}
  /\ UNCHANGED <<kv, hints, probe, ring, up, puts, gets>>

\* findSubstitute: unreachableSnapshot...  The set of nodes to leave out is
\* the task's own copy.
SnapshotTask(m) ==
  /\ m \in rpcs /\ m.kind = "put" /\ m.st \in {"refused", "failed"}
  /\ rpcs' = (rpcs \ {m}) \cup
       {[m EXCEPT !.st = "searching", !.bad = unreachable[m.from],
                  !.excluded = m.excluded \cup {m.to}]}
  /\ UNCHANGED <<node, puts, gets, spent>>

\* Mutant: only the node this task has just tried is left out.
Substitute_OwnTries(m) ==
  /\ m \in rpcs /\ m.kind = "put" /\ m.st = "searching"
  /\ rpcs' = (rpcs \ {m}) \cup
       {Call("put", m.by, m.from, x, m.ver, m.owner, TRUE, m.excluded) :
          x \in Nearest(Candidates(ring[m.from], m.bad, {m.to}, m.owner))}
  /\ UNCHANGED <<node, puts, gets, spent>>

\* ... then the walk: the write goes to the nearest candidate as a hint; if
\* there is none, the task is over.
Substitute(m) ==
  /\ m \in rpcs /\ m.kind = "put" /\ m.st = "searching"
  /\ rpcs' = (rpcs \ {m}) \cup
       {Call("put", m.by, m.from, x, m.ver, m.owner, TRUE, m.excluded) :
          x \in Nearest(Candidates(ring[m.from], m.bad, m.excluded, m.owner))}
  /\ UNCHANGED <<node, puts, gets, spent>>

\* Every task is over: the handler responds.  The context is in the response
\* whether or not W was reached.
PutJoin(p) ==
  /\ puts[p].pc = "fanout"
  /\ \A m \in rpcs : m.kind = "put" => m.by # p
  /\ puts' = [puts EXCEPT ![p].pc = IF puts[p].acks < W THEN "short" ELSE "ok"]
  /\ UNCHANGED <<node, gets, rpcs, spent>>

-----------------------------------------------------------------------------
(* forwardPut.  The forwarded call is a Put execution of its own, child, at *)
(* the target; when the call breaks the execution may go on regardless.     *)

ForwardSend(p, q, t) ==
  /\ puts[p].pc = "forward" /\ t \in NextTarget(puts[p].untried, puts[p].start)
  /\ up[t] /\ Fresh(q)
  /\ puts' = [puts EXCEPT
       ![p] = [puts[p] EXCEPT !.pc = "waiting", !.child = {q}, !.untried = @ \ {t}],
       ![q] = NewPut(t, Admission(t), TRUE, puts[p].ctx)]
  /\ UNCHANGED <<node, gets, rpcs, spent>>

\* The call does not reach its target.
ForwardFails(p, t) ==
  /\ puts[p].pc = "forward" /\ t \in NextTarget(puts[p].untried, puts[p].start)
  /\ CallFails(t)
  /\ MarkUnreachable(puts[p].at, t)
  /\ puts' = [puts EXCEPT ![p] = [puts[p] EXCEPT !.untried = @ \ {t}]]
  /\ UNCHANGED <<kv, hints, probe, ring, up, gets, rpcs>>

\* The call breaks while the target works on it.
ForwardBreaks(p, q) ==
  /\ puts[p].pc = "waiting" /\ q \in puts[p].child
  /\ IF puts[q].pc = "dead" THEN UNCHANGED spent ELSE CallFails(puts[q].at)
  /\ MarkUnreachable(puts[p].at, puts[q].at)
  /\ puts' = [puts EXCEPT ![p] = [@ EXCEPT !.pc = "forward", !.child = {}]]
  /\ UNCHANGED <<kv, hints, probe, ring, up, gets, rpcs>>

\* Any response is relayed, success or not.
ForwardRelay(p, q) ==
  /\ puts[p].pc = "waiting" /\ q \in puts[p].child /\ Done(q)
  /\ puts' = [puts EXCEPT ![p] = [@ EXCEPT !.pc = puts[q].pc, !.ver = puts[q].ver,
                !.acks = puts[q].acks, !.ackers = puts[q].ackers]]
  /\ UNCHANGED <<node, gets, rpcs, spent>>

ForwardExhausted(p) ==
  /\ puts[p].pc = "forward" /\ puts[p].untried = {}
  /\ puts' = [puts EXCEPT ![p].pc = "refused"]
  /\ UNCHANGED <<node, gets, rpcs, spent>>

-----------------------------------------------------------------------------
(* Get and read repair.                                                    *)

FreshGet(g) == gets[g].pc = "free" /\ \A h \in GetIds : h < g => gets[h].pc # "free"

ClientGet(g, n) ==
  /\ FreshGet(g) /\ up[n]
  /\ gets' = [gets EXCEPT ![g] =
                NewGet(n, IF isSelfRemoved(n) THEN "failed" ELSE "admitted", Acked)]
  /\ UNCHANGED <<node, puts, rpcs, spent>>

SnapshotGet(g) ==
  /\ gets[g].pc = "admitted"
  /\ gets' = [gets EXCEPT ![g] =
                 [gets[g] EXCEPT !.pc = "routing", !.bad = unreachable[gets[g].at]]]
  /\ UNCHANGED <<node, puts, rpcs, spent>>

RouteGet(g) ==
  LET list == PreferenceList(ring[gets[g].at], gets[g].bad)
  IN  /\ gets[g].pc = "routing"
      /\ gets' = [gets EXCEPT ![g] = IF Cardinality(list) < R
             THEN [gets[g] EXCEPT !.pc = "failed", !.bad = {}]
             ELSE [gets[g] EXCEPT !.pc = "reading", !.bad = {}, !.pending = NodesOf(list)]]
      /\ UNCHANGED <<node, puts, rpcs, spent>>

\* The local read comes first; the others run in parallel (ReplicateRead).  A
\* removed replica answers "not found", and its answer counts.
ReadReplica(g, n) ==
  LET at == gets[g].at
  IN  /\ gets[g].pc = "reading" /\ n \in gets[g].pending
      /\ at \in gets[g].pending => n = at
      /\ up[n]
      /\ gets' = [gets EXCEPT ![g] = [gets[g] EXCEPT
           !.pending = @ \ {n},
           !.results = @ \cup
              {[node |-> n, ver |-> IF n # at /\ isSelfRemoved(n) THEN {} ELSE kv[n]]}]]
      /\ UNCHANGED <<node, puts, rpcs, spent>>

ReadFails(g, n) ==
  LET at == gets[g].at
  IN  /\ gets[g].pc = "reading" /\ n \in gets[g].pending /\ at \notin gets[g].pending
      /\ CallFails(n)
      /\ MarkUnreachable(at, n)
      /\ gets' = [gets EXCEPT ![g] = [gets[g] EXCEPT !.pending = @ \ {n}]]
      /\ UNCHANGED <<kv, hints, probe, ring, up, puts, rpcs>>

\* The orders in which the replies may have arrived: the local one first.
Arrivals(g) ==
  LET rs == gets[g].results
  IN  {f \in [1..Cardinality(rs) -> rs] :
         /\ \A i, j \in DOMAIN f : f[i] = f[j] => i = j
         /\ \A i \in DOMAIN f : f[i].node = gets[g].at => i = 1}

\* Every task is over: too few replies, no version among them, or a winner,
\* which goes to the client and to every replica that answered otherwise.
FinishGet(g, f) ==
  LET at    == gets[g].at
      found == {i \in DOMAIN f : f[i].ver # {}}
      vs    == [i \in found |-> CHOOSE v \in f[i].ver : TRUE]
      stale(win) == {r.node : r \in {x \in gets[g].results :
                       \A v \in x.ver : Compare(v.clk, win.clk) # "EQUAL"}}
  IN  /\ gets[g].pc = "reading" /\ gets[g].pending = {} /\ f \in Arrivals(g)
      /\ \/ /\ Cardinality(gets[g].results) < R
            /\ gets' = [gets EXCEPT ![g].pc = "failed"]
            /\ UNCHANGED <<kv, rpcs>>
         \/ /\ Cardinality(gets[g].results) >= R /\ found = {}
            /\ gets' = [gets EXCEPT ![g].pc = "none"]
            /\ UNCHANGED <<kv, rpcs>>
         \/ /\ Cardinality(gets[g].results) >= R
            /\ \E win \in ResolveGetResult(vs) :
                 /\ gets' = [gets EXCEPT ![g] = [@ EXCEPT !.pc = "ok", !.results = {}, !.win = {win}]]
                 /\ kv' = [kv EXCEPT ![at] = IF at \in stale(win)
                                            THEN StoreReplicated(@, win) ELSE @]
                 /\ rpcs' = rpcs \cup {Call("repair", g, at, n, win, n, FALSE, {}) :
                                         n \in stale(win) \ {at}}
      /\ UNCHANGED <<hints, unreachable, probe, ring, up, puts, spent>>

\* repairReplicas only logs a response, whatever it is.
RepairDone(m) ==
  /\ m \in rpcs /\ m.kind = "repair" /\ m.st \in {"stored", "refused"}
  /\ rpcs' = rpcs \ {m}
  /\ UNCHANGED <<node, puts, gets, spent>>

\* Mutant: the peer is not marked unreachable again.
BackgroundCallFails_Unmarked(m) ==
  /\ m \in rpcs /\ m.kind \in {"repair", "hint"} /\ Breaks(m)
  /\ rpcs' = (rpcs \ {m}) \cup Leftover(m)
  /\ UNCHANGED <<kv, hints, unreachable, probe, ring, up, puts, gets>>

\* A background call breaks: read repair and hint delivery end the same way.
BackgroundCallFails(m) ==
  /\ m \in rpcs /\ m.kind \in {"repair", "hint"} /\ Breaks(m)
  /\ MarkUnreachable(m.from, m.to)
  /\ rpcs' = (rpcs \ {m}) \cup Leftover(m)
  /\ UNCHANGED <<kv, hints, probe, ring, up, puts, gets>>

-----------------------------------------------------------------------------
(* The reachability thread: a round pings every unreachable peer at once,  *)
(* then goes through the answers one by one; it marks a peer that answered *)
(* reachable and delivers its hints before it looks at the next one.       *)

Delivering(n) ==
  \/ \E t \in Node : probe[n][t] = "reachable"
  \/ \E m \in rpcs : m.kind = "hint" /\ m.from = n

PingOk(n, t) ==
  /\ up[n] /\ up[t] /\ t \in unreachable[n]
  /\ probe[n][t] = "idle" /\ ~Delivering(n)
  /\ probe' = [probe EXCEPT ![n][t] = "alive"]
  /\ UNCHANGED <<kv, hints, unreachable, ring, up, puts, gets, rpcs, spent>>

MarkReachable(n, t) ==
  /\ up[n] /\ probe[n][t] = "alive" /\ ~Delivering(n)
  /\ unreachable' = [unreachable EXCEPT ![n] = @ \ {t}]
  /\ probe' = [probe EXCEPT ![n][t] = "reachable"]
  /\ UNCHANGED <<kv, hints, ring, up, puts, gets, rpcs, spent>>

\* Mutant: the hints are moved out instead of copied.
DeliverHints_Moved(n, t) ==
  /\ up[n] /\ probe[n][t] = "reachable"
  /\ probe' = [probe EXCEPT ![n][t] = "idle"]
  /\ rpcs' = rpcs \cup {Call("hint", v.id, n, t, v, t, FALSE, {}) : v \in hints[n][t]}
  /\ hints' = [hints EXCEPT ![n][t] = {}]
  /\ UNCHANGED <<kv, unreachable, ring, up, puts, gets, spent>>

\* deliverHints copies the hints under hints_mutex_ and sends each as a plain
\* write.
DeliverHints(n, t) ==
  /\ up[n] /\ probe[n][t] = "reachable"
  /\ probe' = [probe EXCEPT ![n][t] = "idle"]
  /\ rpcs' = rpcs \cup {Call("hint", v.id, n, t, v, t, FALSE, {}) : v \in hints[n][t]}
  /\ UNCHANGED <<kv, hints, unreachable, ring, up, puts, gets, spent>>

\* Mutant: whatever hint is there now is erased.
HintDelivered_Unchecked(m) ==
  /\ m \in rpcs /\ m.kind = "hint" /\ m.st = "stored"
  /\ hints' = [hints EXCEPT ![m.from][m.to] = {}]
  /\ rpcs' = rpcs \ {m}
  /\ UNCHANGED <<kv, unreachable, probe, ring, up, puts, gets, spent>>

\* A delivered hint is erased, unless another has taken its place meanwhile.
HintDelivered(m) ==
  /\ m \in rpcs /\ m.kind = "hint" /\ m.st = "stored"
  /\ hints' = [hints EXCEPT ![m.from][m.to] =
                 {h \in @ : Compare(h.clk, m.ver.clk) # "EQUAL"}]
  /\ rpcs' = rpcs \ {m}
  /\ UNCHANGED <<kv, unreachable, probe, ring, up, puts, gets, spent>>

\* The peer refused it: the hint stays, and so does the peer's reachability.
HintRefused(m) ==
  /\ m \in rpcs /\ m.kind = "hint" /\ m.st = "refused"
  /\ rpcs' = rpcs \ {m}
  /\ UNCHANGED <<node, puts, gets, spent>>

-----------------------------------------------------------------------------
(* What happens around the data path.                                      *)

\* A gossip call fails (SendGossip).  Its target was a peer of the table when
\* the round began, and need not be on the ring any more.
GossipFails(n, t) ==
  /\ up[n] /\ t \notin unreachable[n] \cup {n}
  /\ CallFails(t)
  /\ MarkUnreachable(n, t)
  /\ UNCHANGED <<kv, hints, probe, ring, up, puts, gets, rpcs>>

\* RemoveNode or a gossip merge changes n's ring (bounded).
ChangeRing(n, view) ==
  /\ up[n] /\ view # ring[n] /\ spent.changes < MaxChanges
  /\ ring' = [ring EXCEPT ![n] = view]
  /\ spent' = [spent EXCEPT !.changes = @ + 1]
  /\ UNCHANGED <<kv, hints, unreachable, probe, up, puts, gets, rpcs>>

\* The calls of n go on without it, and the calls to n break.
Severed(n) ==
  {m \in rpcs : m.from # n /\ m.to # n}
  \cup {[m EXCEPT !.kind = "orphan"] :
          m \in {x \in rpcs : x.from = n /\ up[x.to] /\ x.st \in {"sent", "marked"}}}
  \cup {IF m.st \in {"sent", "marked"} THEN [m EXCEPT !.st = "broken"] ELSE m :
          m \in {x \in rpcs : x.to = n /\ x.kind # "orphan"}}

\* Nothing is written to disk: a crash loses all a node has (bounded).
Crash(n) ==
  /\ up[n] /\ spent.crashes < MaxCrashes
  /\ up' = [up EXCEPT ![n] = FALSE]
  /\ kv' = [kv EXCEPT ![n] = {}]
  /\ hints' = [hints EXCEPT ![n] = [t \in Node |-> {}]]
  /\ unreachable' = [unreachable EXCEPT ![n] = {}]
  /\ probe' = [probe EXCEPT ![n] = [t \in Node |-> "idle"]]
  /\ ring' = [ring EXCEPT ![n] = {n}]
  /\ puts' = [p \in PutIds |-> IF puts[p].at = n /\ puts[p].pc # "free" /\ ~Done(p)
                               THEN [puts[p] EXCEPT !.pc = "dead"] ELSE puts[p]]
  /\ gets' = [g \in GetIds |-> IF gets[g].at = n /\ gets[g].pc \in {"admitted", "routing", "reading"}
                               THEN [gets[g] EXCEPT !.pc = "dead"] ELSE gets[g]]
  /\ rpcs' = Severed(n)
  /\ spent' = [spent EXCEPT !.crashes = @ + 1]

\* The process starts again under its old name with an empty store and a ring
\* of its own; it serves before it has heard of anyone.
Restart(n) ==
  /\ ~up[n]
  /\ up' = [up EXCEPT ![n] = TRUE]
  /\ UNCHANGED <<kv, hints, unreachable, probe, ring, puts, gets, rpcs, spent>>

\* bootstrapFromSeed: n and a seed exchange tables.  (From a seed that is n
\* itself it learns nothing.)
Bootstrap(n, seed) ==
  /\ up[n] /\ up[seed] /\ seed \in Seeds[n] \ {n} /\ ring[n] = {n}
  /\ ring' = [ring EXCEPT ![n] = {n} \cup ring[seed], ![seed] = @ \cup {n}]
  /\ UNCHANGED <<kv, hints, unreachable, probe, up, puts, gets, rpcs, spent>>

\* The exchange fails, before or after the seed took n's table.  Nothing keeps
\* n from calling itself.
BootstrapFails(n, seed) ==
  /\ up[n] /\ seed \in Seeds[n] /\ ring[n] = {n}
  /\ CallFails(seed)
  /\ MarkUnreachable(n, seed)
  /\ \/ UNCHANGED ring
     \/ up[seed] /\ ring' = [ring EXCEPT ![seed] = @ \cup {n}]
  /\ UNCHANGED <<kv, hints, probe, up, puts, gets, rpcs>>

-----------------------------------------------------------------------------
PutStep(p) ==
  \/ \E n \in PutContacts : \E ctx \in {{}} \cup {{v} : v \in Seen} : ClientPut(p, n, ctx)
  \/ SnapshotPut(p) \/ RoutePut(p) \/ PutJoin(p) \/ ForwardExhausted(p)
  \/ \E e \in puts[p].pref, ts \in Times : PutCommit(p, e, ts)
  \/ \E t \in puts[p].untried : ForwardFails(p, t) \/ \E q \in PutIds : ForwardSend(p, q, t)
  \/ \E q \in puts[p].child : ForwardBreaks(p, q) \/ ForwardRelay(p, q)

GetStep(g) ==
  \/ \E n \in GetContacts : ClientGet(g, n)
  \/ \E n \in Node : ReadReplica(g, n) \/ ReadFails(g, n)
  \/ SnapshotGet(g) \/ RouteGet(g)
  \/ \E f \in Arrivals(g) : FinishGet(g, f)

RpcStep(m) ==
  \/ RefuseWrite(m) \/ StoreWrite(m) \/ MarkHint(m) \/ StoreHint(m)
  \/ PutAck(m) \/ PutCallFails(m) \/ SnapshotTask(m) \/ Substitute(m)
  \/ RepairDone(m) \/ BackgroundCallFails(m) \/ HintDelivered(m) \/ HintRefused(m)

NodeStep(n) ==
  \/ \E t \in Node : \/ PingOk(n, t) \/ MarkReachable(n, t) \/ DeliverHints(n, t)
                     \/ GossipFails(n, t) \/ Bootstrap(n, t) \/ BootstrapFails(n, t)
  \/ \E view \in SUBSET Node : ChangeRing(n, view)
  \/ Crash(n) \/ Restart(n)

Next ==
  \/ \E p \in PutIds : PutStep(p)
  \/ \E g \in GetIds : GetStep(g)
  \/ \E m \in rpcs : RpcStep(m)
  \/ \E n \in Node : NodeStep(n)

Spec == Init /\ [][Next]_vars

-----------------------------------------------------------------------------
(* Properties.                                                             *)

Past(w) == puts[w.id].past

AtLeast(v, w) == Compare(v.clk, w.clk) \in {"EQUAL", "DOMINATES"}

\* No two writes so far were concurrent.
NoConflict == \A v, w \in Issued : Compare(v.clk, w.clk) # "CONCURRENT"

\* What a node stores for itself or for another.
Holds(n) == kv[n] \cup (UNION {hints[n][t] : t \in Node})

(* A clock never hides causality: a version that a later one descends      *)
(* from, through the client's context or the coordinator's own copy,       *)
(* compares DOMINATED.  This is what lets storeReplicatedWrite and         *)
(* computeFrontier throw dominated versions away (decision A1), across     *)
(* forwarding, hints, repair, crashes and reissued counters.               *)
CausalPastDominated ==
  \A v, w \in Issued : v.id \in Past(w) => Compare(v.clk, w.clk) = "DOMINATED"

(* Every counter in a clock is the one some write of that node was given,  *)
(* and that write is the version itself or one it descends from: merges    *)
(* bring in no event that the version did not see.                         *)
ClockBacked ==
  \A w \in Issued, n \in Node :
    w.clk[n] > 0 => \E v \in Issued : /\ v = w \/ v.id \in Past(w)
                                      /\ v.wr = n /\ v.clk[n] = w.clk[n]

(* A node never takes itself for unreachable and never holds a hint for    *)
(* itself: substitutes, forwarding targets and gossip partners are others. *)
(* preferenceListForKey would otherwise leave a node out of the keys it    *)
(* owns until its reachability thread pinged itself.                       *)
NeverDoubtsItself == \A n \in Node : n \notin unreachable[n] /\ hints[n][n] = {}

(* A Put that reports success has been acknowledged by W different nodes   *)
(* (PutResponse.acks: "how many replicas succeeded"), substitutes          *)
(* included.                                                               *)
QuorumDistinct == \A p \in PutIds : puts[p].pc = "ok" => Cardinality(puts[p].ackers) >= W

(* Without crashes and concurrent writes, an acknowledged write, or one    *)
(* that supersedes it, is always somewhere: hints are not erased before    *)
(* their owner has them, and nothing older overwrites it.                  *)
AckedNeverVanishes ==
  spent.crashes = 0 /\ NoConflict =>
    \A v \in Acked : \E n \in Node : \E x \in Holds(n) : AtLeast(x, v)

\* W of the acks came from nodes that store the write as their own.  A
\* substitute's ack is for a hint, which no read sees.
AckedByOwners(v) == Cardinality(puts[v.id].owners) >= W

\* Nothing disturbs the quorums: no crash, no membership change, no two writes
\* concurrent, and no more nodes than there are owners of a key.
QuorumsMeet ==
  spent.crashes = 0 /\ spent.changes = 0 /\ NoConflict /\ Cardinality(Node) <= N

(* Reads meet writes (W + R > N): on a cluster of N nodes without crashes, *)
(* membership changes and concurrent writes, a read returns no version     *)
(* older than one that W owners acknowledged before the read began.        *)
ReadCoversAcked ==
  QuorumsMeet =>
    \A g \in GetIds : \A v \in gets[g].before :
      AckedByOwners(v) => /\ gets[g].pc # "none"
                          /\ \A w \in gets[g].win : AtLeast(w, v)

(* PROGRESS.md and OPEN_QUESTIONS.md (Q24): two concurrent clocks cannot   *)
(* share a writer_id, which would make (last_updated, writer_id) a total   *)
(* order on what resolveLWW is given.                                      *)
ConcurrentWritersDiffer ==
  \A v, w \in Issued : Compare(v.clk, w.clk) = "CONCURRENT" => v.wr # w.wr

(* vector_clock.hpp: identical clocks only arise from one write echoed     *)
(* twice, which is why EQUAL may be answered ALREADY_CURRENT.              *)
EqualClocksSameWrite ==
  \A v, w \in Issued : Compare(v.clk, w.clk) = "EQUAL" => v = w

(* The replies of a read decide its winner, and not the order in which     *)
(* they came (computeFrontier and resolveLWW keep the first of equals), as *)
(* long as no node has written two concurrent versions and no two writes   *)
(* have one clock.                                                         *)
WinnerDecided ==
  ConcurrentWritersDiffer /\ EqualClocksSameWrite =>
    \A g \in GetIds : gets[g].pc = "reading" /\ gets[g].pending = {} =>
      \A e, f \in Arrivals(g) :
        LET Winner(a) == ResolveGetResult([i \in {k \in DOMAIN a : a[k].ver # {}} |->
                                             CHOOSE v \in a[i].ver : TRUE])
        IN  Winner(e) = Winner(f)

(* A replica never steps back in causality: what replaces a version, in    *)
(* the store or among the hints, is not one it descends from.              *)
StepsForward(held, next) ==
  \A v \in held, w \in next : v # w => w.id \notin Past(v)

NoStepBack ==
  [][\A n \in Node : /\ StepsForward(kv[n], kv'[n])
                     /\ \A t \in Node : StepsForward(hints[n][t], hints'[n][t])]_vars

(* Whatever the order of handlers at a node, a stored version is replaced  *)
(* only by one that the clocks do not put at or below it, and a write that *)
(* the node coordinates supersedes the copy it replaces: reading the copy, *)
(* building the clock and storing are one step (commitCoordinatedWrite).   *)
StoreSupersedes ==
  [][\A n \in Node : \A v \in kv[n], w \in kv'[n] \ kv[n] :
       Compare(v.clk, w.clk) \in
         IF w \in Issued THEN {"DOMINATED", "CONCURRENT"} ELSE {"DOMINATED"}]_vars

(* A hint is given up only when its owner stores the write, or one that    *)
(* supersedes it (without crashes and concurrent writes).                  *)
HintGivenUpOnlyWhenHeld ==
  [][spent.crashes = 0 /\ NoConflict =>
       \A n, t \in Node : \A h \in hints[n][t] :
         hints'[n][t] = {} /\ up'[n] => \E x \in kv[t] : AtLeast(x, h)]_vars

-----------------------------------------------------------------------------
(* What the documents say of the program and the runs refute.              *)

(* PROGRESS.md, decision A1: merging in the coordinator's own copy "cannot *)
(* itself cause a false dominates".  A version would then only dominate    *)
(* what it descends from.                                                  *)
NoFalseDominance ==
  \A v, w \in Issued : Compare(v.clk, w.clk) = "DOMINATED" => v.id \in Past(w)

(* PROGRESS.md, on counting the replies of a read before looking at them:  *)
(* "this is what preserves the W+R>N overlap guarantee".  A read would then *)
(* miss no acknowledged write, whoever acknowledged it.                    *)
OverlapGuarantee ==
  QuorumsMeet =>
    \A g \in GetIds : \A v \in gets[g].before :
      /\ gets[g].pc # "none"
      /\ \A w \in gets[g].win : AtLeast(w, v)

(* PROGRESS.md: a hint site overwrites on CONCURRENT as well as on         *)
(* DOMINATED, so a coordinator that counts its own ack holds the write or  *)
(* one that supersedes it.                                                 *)
SelfAckHeld ==
  [][\A p \in PutIds : puts[p].pc = "commit" /\ puts'[p].pc = "fanout" =>
       \A v \in puts'[p].ver : \E x \in Holds(puts[p].at)' : AtLeast(x, v)]_vars

(* PROGRESS.md: a node that keeps a hint has its owner among its           *)
(* unreachable peers, so that a probe will find the owner back and deliver *)
(* the hint.                                                               *)
HintWatched ==
  \A n, t \in Node : hints[n][t] # {} =>
    \/ t \in unreachable[n]
    \/ probe[n][t] # "idle"
    \/ \E m \in rpcs : m.kind = "hint" /\ m.from = n /\ m.to = t
=============================================================================
