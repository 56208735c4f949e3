------------------------------ MODULE Progress ------------------------------
(***************************************************************************)
(* What the data path must get done in the end, if every thread that can   *)
(* go on does and every call that reaches a running node is answered.      *)
(***************************************************************************)
EXTENDS DriftStore

\* The handler of Put p goes on.  That a call to a running node fails is not
\* something that must happen.
PutRuns(p) ==
  \/ SnapshotPut(p) \/ RoutePut(p) \/ PutJoin(p) \/ ForwardExhausted(p)
  \/ \E e \in puts[p].pref, ts \in Times : PutCommit(p, e, ts)
  \/ \E t \in puts[p].untried :
       \/ \E q \in PutIds : ForwardSend(p, q, t)
       \/ ~up[t] /\ ForwardFails(p, t)
  \/ \E q \in puts[p].child :
       \/ ForwardRelay(p, q)
       \/ puts[q].pc = "dead" /\ ForwardBreaks(p, q)

\* The callee of m goes on.
Served(m) == RefuseWrite(m) \/ StoreWrite(m) \/ MarkHint(m) \/ StoreHint(m)

\* The caller of m looks at its outcome.
Returned(m) ==
  \/ PutAck(m) \/ SnapshotTask(m) \/ Substitute(m) \/ RepairDone(m)
  \/ HintDelivered(m) \/ HintRefused(m)
  \/ /\ m.st = "broken" \/ ~up[m.to]
     /\ PutCallFails(m) \/ BackgroundCallFails(m)

\* Handlers and their tasks run.  Nobody must call, crash or restart.
HandlerFairness ==
  /\ \A p \in PutIds : WF_vars(PutRuns(p))
  /\ \A n \in Node : /\ WF_vars(\E m \in rpcs : m.to = n /\ Served(m))
                     /\ WF_vars(\E m \in rpcs : m.from = n /\ Returned(m))

\* The reachability thread runs.  A round pings every peer of its snapshot and
\* there is always another round, so a peer is not passed over for ever while
\* deliveries to others come and go.
RoundFairness ==
  \A n \in Node :
    /\ WF_vars(\E t \in Node : MarkReachable(n, t) \/ DeliverHints(n, t))
    /\ \A t \in Node \ {n} : SF_vars(PingOk(n, t))

HandlerSpec == Spec /\ HandlerFairness
FairSpec == Spec /\ HandlerFairness /\ RoundFairness
-----------------------------------------------------------------------------
HoldsHint(n, t, p) == \E h \in hints[n][t] : h.id = p

\* A hint whose owner is on its holder's list of unreachable peers leaves the
\* holder: whatever breaks during its delivery, the owner is put back on the
\* list and tried again, for as long as both run and the owner takes writes.
HintLeaves ==
  \A n \in Node : \A t \in Node \ {n}, p \in PutIds :
    HoldsHint(n, t, p) /\ t \in unreachable[n]
      ~> ~HoldsHint(n, t, p) \/ ~up[n] \/ ~up[t] \/ isSelfRemoved(t)

\* The same without excusing an owner that was removed and came back: the hints
\* of a node that rejoined "should still be deliverable" (OPEN_QUESTIONS.md, Q27).
HintDeliverable ==
  \A n \in Node : \A t \in Node \ {n}, p \in PutIds :
    HoldsHint(n, t, p) /\ t \in unreachable[n]
      ~> ~HoldsHint(n, t, p) \/ ~up[n] \/ ~up[t] \/ []isSelfRemoved(t)

\* Every Put is answered, or dies with its node: again and again a moment comes
\* at which none is open.  No task of a fan-out goes on looking for a substitute
\* for ever, waits for a call that a crash has cut, or is left behind by its
\* handler; and forwarding ends.  (A forward that finds no free identifier is
\* cut off by the model's bound.)
PutAnswered ==
  []<>(\A p \in PutIds :
         \/ puts[p].pc \in {"free", "dead"} \/ Done(p)
         \/ puts[p].pc = "forward" /\ \A q \in PutIds : puts[q].pc # "free")
=============================================================================
