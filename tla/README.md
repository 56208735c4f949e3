# driftstore in TLA+

driftstore is a Dynamo-style replicated key-value store: a ring of nodes with
virtual tokens, coordinators that fan writes out to N replicas and answer after
all tasks are over if W of them succeeded, sloppy quorums with hinted handoff,
vector clocks, last-write-wins resolution at read time, read repair, and a
gossiped membership table. This directory models its data path, its membership
protocol, its ring walk and its client library, model-checks them on small
clusters and proves the safety properties among what they promise for every
cluster.

## Inventory

| Part | Source | State | Operations | Hard behaviours | What makes it correct |
|---|---|---|---|---|---|
| Version arithmetic | `vector_clock.hpp` | none | `compareVectorClocks`, `mergeClocks`, `buildNewClock`, `computeFrontier`, `resolveLWW`, `resolveGetResult` | equal clocks of different writes, full ties of `(last_updated, writer_id)` | a new clock dominates what it was built from; a winner is one of the frontier |
| Ring, preference list | `ring.hpp`, `node_kv.cpp` | `ring_` | `preferenceList`, `findSubstitute` | unreachable owners, substitutes | a node never stands in for itself; natural owners keep their places |
| Put | `node_kv.cpp` | `kv_store_`, handler locals | `Put`, `forwardPut`, `coordinatePut`, `commitCoordinatedWrite`, `ReplicateWrite`, `storeReplicatedWrite` | parallel tasks, broken calls served late, retries at other nodes | W distinct acks; causal order never inverted; an acked write is not lost |
| Get and read repair | `node_kv.cpp` | handler locals | `Get`, `ReplicateRead`, `repairReplicas` | stale replies, repair racing with writes | a read covers what was acknowledged before it |
| Reachability, hinted handoff | `node_reachability.cpp`, `node_kv.cpp` | `unreachable_peers_`, `hints_for_target_` | `markUnreachable`, `reachabilityRound`, `deliverHints` | a probe between marking and storing, a hint replaced while it travels | a hint is given up only when its owner has the write, and is delivered eventually |
| Membership and gossip | `node_membership.cpp`, `ring.hpp` | `table_`, `ring_` | `RemoveNode`, `GossipExchange`, `gossipRound`, `applyGossip`, `bootstrapFromSeed` | lagging clocks, ties, removal against refresh, restart | tables converge; the ring is the table's UP tokens |
| Process | `node_main.cpp` | none | constructor, `main`, `start` | serving before bootstrap, restart with empty memory | quorum configuration |
| Client library | `driftclient.hpp` | `last_context_`, `calls_made_` | `connect`, `put`, `get` | retry of a request that was served | read your writes through the context |
| Client and driver, status, ping, logging, tests, harness, experiments | `client.cpp`, `driftclient.cpp`, `node_status.cpp`, `logging.hpp`, `test_*.cpp`, `harness/`, `vnode_experiment.cpp` | none | - | - | - |

Nodes interact by synchronous gRPC calls: Put (client to node, node to node
when forwarded), ReplicateWrite (fan-out, repair, hint delivery), ReplicateRead,
GossipExchange, Ping. Within a node, handler threads, the tasks of a fan-out,
detached repair threads, the gossip thread and the reachability thread share
four maps, each under its own mutex. No lock is held across a call, and no call
between nodes carries a deadline except Ping.

PROJECT.json lists the hazards of this code one by one, with the line at which
each bites and the properties that watch it.

## Modules

    Cluster              the nodes and the quorum configuration main() accepts
      VersionClock       the version arithmetic (vector_clock.hpp, storeReplicatedWrite)
      Placement          preference lists and substitutes (ring.hpp, node_kv.cpp)
        DriftStore       the data path: VersionClock + Placement
          Progress       its fairness and liveness; MCDriftStore for TLC
          Session        DriftClient on top of it; MCSession for TLC
          DriftStoreProofs   TypeOK (uses VersionClockProofs)
            DoubtProofs        no node doubts itself
            CausalityProofs    the causal properties
              QuorumProofs       what an ack is worth (with DoubtProofs)
                SessionProofs      DriftClient's refinement, contexts and cache
                                   (with Session)
      RingWalk           the walk over tokens; shown to return what Placement says
        RingWalkProofs
    Registers            abstract: last-writer-wins registers
      Membership         the gossiped table and the ring; implements Registers
        MCMembership     for TLC
        MembershipProofs

**Cluster** holds `Node`, `N`, `W`, `R`; `QuorumAssumption` is the check of
`main()`.

**VersionClock.** A clock is a function from nodes to counters; a counter that
is missing from the protobuf map is 0, as `compareVectorClocks` reads it. A
version is a `VersionedValue`; its value is the identifier of the Put execution
that wrote it, so that two writes with one clock stay two writes. `Compare` is
the outcome of the two-pass comparison. `StoreReplicated` is the replacement
rule of `storeReplicatedWrite` and of `ReplicateWrite`'s hint branch.
`Frontier`, `ResolveLWW` and `ResolveGetResult` work on replies in the order of
their arrival, because the code does (`computeFrontier` keeps the first of
equals, `resolveLWW` keeps its candidate on a tie).

**Placement.** The token walk meets each node first at one of its tokens, so
from a key a ring is a set of nodes in an order `Pos`. `PreferenceList`,
`Candidates`/`Nearest` and `NextTarget` are what `preferenceList`,
`findSubstitute` and `forwardPut`'s loop return for such a ring.

**DriftStore** models one key; keys meet only in locks. Its variables are the
node's members (`kv`, `hints`, `unreachable`, `probe` for where a reachability
round is, `ring`, `up`), the running Put and Get handlers (`puts`, `gets`), and
the ReplicateWrite calls whose outcome is open (`rpcs`). `spent` counts what the
bounds allow. A handler is cut into actions at its critical sections and calls,
apart from the few joins listed below the table:

| Code | Actions |
|---|---|
| `Put` | `ClientPut` (admission), `SnapshotPut` (`unreachableSnapshot`), `RoutePut` (the walk) |
| `coordinatePut` | `PutCommit` (own copy or self-held hint, own ack, tasks started), `PutAck`, `PutCallFails` (`markUnreachable`), `PutJoin` |
| `findSubstitute` | `SnapshotTask` (`unreachableSnapshot`), `Substitute` (the walk) |
| `forwardPut` | `ForwardSend`, `ForwardFails`, `ForwardBreaks`, `ForwardRelay`, `ForwardExhausted` |
| `ReplicateWrite` | `RefuseWrite`, `StoreWrite`, `MarkHint`, `StoreHint` |
| `Get`, `ReplicateRead` | `ClientGet`, `SnapshotGet`, `RouteGet`, `ReadReplica`, `ReadFails`, `FinishGet` |
| `repairReplicas` | calls sent by `FinishGet`; `RepairDone`, `BackgroundCallFails` |
| `reachabilityRound`, `deliverHints` | `PingOk`, `MarkReachable`, `DeliverHints`, `HintDelivered`, `HintRefused`, `BackgroundCallFails` |
| gossip, `RemoveNode`, `bootstrapFromSeed` | `GossipFails`, `ChangeRing`, `Bootstrap`, `BootstrapFails` |
| process | `Crash`, `Restart` |

A call may break before or after its callee serves it. In the second case the
callee may still act on it later: the call stays in `rpcs` as an *orphan* whose
answer nobody reads. A forwarded Put is an execution of its own that goes on
when the forwarding node gives up on it. A crash loses everything the node has;
it comes back under its old name, empty, with a ring of its own, and serves
before it has bootstrapped, as `main()` does.

These joins of the code's steps remain:

- the `isSelfRemoved` check of `ReplicateWrite` (`RefuseWrite`, `StoreWrite`,
  `MarkHint`) is one with the access that follows it, so a removal does not fall
  between the two;
- `ReadReplica` is `ReplicateRead`'s check and read together with the arrival of
  its reply at the coordinator;
- `ForwardSend` is the call together with its admission at the target;
- `FinishGet` is the resolution, the local repair and the sending of the other
  repairs;
- `Bootstrap` is one exchange of tables: the snapshot of the node, the merge at
  the seed and the merge of its answer, which Membership has apart. The order of
  the seeds and the three passes are Membership's too.

`ring` is an abstraction: `ChangeRing` gives a node any ring, where the code
computes it from the membership table. A gossip call may fail to any peer, on the
ring or off it; a bootstrap call marks the seed it could not reach, which may be
the node itself where its seed list names it (`Seeds`). Equal orphaned calls
count as one, since to serve a write twice is to serve it once.

`past`, `ackers` and `owners` of a Put and `before` of a Get are history: no
action reads them, the properties do. `ackers` are the nodes whose acks were
counted, `owners` those of them that put the write into their store; the others
keep it as a hint.

**Progress** adds fairness to DriftStore: `HandlerSpec` (handlers and their
tasks run), `FairSpec` (reachability rounds run as well).

**Session** models one DriftClient. It adds the variable `client` (rotation
counter, attempt, cached context, the request under way) and shares the calls
of DriftStore: an attempt is a `ClientPut` or `ClientGet` at the seed whose turn
it is, with the cached context as it was when `put` was called. A failure or the
deadline moves the client to the next seed while the attempt goes on where it
is. `PutReturns` and `GetReturns` are the two caching rules. Other clients call
at any time. `Session` states `DriftStore!Spec` as a property: whatever
DriftClient does is something DriftStore lets its clients do, so what is proved
of DriftStore holds for its users.

**RingWalk** is the loop of `preferenceList`, one turn a step: `Repeated`,
`Natural`, `Cover` and `Pass` are its branches, `Visit` the turn with the test
for the end, `After` is `upper_bound` or `++it` with the wraparound. Its initial
states are all arguments within the bounds. `FairSpec` is `Spec` with fairness.
`WalkIsPlacement` is the bridge to `Placement`: the ring as a set of nodes in the
order of their first tokens.

**Membership** models every node's `table_` and `ring_`. An entry is a record as
in the proto, with a `life` (which start of the process wrote it) as history.
`Wins` is the comparison of `mergeInto`, `MergedTable` and `MergedRing` what it
leaves. A gossip exchange is four steps: the snapshot and the call
(`StartRound`, `CallSeed`), the merge at the callee (`GossipExchange`), the merge
of the answer (`TakeAnswer`), or a failure (`CallRefused`, `CallLost`), after
which the callee may still merge the request (`LateExchange`). `RemoveNode`,
`Start` (constructor and bootstrap), `Crash` and `BootstrapFailed` (main exits
after three passes) are the rest. `Clocks` says how `nowMillis` of different
processes relate: `"skewed"` (a reading is strictly after every entry the node
itself wrote), `"one"` (strictly after every entry anybody wrote) or `"any"`. A
node's `Seeds` are addresses in the order of its list, and nothing need run at an
address.

**Registers** is what the table promises: a register per node and subject that
moves only to a value somebody wrote about that subject and that beats the
current one, is written, or is lost with its process. `ImplementsRegisters` is
the refinement, `register <- table`.

## Runs

Deadlock is not checked: executions are finite by the bounds, and a store with
nothing left to do stops.

| Run | Bounds | Shows |
|---|---|---|
| `sloppy` | 3 nodes, N=2 W=2 R=1, 2 Puts, 1 loss, 1 ring change, a bootstrap that may fail | one version per slot, the causal and handoff properties with substitutes, forwarding, orphans, refusals; no lost update of a store; an acknowledged write outlives the overtaking by another; W distinct acks; node 3 coordinates as substitute or forwards |
| `handoff` | 3 nodes, N=2 W=1 R=2, 1 Put, 2 losses, fair | an acknowledged write survives failure and repeated delivery; hints leave; `NeverDoubtsItself` |
| `strict` | 3 nodes, N=3 W=2 R=2, 2 Puts, 1 Get begun after an acknowledgement, 1 loss | reads meet writes on a cluster of N nodes, read repair racing with writes; the winner does not depend on arrival order |
| `crash` | 3 nodes, N=2 W=1 R=2, 2 clients' Puts and an execution for a forward, 1 crash, fair handlers | clocks across a restart with reissued counters, and across a forward that is tried again; every Put is answered, the forwarded one included |
| `gossip` | 3 nodes, 3 times, skewed clocks, 1 removal, 1 crash and restart, 1 call at a time, fair | refinement of `Registers`, ring = table, stamps decide, no self-reboot, convergence |
| `join` | 2 nodes, a dead address first in the seed list, 4 times, common clock, 1 removal, 2 starts, 1 lost call, 2 calls at a time, fair | bootstrap with retries; a started node is heard of; a removed one returns only by a restart |
| `ringwalk` | 4 nodes, all rings of up to 4 tokens, N=2 and 1, all keys and unreachable sets | the walk returns what `Placement` says, in order, and ends |
| `session` | 2 nodes, N=2 W=2 R=1, 3 Puts, 1 of them a rival's, 1 Get of the client's, at most 2 failures: 1 lost call, attempts that fail at a running seed | DriftClient is a client of DriftStore; its context works across retries |

The clocks of the data path may all read the same time (`Times = {1}`):
causality must not lean on timestamps. Two Puts are enough for a write and its
descendant or its rival; three nodes with N=2 are the smallest cluster with a
substitute; one lost call is enough for a substitute, an orphan, a hint or a
retried forward, two for a delivery that fails and is repeated. `ClientIds` and
`RivalPuts` say which executions clients and rivals may begin; the others are
left to forwards and to the client. Four nodes are
the fewest with two covers for two owners. In membership, `MaxRemovals`,
`MaxStarts`, `MaxLosses` and `Times` bound how often an entry is written and a
call fails, `MaxCalls` how many exchanges overlap; the number of gossip rounds
is not bounded.

Three runs follow only some behaviours, by a state constraint. In `sloppy`, a
node's ring loses one node, or all others (`FewRemoved`). In `strict`, a Get
that began before anything was acknowledged has nothing to cover and is left
(`ReadHasDuties`). In `session`, a client's attempts that fail at a running seed
count toward the failures together with lost calls (`FewFailures`), and a third
Put is the client's own and made with a context (`ThirdIsOwn`): so both attempts
of one `put` may write, at two coordinators, after a write the client has seen.

`CausalPastDominated` and `ClockBacked` say what vector clocks are for: a
write's clock dominates everything the write descends from, and no counter in
it comes from anywhere else. `NoStepBack`: a slot never goes back to an
ancestor. These three compare a write with what its coordinator read.
`StoreSupersedes` compares it with what it overwrites, as the store is at that
moment, and so tells whether `commitCoordinatedWrite` has to be one critical
section. `QuorumDistinct`: an `ok` is W nodes. With N=2 a fan-out has one remote
task, so the run shows that the task avoids the coordinator and the nodes it has
tried; two tasks are in `Fanout`, and in the theorem for W up to 2. It fails with
W=3 (below). `NeverDoubtsItself`: no node marks itself unreachable or holds a
hint for itself, as long as no seed list names its own node.

`StartedIsHeard` asks that every running node come to hold an entry of the
process that started, or a removal written later: an entry that loses against an
older one does not do.

Four properties are stated for quiet histories, because the code promises
nothing beyond: memory is all there is, and a CONCURRENT overwrite forgets a
version on purpose. `AckedNeverVanishes` and `HintGivenUpOnlyWhenHeld` exclude
crashes and concurrent writes. `ReadCoversAcked` and `CacheCoversOwnWrites`
need quorums that meet (`QuorumsMeet`): also no membership change and no more
nodes than a key has owners. Even so an ack may be a substitute's, which holds a
hint that no read sees; they therefore speak of writes that W *owners* took
(`AckedByOwners`), and `StaleQuorum` below shows what happens to the others.

`WinnerDecided` assumes that no node wrote two concurrent versions and that two
writes never have one clock: `computeFrontier` keeps the first of two equals.
Both can fail (`SameWriter`, `equal_hint`), and the winner is then the first to
arrive.

### What the documents say and the code does not do

Four runs are expected to fail. Each checks one sentence of the repository.

| Run | The sentence | The counterexample |
|---|---|---|
| `equal_hint` | vector_clock.hpp: identical clocks are one write echoed twice | a substitute coordinator builds clocks without a local copy |
| `hint_orphan` | PROGRESS.md: a self-held hint's owner is in `unreachable_peers_` | a probe removes it between the preference list and the hint |
| `hint_dropped` | PROGRESS.md: both hint sites overwrite on CONCURRENT | the self-held site does not, and counts its ack |
| `mutual_removal` | README.md: the table converges regardless of merge order | two nodes that hold each other REMOVED never call each other again |

Further configurations give counterexamples to sentences of the same kind; they
are run by hand, `tlc -config <name>.cfg MCDriftStore` or `MCMembership`.

| Configuration | The sentence | The counterexample |
|---|---|---|
| `FalseDominance` | PROGRESS.md A1: merging the local copy cannot cause a false "dominates" | the client's context and an unrelated local copy together dominate a third write |
| `SameWriter` | PROGRESS.md: no two CONCURRENT clocks share a `writer_id` | a coordinator's copy is overwritten by a concurrent one, and its next write does not descend from its first |
| `EqualCrash` | PROGRESS.md B1: identical clocks are one write | a restarted coordinator counts from 1 again |
| `StaleQuorum` | PROGRESS.md: the count of replies preserves the W + R > N overlap guarantee | a substitute's ack counts for W, and the read asks everybody but sees no hint |
| `SharedSubstitute` | driftstore.proto: acks is how many replicas succeeded | two tasks choose one substitute and count it twice |
| `SoftRemove` | PROGRESS.md: a removed node that keeps running will return | its own entry is stamped in the constructor only |
| `LaggingRemoval` | PROGRESS.md: a removal's timestamp outraces the node's own entry | the remover's clock lags behind |
| `VnodesChanged` | README.md: `REMOVED` nodes are absent from `ring_` | an UP entry that replaces an UP entry leaves the old tokens |
| `SameMillisecond` | OPEN_QUESTIONS.md: every node computes the same winner | two entries of one writer in one millisecond tie entirely |
| `RejoinedHint` | OPEN_QUESTIONS.md Q27: the hints of an owner that rejoins should still be deliverable | the owner refused them while it was removed and stayed reachable; nobody tries again |
| `RemovedSilent` | OPEN_QUESTIONS.md: a removed node stops initiating gossip | `gossipRound` never looks at the node's own status |

Three more are run by hand to mark limits. `Fanout` (four nodes, N=3, W=2, two
lost calls, passes) has two tasks that look for substitutes at once. `OwnSeed`
refutes `NeverDoubtsItself` where a node's seed list names the node itself: its
own server may fail its call, and `SendGossip` marks whom it called.
`LonelySeed` refutes `StartedIsHeard` with a seed that has itself just restarted:
it answers, knows nobody and dies, and the newcomer, whose bootstrap is over,
never asks its other seed.

## Fairness

**Handlers** (`HandlerFairness`): weak fairness of every Put handler, and for
every node of its served calls and of its calls that have an outcome. Handler
threads, tasks and detached threads are scheduled by the system and hold no lock
while they wait. That a call to a running node fails is never forced, nor is a
crash, a restart or a client. A call to a running node is assumed to end: the
code sets no deadline that would see to it.

**Reachability rounds** (`RoundFairness`): weak fairness of the step that takes
a peer off the list or delivers to it, strong fairness of a successful ping of
each peer. `reachabilityLoop` pings everybody on its snapshot in every round and
rounds follow one another, so a peer that answers is not passed over for ever,
though the ping of one is not enabled while deliveries to another go on.

**Gossip** (`Membership!Fairness`): `selectGossipTarget` picks at random, so a
pick that is possible again and again is made: strong fairness of `StartRound`
for each pair; strong fairness of a bootstrap's next call, which waits for others
only where `MaxCalls` bounds the overlap; weak fairness of a call's progress.
Removals, starts, crashes and lost calls are never forced.

**RingWalk**: weak fairness of its only thread.

Liveness checked under these: `HintLeaves`, `PutAnswered`, `Converges`,
`StartedIsHeard`, `Terminates`. `PutAnswered` says that again and again there is
a moment at which no Put is open, forwarded ones included; a forward that the
model leaves without an identifier for its target does not count. `HintLeaves` excepts owners that were removed
(they refuse hints, and stay reachable) and speaks of hints whose owner is on the
list: `hint_orphan` shows one whose owner is not.

## Proofs

`VersionClockProofs` relates `Compare` to the order on clocks (`Below`), and
shows that `MergeClocks` is an upper bound, that `BuildNewClock` dominates the
client's context and the coordinator's copy, and that `StoreReplicated` never
goes down.

`DriftStoreProofs` proves `TypeCorrect`, `Spec => []TypeOK`, with a lemma per
action. Its last conjunct, one version per slot, is where
`StoreReplicatedKeeps` is used.

`CausalityProofs` proves four of the properties the runs check:
`CausalityKept` (`CausalPastDominated`), `NeverStepsBack` (`NoStepBack`),
`StoresSupersede` (`StoreSupersedes`) and `EveryCounterBacked` (`ClockBacked`).
None is inductive. `PutCommit` builds a
clock from a context and from a stored copy, and its past from the identifiers
of both, so one must know that these are versions some Put issued, that an
identifier names one version, and that the past of each lies below it.
`CausalInv` says so of every place a version can be: stores, hints, calls in
flight, replies and winners of reads, contexts. The argument has two halves:

- every action but `PutCommit` issues nothing (`PutsKept`) and moves only issued
  versions around (`StoresKept`); a lemma per action, and `KeptIsCausal` once;
- `PutCommit` adds one version, with the identifier of a Put that had none, above
  both of its sources (`BuildAbove`) and so above their past (`CausalPutCommit`).

`CausalityKept` is then immediate. For `NeverStepsBack`, a slot is emptied, kept,
taken over by a version that is not below what it held (`SlotForward`), or taken
by `PutCommit`'s new version, whose identifier is in nobody's past yet. For
`StoresSupersede`, what takes a store over is stored by the replacement rule, or
built above the copy it takes the place of. For
`EveryCounterBacked`, a counter of a new clock is the coordinator's, hence the
new version's own, or one of a source (`BuildCounters`).

`DoubtProofs` proves `NobodyDoubtsItself` (`NeverDoubtsItself`), where no node is
among its own seeds. A node marks the peer of a call that failed and holds hints
for the owners it covers, so the invariant `DoubtInv` says that calls go to other
nodes (`CallsOutward`), that a Put is forwarded to other nodes, and that a list
names every node once (`PutsOutward`). `OwnSide` leaves the seeds free: a node
never holds a hint for itself, and marks itself only if it is its own seed. So
the proofs that build on `DoubtInv` need no assumption on seeds. The last rests on the walk: `RankTellsApart` (two nodes of one
ring have two ranks, because tokens differ) and `ListIsGood`, of every list
that `PreferenceList` may return.

`QuorumProofs` is about what an acknowledgement is worth. It goes from the tasks
of a Put to the nodes that hold its version to the reads that meet it:

- `TaskInv`: a task runs for a Put that waits for it and carries that Put's
  version; the coordinator is among its own ackers; a version in an answer is
  one whose Put has ended. Hence a second ack comes from a second node, and
  `AcksAreDistinct` (`QuorumDistinct`) holds for W up to 2, the default. That
  hypothesis is needed: with W=3 two tasks may meet at one substitute
  (`SharedSubstitute`).
- `HeldInv`, in quiet histories: a call that was served left its version, or a
  later one, with the callee (`StoredCovered`); every version that was issued,
  acknowledged or not, is covered by some node's store or hints (`AllHeld`); and
  every owner that acknowledged a write covers it for good (`OwnersHold`). A
  hint may go only because its delivery was served, and `StoredCovered` is what
  the answer then stands for. `AckedWritesStay` (`AckedNeverVanishes`) is
  `AllHeld`, and `HintsAreDelivered` (`HintGivenUpOnlyWhenHeld`) is the step of
  it that takes a hint away.
- `ReadInv`: every node replies to a read once, and an owner of a write that was
  acknowledged before the read began replies with a version that covers it
  (`OwnersReply`). `ReadsMeetWrites` (`ReadCoversAcked`) needs the two quorums to
  meet: W owners and R repliers among at most N nodes cannot be disjoint, since
  the sum of their cardinalities is above N. What the read returns is then above
  the reply of the node they share, because a winner is dominated by nothing
  that was replied and, without concurrent writes, whatever does not dominate it
  is below it.
- `RepliesDecideTheWinner` (`WinnerDecided`): the frontier is the set of
  undominated versions, and the fold of `resolveLWW` over it ends with the one
  of the latest stamp. That one exists and is unique is shown by a least
  counterexample, for any number of replies in any order.

`AtLeastIsAbove` relates what `Compare` returns to the order of the counters at
every node, and is what all of this computes with.

`RingWalkProofs` proves all four invariants of `RingWalk`: `WalkTypes`,
`WalkKeepsOrder` (`ListInWalkOrder`), `WalkReturnsPlacement`
(`WalkIsPlacement`) and `WalkReturnsNearest` (`WalkFindsNearest`), for every
ring, key, owner count and set of rejected nodes. `WalkInv` says what was done
when the nodes `S` have been seen:

- the tokens behind the iterator are those at a smaller distance from the key
  (`WalkStarts`, `WalkGoesOn`: `upper_bound`, `++it` and the wraparound), so `S`
  comes first on the ring (`PassedComesFirst`);
- the list holds `Entries(S)`, what Placement lists if only `S` counts; the
  queue holds the skipped owners of `S` that have no cover, in the order of
  their ranks; and as many covers were given as owners have left it (`Good`).

Each branch of the loop keeps this (`OwnerListed`, `OwnerWaits`, `CoverGiven`,
`NodePassed`), by counting: the rank of the next node among any nodes is the
number of them seen (`RankOfNext`). At the end either all have been seen or the
list has n entries, and then nobody further on has a place in it
(`ListComplete`). For n=1 the only entry is the nearest node that is not
rejected, as an owner or as the cover of the one owner that is (`OneEntry`).
That the loop ends is left to TLC.

The assumptions are `NodeAssumption`, `QuorumAssumption`, `IdAssumption`,
`PosAssumption` and `BoundAssumption` (`TokenAssumption` for the walk,
`SeedAssumption` for the client); none
bounds the number of nodes, writes, reads, losses, crashes or ring changes.

`MembershipProofs` proves, for every number of nodes, every schedule and every
bound:

- `TypeCorrect`;
- `RingCorrect` (`RingIsTable`), where all processes of a node use one number of
  vnodes (`Vnodes` has one element; `VnodesChanged` shows why). The invariant adds
  that an UP entry has its subject's tokens and any other entry none, in every
  table and every message, and that tokens of different nodes are different;
- `MembershipIsRegisters` (`ImplementsRegisters`): every table entry, in a node or
  on its way, is one that was issued for its subject, and each action is a step
  of `Registers`;
- `StampsDecide` (`StampDecides`), where a process never reads one time twice
  (`OwnClocksForward`; `SameMillisecond` shows why). The invariant bounds the
  stamps a node has issued by its own entry and its clock;
- `NoSelfReboot` (`NeverRebootsItself`): what a node's own table says about
  itself is at least as late as any UP entry about it that is still around;
- `RemovalLasts` (`ReturnsOnlyByRestart`), where clocks agree
  (`Clocks = "one"`; `LaggingRemoval` shows why).

`SessionProofs` proves, for every list of seeds and every number of calls,
`ClientTypeCorrect` (`ClientTypeOK`), `SessionIsAClient` (`SessionSpec => Spec`)
and `PutsSupersede` (`PutSupersedesContext`). Two inductions run side by side:

- the contexts the client holds are those of versions it was answered with
  (`HoldsSeen`). This is where the two caching rules count, and it needs that an
  answer stays what it is, so that `Seen` only grows (`SeenGrows`), and that the
  call the client waits for is not a forwarded one (`CallIsOwn`);
- `Carries(p, S)`: a Put made with the context `S` holds `S` until it builds its
  version, which is then above `S`. It is kept for the client's own Puts
  (`AskedCarried`) and for the Puts forwarded on behalf of others
  (`ChildrenCarry`), whose versions are relayed.

Most steps only move a Put along (`AllMove`, a lemma per action); the four that do
more have a lemma of their own (`ClientPutKeeps`, `CommitKeeps`, `SendKeeps`,
`RelayKeeps`). By `SessionIsAClient` the theorems about DriftStore hold for the
users of DriftClient.

`SessionKeepsItsWrites` (`CacheCoversOwnWrites`) is where the data path and the
client meet. `CacheInv` says that what the client owns is acknowledged, that a
read of its own that is under way began after all of it, and that a put of its
own carries the cached context. A put that returns replaces the cache by a
version above it; a read that finds one does so by `ReadsMeetWrites`; any other
answer leaves it alone.

Every safety property of the passing runs is proved, for every value of the
constants, under the hypotheses its statement or its theorem names. Model-checked
only are the liveness properties, `HintLeaves`, `PutAnswered`, `Converges`,
`StartedIsHeard` and `Terminates`: liveness under fairness and ENABLED are out of
the provers' reach, as is what a definition by recursion computes for every
input. The counterexamples above come from TLC as well.

## Not modelled

The hash (tokens and keys are numbers, and no two nodes share a token); several
keys; the composition of Membership with DriftStore, which takes `ring` to change
by any step instead; a reachability thread that hangs in a call without a
deadline; overflow of 64-bit counters, which no execution reaches; connections
and channels of gRPC; logging, status, the command line, tests and the placement
experiment, which change no state of the system.

## Plan

Done: the data path, membership, the ring walk, the client library, liveness,
and the proofs above. Left, in this order:

1. Proofs: that the walk is bounded, as the safety half of `Terminates` (each
   turn brings it nearer to its end).
2. Proofs: the safety half of `PutAnswered` (a Put that waits has somebody to
   wait for).
3. DriftStore with Membership as the source of its rings.
