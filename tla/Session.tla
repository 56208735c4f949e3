------------------------------- MODULE Session -------------------------------
(***************************************************************************)
(* DriftClient (driftclient.hpp): a client that spreads its calls over the *)
(* seeds it was given, walks on to the next seed when a call breaks or     *)
(* takes longer than its deadline, and sends with every put the context it *)
(* last saw.  Its calls come one after the other.  Other clients call the  *)
(* cluster at the same time; they are the clients of DriftStore.           *)
(*                                                                         *)
(* A call that the client gives up goes on at the node it reached.         *)
(***************************************************************************)
EXTENDS DriftStore, Sequences

CONSTANTS SeedNodes,    \* seed_nodes_
          RivalPuts,    \* bound: the Put executions left to other clients
          RivalGets,    \* bound: the Get executions left to other clients
          MaxTimeouts   \* bound: attempts that fail although the node is up

ASSUME SeedAssumption ==
  /\ SeedNodes \in Seq(PutContacts \cap GetContacts) /\ SeedNodes # <<>>
  /\ RivalPuts \subseteq PutIds /\ RivalGets \subseteq GetIds /\ MaxTimeouts \in Nat

VARIABLE client

Ids == PutIds \cup GetIds

\* last_context and request (the context of the put under way) are sets of at
\* most one version, execution of at most one identifier.  owned and asked are
\* history: the writes acknowledged to this client, and the context each of
\* its puts was made with.
ClientRec ==
  [pc : {"new", "idle", "put", "get"}, calls_made : Nat, attempt : Nat,
   last_context : SUBSET Version, request : SUBSET Version,
   execution : SUBSET Ids, timeouts : 0 .. MaxTimeouts,
   owned : SUBSET Version, asked : [PutIds -> SUBSET Version]]

ClientInit ==
  client = [pc |-> "new", calls_made |-> 0, attempt |-> 0,
            last_context |-> {}, request |-> {}, execution |-> {},
            timeouts |-> 0, owned |-> {}, asked |-> [p \in PutIds |-> {}]]

\* nextStart gave the call calls_made - 1.
Position == (client.calls_made - 1 + client.attempt) % Len(SeedNodes)
Address == SeedNodes[Position + 1]
-----------------------------------------------------------------------------
\* connect: one of the seeds answers a ping.
Connect ==
  /\ client.pc = "new" /\ \E i \in DOMAIN SeedNodes : up[SeedNodes[i]]
  /\ client' = [client EXCEPT !.pc = "idle"]
  /\ UNCHANGED vars

\* put and get: the request is made once, and the call starts at the next seed.
Begin(kind, context) ==
  /\ client.pc = "idle"
  /\ client' = [client EXCEPT !.pc = kind, !.request = context,
                  !.calls_made = client.calls_made + 1]
  /\ UNCHANGED vars

BeginPut == (\E p \in PutIds : Fresh(p)) /\ Begin("put", client.last_context)
BeginGet == (\E g \in GetIds : FreshGet(g)) /\ Begin("get", {})

Attempting(kind) ==
  client.pc = kind /\ client.execution = {} /\ client.attempt < Len(SeedNodes)

\* Mutants: only the first attempt carries the context; the client counts its
\* own writes in it.
AttemptPut_BlindRetry(p) ==
  /\ Attempting("put")
  /\ ClientPut(p, Address, IF client.attempt = 0 THEN client.request ELSE {})
  /\ client' = [client EXCEPT !.execution = {p},
                  !.asked = [client.asked EXCEPT ![p] = client.request]]
AttemptPut_OwnCount(p) ==
  /\ Attempting("put")
  /\ ClientPut(p, Address, {[v EXCEPT !.clk = [@ EXCEPT ![Address] = @ + 1]] :
                              v \in client.request})
  /\ client' = [client EXCEPT !.execution = {p},
                  !.asked = [client.asked EXCEPT ![p] = client.request]]

\* The attempt reaches a node.
AttemptPut(p) ==
  /\ Attempting("put")
  /\ ClientPut(p, Address, client.request)
  /\ client' = [client EXCEPT !.execution = {p},
                  !.asked = [client.asked EXCEPT ![p] = client.request]]

AttemptGet(g) ==
  /\ Attempting("get")
  /\ ClientGet(g, Address)
  /\ client' = [client EXCEPT !.execution = {g}]

\* A transport failure, or the deadline: on to the next seed.
NextSeed(forced) ==
  /\ \/ forced /\ client' = [client EXCEPT !.attempt = client.attempt + 1,
                                           !.execution = {}]
     \/ /\ ~forced /\ client.timeouts < MaxTimeouts
        /\ client' = [client EXCEPT !.attempt = client.attempt + 1,
                        !.execution = {}, !.timeouts = client.timeouts + 1]
  /\ UNCHANGED vars

AttemptFails ==
  /\ \E kind \in {"put", "get"} : Attempting(kind)
  /\ NextSeed(~up[Address])

\* The call under way breaks, or its response comes too late or is lost.
CallBreaks ==
  \/ \E p \in PutIds : client.execution = {p} /\ NextSeed(puts[p].pc = "dead")
  \/ \E g \in GetIds : client.execution = {g} /\ NextSeed(gets[g].pc = "dead")

\* The call returns, its variables go.
Returned(context) ==
  [client EXCEPT !.pc = "idle", !.attempt = 0, !.request = {},
                 !.execution = {}, !.last_context = context]

\* No seed is left to try.
GiveUp ==
  /\ client.pc \in {"put", "get"} /\ client.execution = {}
  /\ client.attempt = Len(SeedNodes)
  /\ client' = Returned(client.last_context)
  /\ UNCHANGED vars

\* Mutants: the contexts of all responses are kept; any response is cached,
\* the empty context of a refusal included.
PutReturns_KeepAll(p) ==
  /\ client.execution = {p} /\ Done(p)
  /\ client' = [Returned(client.last_context \cup puts[p].ver) EXCEPT
                  !.owned = client.owned \cup
                              (IF puts[p].pc = "ok" THEN puts[p].ver ELSE {})]
  /\ UNCHANGED vars
PutReturns_CacheAll(p) ==
  /\ client.execution = {p} /\ Done(p)
  /\ client' = [Returned(puts[p].ver) EXCEPT
                  !.owned = client.owned \cup
                              (IF puts[p].pc = "ok" THEN puts[p].ver ELSE {})]
  /\ UNCHANGED vars

\* A response with counters in its context is cached, successful or not.
PutReturns(p) ==
  /\ client.execution = {p} /\ Done(p)
  /\ client' = [Returned(IF puts[p].ver = {} THEN client.last_context
                                           ELSE puts[p].ver) EXCEPT
                  !.owned = client.owned \cup
                              (IF puts[p].pc = "ok" THEN puts[p].ver ELSE {})]
  /\ UNCHANGED vars

\* A version that was found is cached.
GetReturns(g) ==
  /\ client.execution = {g} /\ gets[g].pc \in {"ok", "none", "failed"}
  /\ client' = Returned(IF gets[g].pc = "ok" THEN gets[g].win ELSE client.last_context)
  /\ UNCHANGED vars

ClientStep ==
  \/ Connect \/ BeginPut \/ BeginGet \/ AttemptFails \/ CallBreaks \/ GiveUp
  \/ \E p \in PutIds : AttemptPut(p) \/ PutReturns(p)
  \/ \E g \in GetIds : AttemptGet(g) \/ GetReturns(g)

\* Everything else: the nodes, and other clients.
Elsewhere ==
  /\ Next /\ UNCHANGED client
  /\ \A p \in PutIds \ RivalPuts :
       puts[p].pc = "free" => puts'[p].pc = "free" \/ puts'[p].forwarded
  /\ \A g \in GetIds \ RivalGets : gets[g].pc = "free" => gets'[g].pc = "free"

SessionInit == Init /\ ClientInit
SessionNext == ClientStep \/ Elsewhere
SessionSpec == SessionInit /\ [][SessionNext]_<<vars, client>>
-----------------------------------------------------------------------------
ClientTypeOK == client \in ClientRec /\ AtMostOne(client.last_context)

\* Whatever node an attempt reached, forwarded or not, first or retried: what
\* it wrote supersedes what the client had seen when it called put.
PutSupersedesContext ==
  \A p \in PutIds : \A v \in puts[p].ver, w \in client.asked[p] :
    Compare(w.clk, v.clk) = "DOMINATED"

\* On a cluster of N nodes without crashes, membership changes and concurrent
\* writes, the context a session holds covers every write that was acknowledged
\* to it and that W owners took: neither a refusal, a late answer nor a read
\* takes it back.
CacheCoversOwnWrites ==
  QuorumsMeet =>
    \A w \in client.owned : AckedByOwners(w) => \E c \in client.last_context : AtLeast(c, w)
=============================================================================
