----------------------------- MODULE AgentPools -----------------------------
(***************************************************************************)
(* The MCP connection pools and the agent caches of one agent process      *)
(* (src/applications/strands-agent-base/app: agent.py, identity.py,        *)
(* a2a_isolation.py and the routes of main.py).                            *)
(*                                                                         *)
(* Two threads share the pools.  The event loop serves one request at a    *)
(* time: building an agent, with the connections it opens or restarts, is  *)
(* synchronous code in a coroutine.  The readiness probe runs in a worker  *)
(* thread: it holds _readiness_lock against other probes, but nothing keeps*)
(* it and the event loop apart except the lock around one pool's lists.    *)
(* A step is what a thread does between two calls that leave the process;  *)
(* the pop and the reinsertion of a pool, and the probe's lookup and       *)
(* insertion, are steps of their own too.                                  *)
(***************************************************************************)
EXTENDS Integers, SequencesExt

CONSTANTS
  Routes,     \* the caches of agents: _agents of /chat, _contexts of the A2A executor
  Requests,   \* records of sub (x-forwarded-user), tok (bearer token) and ctx (contextId)
  Urls,       \* MCP_SERVER_URLS; in which order they are tried does not matter
  Pools,      \* ids of pools
  MaxPools,   \* _MAX_MCP_POOLS
  MaxAgents,  \* _MAX_AGENTS and the executor's max_contexts
  MaxAge,     \* _MCP_CONNECTION_MAX_AGE_SECONDS, in ticks of the clock
  TokenLife,  \* expirationSeconds of the projected token, in ticks
  Workload,   \* WORKLOAD_KEY, and the credential behind it
  None

ASSUME PoolsAssumption == Pools \subseteq Nat /\ None \notin Pools
ASSUME CapsAssumption == MaxPools \in Nat \ {0} /\ MaxAgents \in Nat
ASSUME AgesAssumption == MaxAge \in Nat /\ TokenLife \in Nat /\ MaxAge < TokenLife /\ None \notin Nat
ASSUME RequestsAssumption ==
  \A r \in Requests : r = [sub |-> r.sub, tok |-> r.tok, ctx |-> r.ctx] /\ r.tok # Workload
ASSUME NoneAssumption == Workload # None /\ None \notin Requests /\ None \notin Routes

Credentials == ({r.tok : r \in Requests} \union {Workload}) \ {None}

Turn == [by : Requests, for : Requests, cred : Credentials, built : BOOLEAN, closed : BOOLEAN, expired : BOOLEAN]

ASSUME TurnAssumption == None \notin Turn

VARIABLES
  propagate,  \* PROPAGATE_CALLER_TOKEN
  table,      \* _pools: its values in the order of the dictionary
  pool,       \* the pool objects
  contexts,   \* the entries of each cache, least recently used first
  job,        \* the request the event loop is building an agent for
  probe,      \* mcp_readiness
  ready,      \* what /ready answered last
  turn        \* History: the turn begun last, whether its agent was built for
              \* it, and whether the agent's pool was closed or held an expired token

vars == <<propagate, table, pool, contexts, job, probe, ready, turn>>

-----------------------------------------------------------------------------
(***************************************************************************)
(* Callers.                                                                *)
(***************************************************************************)

\* The key of the pool a request uses; opened with the credential of that name.
Outbound(r) == IF propagate /\ r.tok # None THEN r.tok ELSE Workload

\* Mutant: agents are cached by the outbound credential alone.
KeyOfCredential(r) == [sub |-> None, tok |-> Outbound(r)]

\* caller_key.  A request with neither a subject nor a token has a key that no
\* other request has; it is written as the key without either.
CallerKey(r) ==
  IF r.sub # None
  THEN [sub |-> r.sub, tok |-> IF Outbound(r) = Workload THEN None ELSE Outbound(r)]
  ELSE [sub |-> None, tok |-> r.tok]

NoIdentity(r) == r.sub = None /\ r.tok = None

-----------------------------------------------------------------------------
(***************************************************************************)
(* Pools.                                                                  *)
(***************************************************************************)

\* connected stands for connected_urls and for tools, which grow together and never
\* shrink; token is the age of the token each open connection presents.
Pool == [key : Credentials, closed : BOOLEAN, clients : SUBSET Urls, connected : SUBSET Urls,
         age : 0..MaxAge, token : [Urls -> 0..TokenLife \union {None}]]

NewPool(key) ==
  [key |-> key, closed |-> FALSE, clients |-> {}, connected |-> {}, age |-> 0,
   token |-> [u \in Urls |-> None]]

InTable == {table[i] : i \in DOMAIN table}

Agents(entries) == {entries[i].agent : i \in DOMAIN entries}

\* Garbage collection: a pool to which nothing refers is gone, and its id is as good as
\* new.  The connections of a caller are not gone before they are closed.
Held == InTable \union {job.pool, probe.pool} \union UNION {Agents(contexts[route]) : route \in Routes}

Collected(pools) ==
  [p \in Pools |-> IF p \notin Held' /\ (pools[p].closed \/ pools[p].key = Workload)
                   THEN NewPool(Workload) ELSE pools[p]]

FreePools == {p \in Pools : p \notin Held /\ pool[p] = NewPool(Workload)}

FreshPool == CHOOSE p \in FreePools : TRUE

\* `_pools.get(key)`
Listed(key) == {p \in InTable : pool[p].key = key}

\* Mutant: nothing is dropped.
Whole(s, n) == s

\* What is left of s when entries are dropped at its front until it has at most n.
Newest(s, n) == IF Len(s) <= n THEN s ELSE SubSeq(s, Len(s) - n + 1, Len(s))

\* `_pools[key] = pool`: an entry of the same key is replaced where it is.
Inserted(p, key) ==
  LET same == {i \in DOMAIN table : pool[table[i]].key = key}
  IN  IF same = {} THEN Append(table, p)
      ELSE [i \in DOMAIN table |-> IF i \in same THEN p ELSE table[i]]

\* _build_client
Joined(p, u) ==
  [pool EXCEPT ![p].clients = @ \union {u}, ![p].connected = @ \union {u}, ![p].token[u] = 0]

\* Mutant: what is evicted is dropped, and its connections stay open.
DroppedOpen(p) == {}

\* The pools that the insertion of p evicts, and closes.
Evicted(p) ==
  LET after == Inserted(p, pool[p].key) IN {after[i] : i \in 1..(Len(after) - MaxPools)}

\* _close: the clients it knows are stopped.
Closed(q) ==
  [pool[q] EXCEPT !.closed = TRUE, !.clients = {},
                  !.token = [u \in Urls |-> IF u \in pool[q].clients THEN None ELSE pool[q].token[u]]]

-----------------------------------------------------------------------------
(***************************************************************************)
(* The event loop.                                                         *)
(***************************************************************************)

Idle == [at |-> "idle", route |-> None, req |-> None, pool |-> None, tried |-> {}]

Entry == [key : [sub : {r.sub : r \in Requests} \union {None}, tok : Credentials \union {None}],
          req : Requests, agent : Pools]

\* The entries a request looks its conversation up in: those of its key and context.
Matching(route, r) ==
  {i \in DOMAIN contexts[route] :
     contexts[route][i].key = CallerKey(r) /\ contexts[route][i].req.ctx = r.ctx}

\* Mutant: agents are reused whatever became of their pool.
NeverStale(e) == FALSE

\* agent_is_stale.  An agent is what it was built for and the pool its tools belong to.
Stale(e) == pool[e.agent].closed

\* A turn of request r begins on the agent of e, whose pool is by now p.
Begun(r, e, built, p) ==
  [by |-> r, for |-> e.req, cred |-> p.key, built |-> built, closed |-> p.closed,
   expired |-> \E u \in Urls : p.token[u] = TokenLife]

\* get_or_create_agent and CallerScopedContexts.get, on a hit.
Hit(route, r) ==
  /\ job = Idle
  /\ \E i \in Matching(route, r) :
       LET e == contexts[route][i] IN
       /\ ~Stale(e)
       /\ contexts' = [contexts EXCEPT ![route] = Append(RemoveAt(@, i), e)]
       /\ turn' = Begun(r, e, FALSE, pool[e.agent])
  /\ UNCHANGED <<propagate, table, pool, job, probe, ready>>

\* On a miss an entry whose agent is stale is deleted first.
Missed(route, r) ==
  /\ job = Idle
  /\ \A i \in Matching(route, r) : Stale(contexts[route][i])
  /\ \/ Matching(route, r) = {} /\ UNCHANGED contexts
     \/ \E i \in Matching(route, r) : contexts' = [contexts EXCEPT ![route] = RemoveAt(@, i)]

\* _build_session_manager fails, after its retries, and with it the request.
MemoryFails(route, r) ==
  /\ Missed(route, r)
  /\ UNCHANGED <<propagate, table, job, probe, ready, turn>>
  /\ pool' = Collected(pool)

Building(route, r, at, p) == [at |-> at, route |-> route, req |-> r, pool |-> p, tried |-> {}]

\* _get_mcp_pool finds no pool: a new one, not in the table before it is connected.
OpenPool(route, r) ==
  /\ Missed(route, r)
  /\ Listed(Outbound(r)) = {}
  /\ FreePools # {}
  /\ job' = Building(route, r, "open", FreshPool)
  /\ UNCHANGED <<propagate, table, probe, ready, turn>>
  /\ pool' = [Collected(pool) EXCEPT ![FreshPool] = NewPool(Outbound(r))]

\* Mutant: it is the callers' pools that are recycled.
RecycleCallers(p) == pool[p].key # Workload /\ pool[p].age >= MaxAge

\* The connections of the workload pool are restarted when they have grown old.
RecycleDue(p) == pool[p].key = Workload /\ pool[p].age >= MaxAge

\* It finds one, takes it out of the table, and restarts its clients when it is due.
TakePool(route, r) ==
  /\ Missed(route, r)
  /\ \E i \in DOMAIN table :
       /\ pool[table[i]].key = Outbound(r)
       /\ table' = RemoveAt(table, i)
       /\ job' = Building(route, r, IF RecycleDue(table[i]) THEN "recycle" ELSE "reuse", table[i])
  /\ UNCHANGED <<propagate, probe, ready, turn>>
  /\ pool' = Collected(pool)

\* _open tries each server once.
Opens(u) == job.at = "open" /\ u \in Urls \ job.tried

OpenConnects ==
  \E u \in Urls :
    /\ Opens(u)
    /\ pool' = Joined(job.pool, u)
    /\ job' = [job EXCEPT !.tried = @ \union {u}]
    /\ UNCHANGED <<propagate, table, contexts, probe, ready, turn>>

OpenFails ==
  \E u \in Urls :
    /\ Opens(u)
    /\ job' = [job EXCEPT !.tried = @ \union {u}]
    /\ UNCHANGED <<propagate, table, pool, contexts, probe, ready, turn>>

\* stop() and start() of one client.  The list is walked as it is now: the probe
\* may have added to it.  A failure is logged, and the client stays in the lists.
Restarts(u) == job.at = "recycle" /\ u \in pool[job.pool].clients \ job.tried

Recycles ==
  \E u \in Urls, restarted \in {0, None} :
    /\ Restarts(u)
    /\ pool' = [pool EXCEPT ![job.pool].token[u] = restarted]
    /\ job' = [job EXCEPT !.tried = @ \union {u}]
    /\ UNCHANGED <<propagate, table, contexts, probe, ready, turn>>

\* What _get_mcp_pool leaves of its pools when it is done with p: those it evicts are
\* closed, and connected_at of one it recycled is now.
Settled(p) ==
  [q \in Pools |->
     IF q \in Evicted(p) THEN Closed(q)
     ELSE IF q = p /\ job.at = "recycle" THEN [pool[q] EXCEPT !.age = 0] ELSE pool[q]]

\* The pool goes back into the table, older ones are closed, and the agent is built
\* and kept, unless its key is unique to this request.
Finish ==
  /\ job # Idle
  /\ \A u \in Urls : ~Opens(u) /\ ~Restarts(u)
  /\ LET p == job.pool
         e == [key |-> CallerKey(job.req), req |-> job.req, agent |-> p]
         settled == Settled(p)
     IN  /\ table' = Newest(Inserted(p, pool[p].key), MaxPools)
         /\ contexts' = IF NoIdentity(job.req) THEN contexts
                        ELSE [contexts EXCEPT ![job.route] = Newest(Append(@, e), MaxAgents)]
         /\ turn' = Begun(job.req, e, TRUE, settled[p])
         /\ job' = Idle
         /\ UNCHANGED <<propagate, probe, ready>>
         /\ pool' = Collected(settled)

-----------------------------------------------------------------------------
(***************************************************************************)
(* The readiness probe.                                                    *)
(***************************************************************************)

Asleep == [at |-> "idle", pool |-> None, tried |-> {}, missing |-> FALSE]

Probing(p) == [at |-> "connect", pool |-> p, tried |-> {}, missing |-> FALSE]

\* _pools.get: the pool is found, or known to be missing.
ProbeLooks ==
  /\ probe = Asleep
  /\ probe' = IF Listed(Workload) = {} THEN [Asleep EXCEPT !.at = "insert"]
              ELSE Probing(CHOOSE p \in Listed(Workload) : TRUE)
  /\ UNCHANGED <<propagate, table, pool, contexts, job, ready, turn>>

\* A new pool takes the place of whatever the table holds by now; no other is closed for it.
ProbeInserts ==
  /\ probe.at = "insert"
  /\ FreePools # {}
  /\ table' = Inserted(FreshPool, Workload)
  /\ probe' = Probing(FreshPool)
  /\ UNCHANGED <<propagate, contexts, job, ready, turn>>
  /\ pool' = Collected(pool)

\* A server that is already in connected_urls is passed over.
Probes(u) == probe.at = "connect" /\ u \in Urls \ (probe.tried \union pool[probe.pool].connected)

ProbeConnects ==
  \E u \in Urls :
    /\ Probes(u)
    /\ pool' = Joined(probe.pool, u)
    /\ probe' = [probe EXCEPT !.tried = @ \union {u}]
    /\ UNCHANGED <<propagate, table, contexts, job, ready, turn>>

ProbeFails ==
  \E u \in Urls :
    /\ Probes(u)
    /\ probe' = [probe EXCEPT !.tried = @ \union {u}, !.missing = TRUE]
    /\ UNCHANGED <<propagate, table, pool, contexts, job, ready, turn>>

\* Mutant: an answer that names missing servers keeps _readiness_lock.
ProbeKeepsLock ==
  /\ probe.at = "connect"
  /\ \A u \in Urls : ~Probes(u)
  /\ ready' = ~probe.missing
  /\ probe' = IF probe.missing THEN probe ELSE Asleep
  /\ UNCHANGED <<propagate, table, contexts, job, turn>>
  /\ pool' = Collected(pool)

ProbeAnswers ==
  /\ probe.at = "connect"
  /\ \A u \in Urls : ~Probes(u)
  /\ ready' = ~probe.missing
  /\ probe' = Asleep
  /\ UNCHANGED <<propagate, table, contexts, job, turn>>
  /\ pool' = Collected(pool)

-----------------------------------------------------------------------------
\* Only the age of the workload's own token matters: the pool of a caller is that of
\* one token for good.  Connecting takes seconds, a tick a quarter of an hour.
Tick ==
  /\ job = Idle /\ probe = Asleep
  /\ pool' = [p \in Pools |->
       IF p \in Held /\ pool[p].key = Workload
       THEN [pool[p] EXCEPT
               !.age = IF @ < MaxAge THEN @ + 1 ELSE @,
               !.token = [u \in Urls |-> IF @[u] # None /\ @[u] # TokenLife THEN @[u] + 1 ELSE @[u]]]
       ELSE pool[p]]
  /\ UNCHANGED <<propagate, table, contexts, job, probe, ready, turn>>

\* main.py builds one agent for the agent card, with no request at hand, before it
\* serves: the workload pool exists, connected to the servers that were up.
Init ==
  \E first \in Pools, up \in SUBSET Urls :
    /\ \A p \in Pools : first <= p
    /\ propagate \in BOOLEAN
    /\ table = <<first>>
    /\ pool = [p \in Pools |->
                 IF p = first
                 THEN [NewPool(Workload) EXCEPT !.clients = up, !.connected = up,
                                                !.token = [u \in Urls |-> IF u \in up THEN 0 ELSE None]]
                 ELSE NewPool(Workload)]
    /\ contexts = [route \in Routes |-> <<>>]
    /\ job = Idle
    /\ probe = Asleep
    /\ ready = FALSE
    /\ turn = None

EventLoop ==
  \/ \E route \in Routes, r \in Requests :
       Hit(route, r) \/ MemoryFails(route, r) \/ OpenPool(route, r) \/ TakePool(route, r)
  \/ OpenConnects \/ OpenFails \/ Recycles \/ Finish

ProbeThread == ProbeLooks \/ ProbeInserts \/ ProbeConnects \/ ProbeFails \/ ProbeAnswers

Next == EventLoop \/ ProbeThread \/ Tick

Spec == Init /\ [][Next]_vars

\* The kubelet calls /ready every periodSeconds, and a thread that has started goes on.
FairSpec == Spec /\ WF_vars(ProbeThread) /\ WF_vars(OpenConnects \/ OpenFails \/ Recycles \/ Finish)

-----------------------------------------------------------------------------
\* The values the dictionaries, pools and agents of the process can have.
TypeOK ==
  /\ propagate \in BOOLEAN
  /\ table \in Seq(Pools)
  /\ pool \in [Pools -> Pool]
  /\ contexts \in [Routes -> Seq(Entry)]
  /\ job \in [at : {"idle", "open", "recycle", "reuse"}, route : Routes \union {None},
               req : Requests \union {None}, pool : Pools \union {None}, tried : SUBSET Urls]
  /\ probe \in [at : {"idle", "insert", "connect"}, pool : Pools \union {None},
                tried : SUBSET Urls, missing : BOOLEAN]
  /\ ready \in BOOLEAN
  /\ turn \in Turn \union {None}

\* The caches and pools implement the promise to the callers: whatever is evicted,
\* recycled, rebuilt or raced by the probe, a turn is the caller's own.
Isolation == INSTANCE CallerIsolation WITH
  kept <- [route \in Routes |-> {contexts[route][i].req : i \in DOMAIN contexts[route]}],
  turn <- IF turn = None THEN None
          ELSE [by |-> turn.by, for |-> turn.for, cred |-> turn.cred, memory |-> turn.for.sub]

\* identity.py and a2a_isolation.py: every turn is served by an agent built for the
\* same caller and conversation, over connections opened with the caller's credential.
CallersIsolated == Isolation!Spec

\* No turn begins on an agent whose connections have been stopped: eviction closes
\* pools that cached agents still hold, and those are rebuilt first.
TurnsBeginOnOpenPools == turn # None => ~turn.closed

\* A caller's connections are open only while the table, or the request that is
\* connecting them, can still find and close them, and there are at most MaxPools
\* of them besides that request's.
CallerPoolsAreBounded ==
  /\ \A p \in Pools : (pool[p].key # Workload /\ ~pool[p].closed) => p \in InTable \union {job.pool}
  /\ Cardinality({p \in InTable : pool[p].key # Workload}) <= MaxPools

\* An agent is never built on a connection whose token has expired: a failed restart
\* leaves no connection, and what the probe opens meanwhile is younger than its pool.
NewAgentsHoldValidTokens == turn # None /\ turn.built => ~turn.expired

\* Once no connection attempt of the probe fails any more, the pod becomes ready
\* again and again.
EventuallyReady == <>[][~ProbeFails]_vars => []<>ready
=============================================================================
