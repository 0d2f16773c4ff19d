-------------------------- MODULE AgentPoolsProofs --------------------------
(***************************************************************************)
(* What AgentPools promises, for every set of routes, requests, servers    *)
(* and pools and for every limit: its type invariant, that turns begin on  *)
(* open pools and agents are built on valid tokens, that the connections of*)
(* callers are bounded, and that the whole implements CallerIsolation.     *)
(*                                                                         *)
(* All of it follows from one inductive invariant.  The two threads meet in*)
(* the table and in the pool objects, so it says who may hold a pool while *)
(* it is in neither: TableInv (a key once, none closed, and at most one    *)
(* pool too many, the workload's, at the end), JobInv and ProbeInv (what   *)
(* the event loop and the probe hold, and under which key it was opened),  *)
(* CacheInv (an entry is filed under its own request's key, and the        *)
(* credential of its agent's pool is that request's), CallerInv (the open  *)
(* pool of a caller is in the table or with the job), TokenInv (a token is *)
(* never older than the pool that presents it, unless its pool is closed). *)
(***************************************************************************)
EXTENDS AgentPools, SequenceTheorems, FiniteSetTheorems, TLAPS

LEMMA RemoveAtProperties ==
  ASSUME NEW S, NEW s \in Seq(S), NEW i \in 1..Len(s)
  PROVE  /\ RemoveAt(s, i) \in Seq(S)
         /\ Len(RemoveAt(s, i)) = Len(s) - 1
         /\ \A k \in 1..(Len(s) - 1) : RemoveAt(s, i)[k] = IF k < i THEN s[k] ELSE s[k + 1]
<1>1. PICK a : a = SubSeq(s, 1, i - 1)
  OBVIOUS
<1>2. PICK b : b = SubSeq(s, i + 1, Len(s))
  OBVIOUS
<1>3. /\ a \in Seq(S) /\ Len(a) = i - 1
      /\ \A k \in 1..(i - 1) : a[k] = s[k]
  BY <1>1
<1>4. /\ b \in Seq(S) /\ Len(b) = Len(s) - i
      /\ \A k \in 1..(Len(s) - i) : b[k] = s[k + i]
  BY <1>2
<1>5. /\ a \o b \in Seq(S) /\ Len(a \o b) = Len(a) + Len(b)
      /\ \A k \in 1..(Len(a) + Len(b)) : (a \o b)[k] = IF k <= Len(a) THEN a[k] ELSE b[k - Len(a)]
  BY <1>3, <1>4, ConcatProperties
<1>6. RemoveAt(s, i) = a \o b
  BY <1>1, <1>2 DEF RemoveAt
<1>7. Len(a) + Len(b) = Len(s) - 1
  BY <1>3, <1>4
<1>8. ASSUME NEW k \in 1..(Len(s) - 1)
      PROVE  (a \o b)[k] = IF k < i THEN s[k] ELSE s[k + 1]
  <2>1. CASE k < i
    <3>1. (a \o b)[k] = a[k]
      BY <1>3, <1>5, <1>7, <2>1
    <3> QED BY <1>3, <2>1, <3>1
  <2>2. CASE ~(k < i)
    <3>1. (a \o b)[k] = b[k - (i - 1)]
      BY <1>3, <1>5, <1>7, <2>2
    <3>2. k - (i - 1) \in 1..(Len(s) - i)
      BY <2>2
    <3>3. b[k - (i - 1)] = s[k - (i - 1) + i]
      BY <1>4, <3>2
    <3>4. k - (i - 1) + i = k + 1
      OBVIOUS
    <3> QED BY <2>2, <3>1, <3>3, <3>4
  <2> QED BY <2>1, <2>2
<1> QED BY <1>5, <1>6, <1>7, <1>8

LEMMA NewestProperties ==
  ASSUME NEW S, NEW s \in Seq(S), NEW n \in Nat
  PROVE  /\ Newest(s, n) \in Seq(S)
         /\ Len(s) <= n => Newest(s, n) = s
         /\ Len(s) > n => /\ Len(Newest(s, n)) = n
                          /\ \A k \in 1..n : Newest(s, n)[k] = s[k + Len(s) - n]
<1>1. CASE Len(s) <= n
  BY <1>1 DEF Newest
<1>2. CASE Len(s) > n
  <2> DEFINE b == SubSeq(s, Len(s) - n + 1, Len(s))
  <2>1. /\ b \in Seq(S) /\ Len(b) = n
        /\ \A k \in 1..n : b[k] = s[k + Len(s) - n]
    BY <1>2
  <2> QED BY <2>1, <1>2 DEF Newest
<1> QED BY <1>1, <1>2

-----------------------------------------------------------------------------
(***************************************************************************)
(* The inductive invariant.                                                *)
(***************************************************************************)

\* At most one open pool of each credential is in the table, which is over its limit
\* only by a pool the probe has put at its end.
TableInv ==
  /\ \A i, j \in 1..Len(table) : pool[table[i]].key = pool[table[j]].key => i = j
  /\ \A i \in 1..Len(table) : ~pool[table[i]].closed
  /\ Len(table) > MaxPools => Len(table) = MaxPools + 1 /\ pool[table[Len(table)]].key = Workload

\* The pool of the request being served is its own, open, and out of the table, which
\* holds no other of its credential unless it is the probe's.
JobInv ==
  IF job.at = "idle" THEN job = Idle
  ELSE /\ job.route \in Routes /\ job.req \in Requests /\ job.pool \in Pools
       /\ pool[job.pool].key = Outbound(job.req)
       /\ ~pool[job.pool].closed
       /\ \A i \in 1..Len(table) :
            /\ table[i] # job.pool
            /\ pool[table[i]].key = pool[job.pool].key => pool[job.pool].key = Workload

\* The probe's pool is one of the workload's.
ProbeInv == probe.at = "connect" => probe.pool \in Pools

\* An agent in a cache is kept under the key of the request it was built for, and its
\* pool is of the credential of that request.
CacheInv ==
  \A route \in Routes : \A i \in 1..Len(contexts[route]) :
    LET e == contexts[route][i] IN
    /\ e.key = CallerKey(e.req) /\ ~NoIdentity(e.req)
    /\ pool[e.agent].key = Outbound(e.req)

\* Open connections of callers are found in the table, or are being opened.
CallerInv ==
  \A p \in Pools : (pool[p].key # Workload /\ ~pool[p].closed) => p \in InTable \union {job.pool}

\* A connection of q is no older than q says, as long as that is not the greatest age.
Young(q) ==
  \A u \in Urls :
    /\ q.token[u] # None /\ q.age < MaxAge => q.token[u] <= q.age
    /\ q.token[u] # None /\ q.key # Workload => q.token[u] = 0
    /\ ~q.closed /\ u \notin q.clients => q.token[u] = None

\* A restarted connection is new, and so is one of a pool that is being opened.
TokenInv ==
  /\ \A p \in Pools : Young(pool[p])
  /\ job.at = "open" => \A u \in Urls : pool[job.pool].token[u] \in {0, None}
  /\ job.at = "recycle" => \A u \in job.tried : pool[job.pool].token[u] \in {0, None}
  /\ job.at = "reuse" /\ pool[job.pool].key = Workload => pool[job.pool].age < MaxAge

IInv ==
  /\ TypeOK /\ TableInv /\ JobInv /\ ProbeInv /\ CacheInv /\ CallerInv /\ TokenInv
  /\ TurnsBeginOnOpenPools /\ NewAgentsHoldValidTokens

-----------------------------------------------------------------------------
(***************************************************************************)
(* Operators of the model.                                                 *)
(***************************************************************************)

LEMMA OutboundType ==
  ASSUME NEW r \in Requests
  PROVE  Outbound(r) \in Credentials /\ CallerKey(r) \in [sub : {q.sub : q \in Requests} \union {None}, tok : Credentials \union {None}]
<1>1. Outbound(r) \in Credentials
  BY NoneAssumption DEF Outbound, Credentials
<1>2. r.tok \in Credentials \union {None}
  BY DEF Credentials
<1> QED BY <1>1, <1>2 DEF CallerKey

LEMMA NewPoolType ==
  ASSUME NEW key \in Credentials
  PROVE  NewPool(key) \in Pool
BY AgesAssumption DEF NewPool, Pool

LEMMA WorkloadIsCredential == Workload \in Credentials
BY NoneAssumption DEF Credentials

\* Garbage collection leaves what is referred to, and of the rest open pools of callers.
LEMMA CollectedPools ==
  ASSUME TypeOK, NEW base \in [Pools -> Pool], pool' = Collected(base)
  PROVE  /\ pool' \in [Pools -> Pool]
         /\ \A p \in Pools : p \in Held' => pool'[p] = base[p]
         /\ \A p \in Pools : \/ pool'[p] = base[p]
                             \/ pool'[p] = NewPool(Workload) /\ (base[p].closed \/ base[p].key = Workload)
BY NewPoolType, WorkloadIsCredential DEF Collected

\* Two requests with one key are of the same caller.
LEMMA KeysTellCallersApart ==
  ASSUME NEW r \in Requests, NEW s \in Requests, CallerKey(r) = CallerKey(s), ~NoIdentity(s)
  PROVE  Isolation!SameCaller(r, s) /\ Outbound(r) = Outbound(s)
<1>1. r.tok # Workload /\ s.tok # Workload
  BY RequestsAssumption
<1> QED BY <1>1, NoneAssumption DEF CallerKey, Outbound, NoIdentity, Isolation!SameCaller

-----------------------------------------------------------------------------
(***************************************************************************)
(* Every action keeps the invariant.                                       *)
(***************************************************************************)

\* Every entry of a cache was there before.
NoNewEntries ==
  \A route \in Routes : \A k \in 1..Len(contexts'[route]) :
    \E j \in 1..Len(contexts[route]) : contexts'[route][k] = contexts[route][j]

\* The pools of the agents in the caches are of the same credentials as before.
AgentsKept ==
  \A route \in Routes : \A k \in 1..Len(contexts'[route]) :
    pool'[contexts'[route][k].agent].key = pool[contexts'[route][k].agent].key

LEMMA CacheShrinks ==
  ASSUME CacheInv, NoNewEntries, AgentsKept, UNCHANGED propagate
  PROVE  CacheInv'
<1> SUFFICES ASSUME NEW route \in Routes, NEW k \in 1..Len(contexts'[route]), NEW e, e = contexts'[route][k]
             PROVE  e.key = CallerKey(e.req)' /\ ~NoIdentity(e.req) /\ pool'[e.agent].key = Outbound(e.req)'
  BY DEF CacheInv, NoIdentity
<1>1. PICK j \in 1..Len(contexts[route]) : e = contexts[route][j]
  BY DEF NoNewEntries
<1>2. e.key = CallerKey(e.req) /\ ~NoIdentity(e.req) /\ pool[e.agent].key = Outbound(e.req)
  BY <1>1 DEF CacheInv
<1>3. pool'[e.agent].key = pool[e.agent].key
  BY DEF AgentsKept
<1>4. Outbound(e.req)' = Outbound(e.req) /\ CallerKey(e.req)' = CallerKey(e.req)
  BY DEF Outbound, CallerKey
<1> QED BY <1>2, <1>3, <1>4

LEMMA HitStep ==
  ASSUME IInv, NEW route \in Routes, NEW r \in Requests, Hit(route, r)
  PROVE  IInv'
<1>1. TypeOK /\ UNCHANGED <<propagate, table, pool, job, probe, ready>>
  BY DEF IInv, Hit
<1>2. PICK i \in Matching(route, r) :
        LET e == contexts[route][i] IN
        /\ ~Stale(e)
        /\ contexts' = [contexts EXCEPT ![route] = Append(RemoveAt(@, i), e)]
        /\ turn' = Begun(r, e, FALSE, pool[e.agent])
  BY DEF Hit
<1>3. PICK entries, e : entries = contexts[route] /\ e = contexts[route][i]
  OBVIOUS
<1>4. entries \in Seq(Entry) /\ i \in 1..Len(entries) /\ e = entries[i] /\ e \in Entry
  BY <1>1, <1>2, <1>3 DEF TypeOK, Matching
<1>5. /\ RemoveAt(entries, i) \in Seq(Entry)
      /\ Len(RemoveAt(entries, i)) = Len(entries) - 1
      /\ \A k \in 1..(Len(entries) - 1) : RemoveAt(entries, i)[k] = IF k < i THEN entries[k] ELSE entries[k + 1]
  BY <1>4, RemoveAtProperties
<1>6. PICK rest : rest = RemoveAt(entries, i)
  OBVIOUS
<1>7. /\ contexts'[route] = Append(rest, e)
      /\ Append(rest, e) \in Seq(Entry)
      /\ \A other \in Routes \ {route} : contexts'[other] = contexts[other]
      /\ contexts' \in [Routes -> Seq(Entry)]
  <2>1. Append(rest, e) \in Seq(Entry)
    BY <1>4, <1>5, <1>6
  <2> QED BY <2>1, <1>1, <1>2, <1>3, <1>6 DEF TypeOK
<1>8. \A k \in 1..Len(contexts'[route]) : \E j \in 1..Len(contexts[route]) : contexts'[route][k] = contexts[route][j]
  <2> SUFFICES ASSUME NEW k \in 1..Len(Append(rest, e))
               PROVE  \E j \in 1..Len(entries) : Append(rest, e)[k] = entries[j]
    BY <1>3, <1>7
  <2>0. k \in 1..(Len(rest) + 1)
    BY <1>4, <1>5, <1>6
  <2>1. CASE k = Len(rest) + 1
    BY <2>1, <1>4, <1>5, <1>6
  <2>2. CASE k \in 1..Len(rest)
    <3>1. Append(rest, e)[k] = rest[k]
      BY <2>2, <1>4, <1>5, <1>6
    <3> QED BY <3>1, <2>2, <1>4, <1>5, <1>6
  <2> QED BY <2>0, <2>1, <2>2, <1>4, <1>5, <1>6
<1>9. CacheInv'
  <2>1. NoNewEntries
    BY <1>1, <1>7, <1>8 DEF NoNewEntries
  <2>2. AgentsKept
    BY <1>1 DEF AgentsKept
  <2> QED BY <1>1, <2>1, <2>2, CacheShrinks DEF IInv
<1>10. TypeOK'
  <2>1. turn' \in Turn
    <3>1. pool[e.agent] \in Pool /\ e.req \in Requests
      BY <1>1, <1>4 DEF TypeOK, Entry
    <3>2. turn' = Begun(r, e, FALSE, pool[e.agent])
      BY <1>2, <1>3
    <3> QED BY <3>1, <3>2 DEF Begun, Turn, Pool
  <2> QED BY <1>1, <1>7, <2>1 DEF TypeOK
<1>11. TurnsBeginOnOpenPools' /\ NewAgentsHoldValidTokens'
  BY <1>2 DEF Begun, Stale, TurnsBeginOnOpenPools, NewAgentsHoldValidTokens
<1>12. (TableInv /\ JobInv /\ ProbeInv /\ CallerInv /\ TokenInv)'
  BY <1>1 DEF IInv, TableInv, JobInv, ProbeInv, CallerInv, TokenInv, InTable, Outbound
<1> QED BY <1>9, <1>10, <1>11, <1>12 DEF IInv

LEMMA MissedShrinks ==
  ASSUME TypeOK, NEW route \in Routes, NEW r \in Requests, Missed(route, r)
  PROVE  contexts' \in [Routes -> Seq(Entry)] /\ NoNewEntries
<1>1. CASE UNCHANGED contexts
  BY <1>1 DEF TypeOK, NoNewEntries
<1>2. CASE \E i \in Matching(route, r) : contexts' = [contexts EXCEPT ![route] = RemoveAt(@, i)]
  <2>1. PICK i \in Matching(route, r) : contexts' = [contexts EXCEPT ![route] = RemoveAt(@, i)]
    BY <1>2
  <2>2. PICK entries : entries = contexts[route]
    OBVIOUS
  <2>3. entries \in Seq(Entry) /\ i \in 1..Len(entries)
    BY <2>1, <2>2 DEF TypeOK, Matching
  <2>4. PICK rest : rest = RemoveAt(entries, i)
    OBVIOUS
  <2>5. /\ rest \in Seq(Entry) /\ Len(rest) = Len(entries) - 1
        /\ \A k \in 1..(Len(entries) - 1) : rest[k] = IF k < i THEN entries[k] ELSE entries[k + 1]
    BY <2>3, <2>4, RemoveAtProperties
  <2>6. /\ contexts' \in [Routes -> Seq(Entry)]
        /\ contexts'[route] = rest
        /\ \A other \in Routes \ {route} : contexts'[other] = contexts[other]
    BY <2>1, <2>2, <2>4, <2>5 DEF TypeOK
  <2>7. \A k \in 1..Len(rest) : \E j \in 1..Len(entries) : rest[k] = entries[j]
    BY <2>3, <2>5
  <2> QED BY <2>2, <2>6, <2>7, SMTT(30) DEF NoNewEntries
<1> QED BY <1>1, <1>2 DEF Missed

\* Who is in the table, holds the job or is in a cache is not collected.
LEMMA WhoIsHeld ==
  ASSUME TypeOK'
  PROVE  /\ \A i \in 1..Len(table') : table'[i] \in Held' /\ table'[i] \in InTable' /\ table'[i] \in Pools
         /\ job'.pool \in Held'
         /\ probe'.pool \in Held'
         /\ \A route \in Routes : \A k \in 1..Len(contexts'[route]) :
              contexts'[route][k].agent \in Held' /\ contexts'[route][k].agent \in Pools
<1>1. \A i \in 1..Len(table') : table'[i] \in InTable' /\ table'[i] \in Pools
  BY DEF TypeOK, InTable
<1>2. ASSUME NEW route \in Routes, NEW k \in 1..Len(contexts'[route])
      PROVE  contexts'[route][k].agent \in Agents(contexts'[route]) /\ contexts'[route][k].agent \in Pools
  <2>1. contexts'[route] \in Seq(Entry)
    BY DEF TypeOK
  <2>2. contexts'[route][k] \in Entry
    BY <2>1
  <2>3. k \in DOMAIN contexts'[route]
    BY <2>1
  <2>4. contexts'[route][k].agent \in Agents(contexts'[route])
    BY <2>3 DEF Agents
  <2> QED BY <2>2, <2>4 DEF Entry
<1>3. /\ job'.pool \in Held' /\ probe'.pool \in Held'
      /\ \A p : p \in InTable' => p \in Held'
      /\ \A route \in Routes : \A p : p \in Agents(contexts'[route]) => p \in Held'
  BY DEF Held, Agents
<1>4. \A i \in 1..Len(table') : table'[i] \in Held' /\ table'[i] \in InTable' /\ table'[i] \in Pools
  BY <1>1, <1>3
<1>5. ASSUME NEW route \in Routes, NEW k \in 1..Len(contexts'[route])
      PROVE  contexts'[route][k].agent \in Held' /\ contexts'[route][k].agent \in Pools
  BY <1>2, <1>3
<1> QED BY <1>3, <1>4, <1>5

\* What an action leaves that only collects garbage, drops entries and moves pools.
LEMMA SweepStep ==
  ASSUME IInv, TypeOK', pool' = Collected(pool), UNCHANGED propagate, NoNewEntries,
         \A p \in Pools : p \in InTable \union {job.pool} => p \in InTable' \union {job'.pool} \/ pool[p].key = Workload
  PROVE  /\ CacheInv' /\ CallerInv' /\ \A p \in Pools : Young(pool'[p])
         /\ \A i \in 1..Len(table') : pool'[table'[i]] = pool[table'[i]]
         /\ job'.pool \in Pools => pool'[job'.pool] = pool[job'.pool]
<1>1. /\ \A p \in Pools : p \in Held' => pool'[p] = pool[p]
      /\ \A p \in Pools : pool'[p] = pool[p] \/ pool'[p] = NewPool(Workload)
  <2>1. PICK base : base = pool
    OBVIOUS
  <2>2. base \in [Pools -> Pool] /\ pool' = Collected(base)
    BY <2>1 DEF IInv, TypeOK, Collected
  <2> QED BY <2>1, <2>2, CollectedPools DEF IInv
<1>2. AgentsKept
  BY <1>1, WhoIsHeld DEF AgentsKept
<1>3. CacheInv'
  BY <1>2, CacheShrinks DEF IInv
<1>4. CallerInv'
  BY <1>1 DEF IInv, CallerInv, NewPool
<1>5. \A p \in Pools : Young(pool'[p])
  BY <1>1 DEF IInv, TokenInv, Young, NewPool
<1> QED BY <1>1, <1>3, <1>4, <1>5, WhoIsHeld

\* The table stands as it was, and so do its pools.
LEMMA TableStands ==
  ASSUME TypeOK, TableInv, table' = table,
         \A i \in 1..Len(table) : pool'[table[i]].key = pool[table[i]].key /\ pool'[table[i]].closed = pool[table[i]].closed
  PROVE  TableInv'
<1>1. table \in Seq(Pools) /\ Len(table) \in Nat
  BY DEF TypeOK
<1>2. \A i, j \in 1..Len(table) : pool'[table[i]].key = pool'[table[j]].key => i = j
  BY DEF TableInv
<1>3. \A i \in 1..Len(table) : ~pool'[table[i]].closed
  BY DEF TableInv
<1>4. Len(table) > MaxPools => Len(table) = MaxPools + 1 /\ pool'[table[Len(table)]].key = Workload
  <2>1. Len(table) > MaxPools => Len(table) \in 1..Len(table)
    BY <1>1, CapsAssumption
  <2> QED BY <2>1 DEF TableInv
<1> QED BY <1>2, <1>3, <1>4 DEF TableInv

LEMMA MemoryFailsStep ==
  ASSUME IInv, NEW route \in Routes, NEW r \in Requests, MemoryFails(route, r)
  PROVE  IInv'
<1>1. /\ TypeOK /\ UNCHANGED <<propagate, table, job, probe, ready, turn>>
      /\ pool' = Collected(pool) /\ Missed(route, r) /\ job = Idle
  BY DEF IInv, MemoryFails, Missed
<1>2. contexts' \in [Routes -> Seq(Entry)] /\ NoNewEntries
  BY <1>1, MissedShrinks
<1>3. pool' \in [Pools -> Pool]
  BY <1>1, NewPoolType, WorkloadIsCredential DEF TypeOK, Collected
<1>4. TypeOK'
  BY <1>1, <1>2, <1>3 DEF TypeOK
<1>5. /\ CacheInv' /\ CallerInv' /\ \A p \in Pools : Young(pool'[p])
      /\ \A i \in 1..Len(table') : pool'[table'[i]] = pool[table'[i]]
  BY <1>1, <1>2, <1>4, SweepStep DEF InTable
<1>6. TableInv'
  BY <1>1, <1>5, TableStands DEF IInv
<1>7. (JobInv /\ ProbeInv /\ TokenInv)'
  BY <1>1, <1>5 DEF IInv, JobInv, ProbeInv, TokenInv, Idle
<1> QED BY <1>1, <1>4, <1>5, <1>6, <1>7 DEF IInv, TurnsBeginOnOpenPools, NewAgentsHoldValidTokens

\* The entries of the caches refer to pools that are held now.
LEMMA CachedAgentsAreHeld ==
  ASSUME TypeOK, NEW route \in Routes, NEW j \in 1..Len(contexts[route])
  PROVE  contexts[route][j].agent \in Held /\ contexts[route][j].agent \in Pools
<1>1. contexts[route] \in Seq(Entry)
  BY DEF TypeOK
<1>2. contexts[route][j] \in Entry /\ j \in DOMAIN contexts[route]
  BY <1>1
<1> QED BY <1>2 DEF Held, Agents, Entry

LEMMA OpenPoolStep ==
  ASSUME IInv, NEW route \in Routes, NEW r \in Requests, OpenPool(route, r)
  PROVE  IInv'
<1>1. PICK fresh : fresh = FreshPool
  OBVIOUS
<1>2. /\ TypeOK /\ UNCHANGED <<propagate, table, probe, ready, turn>>
      /\ Missed(route, r) /\ job = Idle /\ Listed(Outbound(r)) = {}
      /\ job' = Building(route, r, "open", fresh)
      /\ pool' = [Collected(pool) EXCEPT ![fresh] = NewPool(Outbound(r))]
  BY <1>1 DEF IInv, OpenPool, Missed
<1>3. fresh \in Pools /\ fresh \notin Held
  BY <1>1 DEF FreshPool, FreePools, OpenPool
<1>4. contexts' \in [Routes -> Seq(Entry)] /\ NoNewEntries
  BY <1>2, MissedShrinks
<1>5. Outbound(r) \in Credentials /\ NewPool(Outbound(r)) \in Pool
  BY OutboundType, NewPoolType
<1>6. /\ pool' \in [Pools -> Pool]
      /\ \A p \in Pools \ {fresh} : p \in Held' => pool'[p] = pool[p]
      /\ \A p \in Pools \ {fresh} : pool'[p] = pool[p] \/ pool'[p] = NewPool(Workload)
      /\ pool'[fresh] = NewPool(Outbound(r))
  BY <1>2, <1>3, <1>5, NewPoolType, WorkloadIsCredential DEF TypeOK, Collected
<1>7. job' = [at |-> "open", route |-> route, req |-> r, pool |-> fresh, tried |-> {}]
  BY <1>2 DEF Building
<1>8. TypeOK'
  BY <1>2, <1>3, <1>4, <1>6, <1>7 DEF TypeOK
<1>9. \A i \in 1..Len(table) : table[i] # fresh /\ table[i] \in Pools /\ pool'[table[i]] = pool[table[i]]
  <2> SUFFICES ASSUME NEW i \in 1..Len(table)
               PROVE  table[i] # fresh /\ table[i] \in Pools /\ pool'[table[i]] = pool[table[i]]
    OBVIOUS
  <2>1. table[i] \in Held' /\ table[i] \in Pools
    BY <1>2, <1>8, WhoIsHeld
  <2>2. table[i] \in Held
    BY <1>2 DEF TypeOK, Held, InTable
  <2> QED BY <1>3, <1>6, <2>1, <2>2
<1>10. TableInv'
  BY <1>2, <1>9, TableStands DEF IInv
<1>11. JobInv'
  <2>1. \A i \in 1..Len(table) : pool[table[i]].key # Outbound(r)
    BY <1>2 DEF TypeOK, Listed, InTable
  <2>2. Outbound(r)' = Outbound(r)
    BY <1>2 DEF Outbound
  <2> QED BY <1>2, <1>3, <1>6, <1>7, <1>9, <2>1, <2>2 DEF JobInv, NewPool
<1>12. CacheInv'
  <2>1. AgentsKept
    <3> SUFFICES ASSUME NEW other \in Routes, NEW k \in 1..Len(contexts'[other]), NEW a, a = contexts'[other][k].agent
                 PROVE  pool'[a].key = pool[a].key
      BY DEF AgentsKept
    <3>1. a \in Held' /\ a \in Pools
      BY <1>8, WhoIsHeld
    <3>2. a \in Held
      BY <1>2, <1>4, CachedAgentsAreHeld DEF NoNewEntries
    <3> QED BY <1>3, <1>6, <3>1, <3>2
  <2> QED BY <1>2, <1>4, <2>1, CacheShrinks DEF IInv
<1>13. CallerInv'
  <2> SUFFICES ASSUME NEW p \in Pools, pool'[p].key # Workload, ~pool'[p].closed
               PROVE  p \in InTable' \union {job'.pool}
    BY DEF CallerInv
  <2>1. CASE p = fresh
    BY <2>1, <1>7
  <2>2. CASE p # fresh
    <3>1. pool'[p] = pool[p]
      BY <1>6, <2>2 DEF NewPool
    <3>2. p \in InTable \union {job.pool}
      BY <3>1 DEF IInv, CallerInv
    <3> QED BY <1>2, <3>2, PoolsAssumption DEF InTable, Idle
  <2> QED BY <2>1, <2>2
<1>14. TokenInv'
  <2>1. \A p \in Pools : Young(pool'[p])
    BY <1>6 DEF IInv, TokenInv, Young, NewPool
  <2>2. \A u \in Urls : pool'[job'.pool].token[u] = None
    BY <1>6, <1>7 DEF NewPool
  <2> QED BY <1>7, <2>1, <2>2 DEF TokenInv
<1> QED BY <1>2, <1>8, <1>10, <1>11, <1>12, <1>13, <1>14 DEF IInv, ProbeInv, TurnsBeginOnOpenPools, NewAgentsHoldValidTokens

LEMMA TakePoolStep ==
  ASSUME IInv, NEW route \in Routes, NEW r \in Requests, TakePool(route, r)
  PROVE  IInv'
<1>1. PICK i \in DOMAIN table :
        /\ pool[table[i]].key = Outbound(r)
        /\ table' = RemoveAt(table, i)
        /\ job' = Building(route, r, IF RecycleDue(table[i]) THEN "recycle" ELSE "reuse", table[i])
  BY DEF TakePool
<1>2. /\ TypeOK /\ TableInv /\ UNCHANGED <<propagate, probe, ready, turn>>
      /\ Missed(route, r) /\ job = Idle /\ pool' = Collected(pool)
  BY DEF IInv, TakePool, Missed
<1>3. contexts' \in [Routes -> Seq(Entry)] /\ NoNewEntries
  BY <1>2, MissedShrinks
<1>4. PICK old, p : old = table /\ p = table[i]
  OBVIOUS
<1>5. old \in Seq(Pools) /\ i \in 1..Len(old) /\ Len(old) \in Nat /\ p \in Pools
  BY <1>2, <1>1, <1>4 DEF TypeOK
<1>6. /\ table' \in Seq(Pools) /\ Len(table') = Len(old) - 1
      /\ \A k \in 1..(Len(old) - 1) : table'[k] = IF k < i THEN old[k] ELSE old[k + 1]
  <2>1. table' = RemoveAt(old, i)
    BY <1>1, <1>4
  <2> QED BY <1>5, <2>1, RemoveAtProperties
<1>7. PICK at \in {"recycle", "reuse"} :
        /\ job' = [at |-> at, route |-> route, req |-> r, pool |-> p, tried |-> {}]
        /\ at = "recycle" <=> RecycleDue(p)
  BY <1>1, <1>4 DEF Building
<1>8. pool' \in [Pools -> Pool]
  BY <1>2, NewPoolType, WorkloadIsCredential DEF TypeOK, Collected
<1>9. TypeOK'
  BY <1>2, <1>3, <1>5, <1>6, <1>7, <1>8 DEF TypeOK
<1>10. \A k \in 1..Len(table') : \E j \in 1..Len(old) : j # i /\ table'[k] = old[j]
  <2> SUFFICES ASSUME NEW k \in 1..Len(table')
               PROVE  \E j \in 1..Len(old) : j # i /\ table'[k] = old[j]
    OBVIOUS
  <2>1. CASE k < i
    <3>1. k \in 1..Len(old) /\ k # i /\ table'[k] = old[k]
      BY <1>5, <1>6, <2>1
    <3> QED BY <3>1
  <2>2. CASE ~(k < i)
    <3>1. k + 1 \in 1..Len(old) /\ k + 1 # i /\ table'[k] = old[k + 1]
      BY <1>5, <1>6, <2>2
    <3> QED BY <3>1
  <2> QED BY <2>1, <2>2
<1>11. \A j \in 1..Len(old) : j # i => old[j] \in InTable'
  <2> SUFFICES ASSUME NEW j \in 1..Len(old), j # i
               PROVE  \E k \in 1..Len(table') : table'[k] = old[j]
    BY <1>6 DEF InTable
  <2>1. CASE j < i
    <3>1. j \in 1..Len(table') /\ table'[j] = old[j]
      BY <1>5, <1>6, <2>1
    <3> QED BY <3>1
  <2>2. CASE j > i
    <3>1. j - 1 \in 1..Len(table') /\ ~(j - 1 < i) /\ (j - 1) + 1 = j
      BY <1>5, <1>6, <2>2
    <3>2. table'[j - 1] = old[j]
      BY <1>6, <3>1
    <3> QED BY <3>1, <3>2
  <2> QED BY <2>1, <2>2, <1>5
<1>12. /\ CacheInv' /\ CallerInv' /\ \A q \in Pools : Young(pool'[q])
       /\ \A k \in 1..Len(table') : pool'[table'[k]] = pool[table'[k]]
       /\ pool'[p] = pool[p]
  <2>1. \A q \in Pools : q \in InTable \union {job.pool} => q \in InTable' \union {job'.pool}
    <3> SUFFICES ASSUME NEW q \in Pools, q \in InTable \union {job.pool}
                 PROVE  q \in InTable' \union {job'.pool}
      OBVIOUS
    <3>1. q \in InTable
      BY <1>2, PoolsAssumption DEF Idle
    <3>2. PICK j \in 1..Len(old) : q = old[j]
      BY <1>2, <1>4, <3>1 DEF InTable, TypeOK
    <3> QED BY <1>4, <1>7, <1>11, <3>2
  <2>2. job'.pool = p
    BY <1>7
  <2> QED BY <1>2, <1>3, <1>5, <1>9, <2>1, <2>2, SweepStep
<1>13. TableInv'
  <2>1. ASSUME NEW k \in 1..Len(table'), NEW l \in 1..Len(table'), pool[table'[k]].key = pool[table'[l]].key
        PROVE  k = l
    <3>1. PICK j \in 1..Len(old) : j = (IF k < i THEN k ELSE k + 1) /\ table'[k] = old[j]
      BY <1>5, <1>6
    <3>2. PICK m \in 1..Len(old) : m = (IF l < i THEN l ELSE l + 1) /\ table'[l] = old[m]
      BY <1>5, <1>6
    <3>3. j = m
      BY <1>2, <1>4, <2>1, <3>1, <3>2 DEF TableInv
    <3> QED BY <1>5, <3>1, <3>2, <3>3
  <2>2. \A k \in 1..Len(table') : ~pool[table'[k]].closed
    BY <1>2, <1>4, <1>10 DEF TableInv
  <2>3. ~(Len(table') > MaxPools)
    BY <1>2, <1>4, <1>5, <1>6, CapsAssumption DEF TableInv
  <2> QED BY <1>12, <2>1, <2>2, <2>3 DEF TableInv
<1>14. JobInv'
  <2>1. \A k \in 1..Len(table') : pool[table'[k]].key # pool[p].key
    BY <1>1, <1>2, <1>4, <1>5, <1>10 DEF TableInv
  <2>2. ~pool[p].closed /\ pool[p].key = Outbound(r)
    BY <1>1, <1>2, <1>4, <1>5 DEF TableInv
  <2>3. Outbound(r)' = Outbound(r)
    BY <1>2 DEF Outbound
  <2> QED BY <1>5, <1>7, <1>12, <2>1, <2>2, <2>3 DEF JobInv
<1>15. TokenInv'
  <2>1. p \in Pools /\ pool[p].age \in 0..MaxAge
    BY <1>2, <1>5 DEF TypeOK, Pool
  <2> QED BY <1>7, <1>12, <2>1, AgesAssumption DEF TokenInv, RecycleDue
<1> QED BY <1>2, <1>9, <1>12, <1>13, <1>14, <1>15 DEF IInv, ProbeInv, TurnsBeginOnOpenPools, NewAgentsHoldValidTokens

\* Connections come and go, pools and what refers to them stay.
LEMMA InPlaceStep ==
  ASSUME IInv, UNCHANGED <<propagate, table, contexts>>,
         \A p \in Pools : pool'[p].key = pool[p].key /\ pool'[p].closed = pool[p].closed,
         job.at = "idle" => job' = job,
         job'.at = job.at, job'.route = job.route, job'.req = job.req, job'.pool = job.pool
  PROVE  TableInv' /\ JobInv' /\ CacheInv' /\ CallerInv'
<1>1. TypeOK
  BY DEF IInv
<1>2. \A i \in 1..Len(table) : table[i] \in Pools
  BY <1>1 DEF TypeOK
<1>3. TableInv'
  BY <1>1, <1>2, TableStands DEF IInv
<1>4. JobInv'
  BY <1>2 DEF IInv, JobInv, Outbound
<1>5. CacheInv'
  <2>1. NoNewEntries
    BY DEF NoNewEntries
  <2>2. AgentsKept
    BY <1>1, CachedAgentsAreHeld DEF AgentsKept
  <2> QED BY <2>1, <2>2, CacheShrinks DEF IInv
<1>6. CallerInv'
  BY DEF IInv, CallerInv, InTable
<1> QED BY <1>3, <1>4, <1>5, <1>6

LEMMA JoinedPool ==
  ASSUME TypeOK, NEW p \in Pools, NEW u \in Urls, pool' = Joined(p, u)
  PROVE  /\ pool' \in [Pools -> Pool]
         /\ \A q \in Pools \ {p} : pool'[q] = pool[q]
         /\ pool'[p] = [pool[p] EXCEPT !.clients = @ \union {u}, !.connected = @ \union {u}, !.token[u] = 0]
         /\ \A q \in Pools : /\ pool'[q].key = pool[q].key /\ pool'[q].closed = pool[q].closed
                             /\ pool'[q].age = pool[q].age
         /\ \A q \in Pools, v \in Urls : pool'[q].token[v] = pool[q].token[v] \/ pool'[q].token[v] = 0
         /\ \A q \in Pools : Young(pool[q]) => Young(pool'[q])
<1>1. pool[p] \in Pool /\ 0 \in 0..TokenLife
  BY AgesAssumption DEF TypeOK
<1>2. /\ \A q \in Pools \ {p} : pool'[q] = pool[q]
      /\ pool'[p] = [pool[p] EXCEPT !.clients = @ \union {u}, !.connected = @ \union {u}, !.token[u] = 0]
  BY DEF TypeOK, Joined
<1>3. pool'[p] \in Pool
  <2>1. [pool[p].token EXCEPT ![u] = 0] \in [Urls -> 0..TokenLife \union {None}]
    BY <1>1 DEF Pool
  <2>2. pool[p].clients \union {u} \in SUBSET Urls /\ pool[p].connected \union {u} \in SUBSET Urls
    BY <1>1 DEF Pool
  <2> QED BY <1>1, <1>2, <2>1, <2>2 DEF Pool
<1>4. pool' \in [Pools -> Pool]
  BY <1>2, <1>3 DEF TypeOK, Joined
<1>5. /\ pool'[p].key = pool[p].key /\ pool'[p].closed = pool[p].closed /\ pool'[p].age = pool[p].age
      /\ pool'[p].clients = pool[p].clients \union {u}
      /\ pool'[p].token = [pool[p].token EXCEPT ![u] = 0]
  BY <1>1, <1>2 DEF Pool
<1>6. pool[p].token \in [Urls -> 0..TokenLife \union {None}] /\ pool[p].age \in 0..MaxAge
  BY <1>1 DEF Pool
<1>7. \A v \in Urls : pool'[p].token[v] = IF v = u THEN 0 ELSE pool[p].token[v]
  BY <1>5, <1>6
<1>8. Young(pool[p]) => Young(pool'[p])
  BY <1>5, <1>6, <1>7 DEF Young
<1> QED BY <1>2, <1>4, <1>5, <1>7, <1>8

LEMMA OpenConnectsStep ==
  ASSUME IInv, OpenConnects
  PROVE  IInv'
<1>1. PICK u \in Urls : Opens(u) /\ pool' = Joined(job.pool, u) /\ job' = [job EXCEPT !.tried = @ \union {u}]
  BY DEF OpenConnects
<1>2. /\ TypeOK /\ JobInv /\ TokenInv /\ UNCHANGED <<propagate, table, contexts, probe, ready, turn>>
      /\ job.at = "open" /\ job.pool \in Pools
  BY <1>1 DEF IInv, OpenConnects, Opens, JobInv
<1>3. /\ job'.at = "open" /\ job'.route = job.route /\ job'.req = job.req /\ job'.pool = job.pool
      /\ job'.tried = job.tried \union {u}
  BY <1>1, <1>2 DEF TypeOK
<1>4. TypeOK'
  BY <1>1, <1>2, JoinedPool DEF TypeOK
<1>5. TableInv' /\ JobInv' /\ CacheInv' /\ CallerInv'
  BY <1>1, <1>2, <1>3, JoinedPool, InPlaceStep
<1>6. TokenInv'
  <2>1. \A q \in Pools : Young(pool'[q])
    BY <1>1, <1>2, JoinedPool DEF TokenInv
  <2>2. \A v \in Urls : pool'[job.pool].token[v] = pool[job.pool].token[v] \/ pool'[job.pool].token[v] = 0
    BY <1>1, <1>2, JoinedPool
  <2>3. \A v \in Urls : pool[job.pool].token[v] \in {0, None}
    BY <1>2 DEF TokenInv
  <2> QED BY <1>3, <2>1, <2>2, <2>3 DEF TokenInv
<1> QED BY <1>2, <1>4, <1>5, <1>6 DEF IInv, ProbeInv, TurnsBeginOnOpenPools, NewAgentsHoldValidTokens

LEMMA OpenFailsStep ==
  ASSUME IInv, OpenFails
  PROVE  IInv'
<1>1. PICK u \in Urls : Opens(u) /\ job' = [job EXCEPT !.tried = @ \union {u}]
  BY DEF OpenFails
<1>2. /\ TypeOK /\ JobInv /\ TokenInv /\ UNCHANGED <<propagate, table, pool, contexts, probe, ready, turn>>
      /\ job.at = "open" /\ job.pool \in Pools
  BY <1>1 DEF IInv, OpenFails, Opens, JobInv
<1>3. /\ job'.at = "open" /\ job'.route = job.route /\ job'.req = job.req /\ job'.pool = job.pool
      /\ job'.tried = job.tried \union {u}
  BY <1>1, <1>2 DEF TypeOK
<1>4. TypeOK'
  BY <1>1, <1>2 DEF TypeOK
<1>5. TableInv' /\ JobInv' /\ CacheInv' /\ CallerInv'
  BY <1>2, <1>3, InPlaceStep
<1>6. TokenInv'
  BY <1>2, <1>3 DEF TokenInv
<1> QED BY <1>2, <1>4, <1>5, <1>6 DEF IInv, ProbeInv, TurnsBeginOnOpenPools, NewAgentsHoldValidTokens

LEMMA RecyclesStep ==
  ASSUME IInv, Recycles
  PROVE  IInv'
<1>1. PICK u \in Urls, restarted \in {0, None} :
        Restarts(u) /\ pool' = [pool EXCEPT ![job.pool].token[u] = restarted]
                    /\ job' = [job EXCEPT !.tried = @ \union {u}]
  BY DEF Recycles
<1>2. /\ TypeOK /\ JobInv /\ TokenInv /\ UNCHANGED <<propagate, table, contexts, probe, ready, turn>>
      /\ job.at = "recycle" /\ job.pool \in Pools /\ u \in pool[job.pool].clients
  BY <1>1 DEF IInv, Recycles, Restarts, JobInv
<1>3. PICK p : p = job.pool
  OBVIOUS
<1>4. /\ job'.at = "recycle" /\ job'.route = job.route /\ job'.req = job.req /\ job'.pool = p
      /\ job'.tried = job.tried \union {u} /\ job.tried \subseteq Urls
  BY <1>1, <1>2, <1>3 DEF TypeOK
<1>5. pool[p] \in Pool /\ restarted \in 0..TokenLife \union {None} /\ p \in Pools
  BY <1>1, <1>2, <1>3, AgesAssumption DEF TypeOK
<1>6. /\ \A q \in Pools \ {p} : pool'[q] = pool[q]
      /\ pool'[p] = [pool[p] EXCEPT !.token[u] = restarted]
  BY <1>1, <1>2, <1>3 DEF TypeOK
<1>7. /\ pool'[p] \in Pool /\ pool'[p].key = pool[p].key /\ pool'[p].closed = pool[p].closed
      /\ pool'[p].age = pool[p].age /\ pool'[p].clients = pool[p].clients
      /\ pool'[p].token = [pool[p].token EXCEPT ![u] = restarted]
  BY <1>5, <1>6 DEF Pool
<1>8. pool[p].token \in [Urls -> 0..TokenLife \union {None}] /\ pool[p].age \in 0..MaxAge
  BY <1>5 DEF Pool
<1>9. \A v \in Urls : pool'[p].token[v] = IF v = u THEN restarted ELSE pool[p].token[v]
  BY <1>7, <1>8
<1>10. TypeOK'
  <2>1. pool' \in [Pools -> Pool]
    BY <1>1, <1>2, <1>3, <1>6, <1>7 DEF TypeOK
  <2> QED BY <1>1, <1>2, <2>1 DEF TypeOK
<1>11. TableInv' /\ JobInv' /\ CacheInv' /\ CallerInv'
  BY <1>2, <1>3, <1>4, <1>6, <1>7, InPlaceStep
<1>12. TokenInv'
  <2>1. Young(pool'[p])
    BY <1>2, <1>3, <1>5, <1>7, <1>8, <1>9 DEF TokenInv, Young
  <2>2. \A q \in Pools : Young(pool'[q])
    BY <1>2, <1>6, <2>1 DEF TokenInv
  <2>3. \A v \in job'.tried : pool'[job'.pool].token[v] \in {0, None}
    BY <1>2, <1>3, <1>4, <1>9 DEF TokenInv
  <2> QED BY <1>4, <2>2, <2>3 DEF TokenInv
<1> QED BY <1>2, <1>10, <1>11, <1>12 DEF IInv, ProbeInv, TurnsBeginOnOpenPools, NewAgentsHoldValidTokens

\* A pool is put in the place of the one of its key or, when there is none, at the end.
LEMMA InsertedProperties ==
  ASSUME TypeOK, TableInv, NEW p \in Pools, NEW key
  PROVE  LET t == Inserted(p, key)
             n == Len(table)
         IN  /\ t \in Seq(Pools) /\ n \in Nat
             /\ \A k \in 1..n : t[k] = IF pool[table[k]].key = key THEN p ELSE table[k]
             /\ \/ Len(t) = n + 1 /\ t[n + 1] = p /\ \A k \in 1..n : pool[table[k]].key # key
                \/ Len(t) = n /\ \E k \in 1..n : pool[table[k]].key = key
<1>1. PICK old, n, same, t :
        /\ old = table /\ n = Len(table) /\ t = Inserted(p, key)
        /\ same = {i \in DOMAIN table : pool[table[i]].key = key}
  OBVIOUS
<1>2. old \in Seq(Pools) /\ n \in Nat /\ n = Len(old) /\ DOMAIN old = 1..n
  BY <1>1 DEF TypeOK
<1>3. t = IF same = {} THEN Append(old, p) ELSE [i \in 1..n |-> IF i \in same THEN p ELSE old[i]]
  BY <1>1, <1>2 DEF Inserted
<1>4. CASE same = {}
  <2>1. t = Append(old, p) /\ \A k \in 1..n : pool[old[k]].key # key
    BY <1>1, <1>2, <1>3, <1>4
  <2>2. t \in Seq(Pools) /\ Len(t) = n + 1 /\ t[n + 1] = p /\ \A k \in 1..n : t[k] = old[k]
    BY <1>2, <2>1
  <2> QED BY <1>1, <1>2, <2>1, <2>2
<1>5. CASE same # {}
  <2>1. t = [i \in 1..n |-> IF i \in same THEN p ELSE old[i]]
    BY <1>3, <1>5
  <2>2. \A i \in 1..n : (IF i \in same THEN p ELSE old[i]) \in Pools
    BY <1>2
  <2>3. t \in Seq(Pools) /\ Len(t) = n
    BY <1>2, <2>1, <2>2
  <2>4. \A k \in 1..n : t[k] = IF pool[old[k]].key = key THEN p ELSE old[k]
    BY <1>1, <1>2, <2>1
  <2>5. \E k \in 1..n : pool[old[k]].key = key
    BY <1>1, <1>2, <1>5
  <2> QED BY <1>1, <1>2, <2>3, <2>4, <2>5
<1> QED BY <1>4, <1>5

LEMMA ProbeInsertsStep ==
  ASSUME IInv, ProbeInserts
  PROVE  IInv'
<1>1. PICK fresh, n : fresh = FreshPool /\ n = Len(table)
  OBVIOUS
<1>2. /\ TypeOK /\ TableInv /\ JobInv /\ TokenInv
      /\ UNCHANGED <<propagate, contexts, job, ready, turn>>
      /\ table' = Inserted(fresh, Workload) /\ probe' = Probing(fresh) /\ pool' = Collected(pool)
  BY <1>1 DEF IInv, ProbeInserts
<1>3. fresh \in Pools /\ fresh \notin Held /\ pool[fresh] = NewPool(Workload)
  BY <1>1 DEF FreshPool, FreePools, ProbeInserts
<1>4. /\ table' \in Seq(Pools) /\ n \in Nat
      /\ \A k \in 1..n : table'[k] = IF pool[table[k]].key = Workload THEN fresh ELSE table[k]
      /\ \/ Len(table') = n + 1 /\ table'[n + 1] = fresh /\ \A k \in 1..n : pool[table[k]].key # Workload
         \/ Len(table') = n /\ \E k \in 1..n : pool[table[k]].key = Workload
  BY <1>1, <1>2, <1>3, InsertedProperties
<1>5. pool' \in [Pools -> Pool]
  BY <1>2, NewPoolType, WorkloadIsCredential DEF TypeOK, Collected
<1>6. probe' = [at |-> "connect", pool |-> fresh, tried |-> {}, missing |-> FALSE]
  BY <1>2 DEF Probing
<1>7. TypeOK'
  BY <1>2, <1>3, <1>4, <1>5, <1>6 DEF TypeOK
<1>8. \A k \in 1..n : table[k] \in Held /\ table[k] \in Pools /\ fresh # table[k]
  BY <1>1, <1>2, <1>3, SMTT(30) DEF TypeOK, Held, InTable
<1>9. /\ CacheInv' /\ CallerInv' /\ \A q \in Pools : Young(pool'[q])
      /\ \A k \in 1..Len(table') : pool'[table'[k]] = pool[table'[k]]
      /\ job'.pool \in Pools => pool'[job'.pool] = pool[job'.pool]
  <2>1. NoNewEntries
    BY <1>2 DEF NoNewEntries
  <2>2. ASSUME NEW q \in Pools, q \in InTable \union {job.pool}
        PROVE  q \in InTable' \union {job'.pool} \/ pool[q].key = Workload
    <3>1. CASE q = job.pool
      BY <1>2, <3>1
    <3>2. CASE q \in InTable /\ pool[q].key # Workload
      <4>1. PICK k \in 1..n : q = table[k]
        BY <1>1, <1>2, <3>2 DEF InTable, TypeOK
      <4>2. table'[k] = q /\ k \in 1..Len(table')
        BY <1>4, <3>2, <4>1
      <4> QED BY <1>4, <4>2 DEF InTable
    <3> QED BY <2>2, <3>1, <3>2
  <2> QED BY <1>2, <1>7, <2>1, <2>2, SweepStep
<1>10. \A k \in 1..Len(table') :
         \/ table'[k] = fresh /\ (k \in 1..n => pool[table[k]].key = Workload) /\ (k \notin 1..n => k = n + 1)
         \/ k \in 1..n /\ table'[k] = table[k] /\ pool[table[k]].key # Workload
  BY <1>4
<1>11. pool[fresh].key = Workload /\ ~pool[fresh].closed
  BY <1>3 DEF NewPool
<1>12. TableInv'
  <2>1. \A k, l \in 1..Len(table') : pool[table'[k]].key = pool[table'[l]].key => k = l
    BY <1>1, <1>2, <1>4, <1>8, <1>10, <1>11, SMTT(30) DEF TableInv
  <2>2. \A k \in 1..Len(table') : ~pool[table'[k]].closed
    BY <1>1, <1>2, <1>10, <1>11 DEF TableInv
  <2>3. Len(table') > MaxPools => Len(table') = MaxPools + 1 /\ table'[Len(table')] = fresh
    <3>1. CASE Len(table') = n + 1 /\ \A k \in 1..n : pool[table[k]].key # Workload
      <4>1. ~(n > MaxPools)
        BY <1>1, <1>2, <1>4, <3>1, CapsAssumption DEF TableInv
      <4> QED BY <1>4, <3>1, <4>1, CapsAssumption
    <3>2. CASE Len(table') = n
      <4>1. n > MaxPools => n = MaxPools + 1 /\ n \in 1..n /\ pool[table[n]].key = Workload
        BY <1>1, <1>2, <1>4, CapsAssumption DEF TableInv
      <4> QED BY <1>4, <3>2, <4>1, CapsAssumption
    <3> QED BY <1>4, <3>1, <3>2
  <2>4. Len(table') > MaxPools => Len(table') \in 1..Len(table')
    BY <1>4, CapsAssumption
  <2> QED BY <1>9, <1>11, <2>1, <2>2, <2>3, <2>4 DEF TableInv
<1>13. JobInv'
  <2>1. job.pool \in Held
    BY DEF Held
  <2>2. Outbound(job.req)' = Outbound(job.req)
    BY <1>2 DEF Outbound
  <2>3. CASE job.at = "idle"
    BY <1>2, <2>3 DEF JobInv, Idle
  <2>4. CASE job.at # "idle"
    <3>1. job.pool \in Pools /\ pool'[job.pool] = pool[job.pool]
      BY <1>2, <1>9, <2>4 DEF JobInv
    <3>2. ASSUME NEW k \in 1..Len(table')
          PROVE  /\ table'[k] # job.pool
                 /\ pool[table'[k]].key = pool[job.pool].key => pool[job.pool].key = Workload
      BY <1>1, <1>2, <1>3, <1>10, <1>11, <2>1, <2>4 DEF JobInv
    <3> QED BY <1>2, <1>9, <2>2, <2>4, <3>1, <3>2 DEF JobInv
  <2> QED BY <2>3, <2>4
<1>14. TokenInv'
  <2>1. job.at # "idle" => job.pool \in Pools
    BY <1>2 DEF JobInv
  <2> QED BY <1>2, <1>9, <2>1 DEF TokenInv
<1> QED BY <1>2, <1>3, <1>6, <1>7, <1>9, <1>12, <1>13, <1>14 DEF IInv, ProbeInv, TurnsBeginOnOpenPools, NewAgentsHoldValidTokens

LEMMA ProbeAnswersStep ==
  ASSUME IInv, ProbeAnswers
  PROVE  IInv'
<1>1. /\ TypeOK /\ TableInv /\ JobInv /\ TokenInv
      /\ UNCHANGED <<propagate, table, contexts, job, turn>>
      /\ ready' = ~probe.missing /\ probe' = Asleep /\ pool' = Collected(pool)
  BY DEF IInv, ProbeAnswers
<1>2. pool' \in [Pools -> Pool]
  BY <1>1, NewPoolType, WorkloadIsCredential DEF TypeOK, Collected
<1>3. TypeOK'
  BY <1>1, <1>2 DEF TypeOK, Asleep
<1>4. /\ CacheInv' /\ CallerInv' /\ \A q \in Pools : Young(pool'[q])
      /\ \A k \in 1..Len(table') : pool'[table'[k]] = pool[table'[k]]
      /\ job'.pool \in Pools => pool'[job'.pool] = pool[job'.pool]
  <2>1. NoNewEntries
    BY <1>1 DEF NoNewEntries
  <2>2. \A q \in Pools : q \in InTable \union {job.pool} => q \in InTable' \union {job'.pool}
    BY <1>1 DEF InTable
  <2> QED BY <1>1, <1>3, <2>1, <2>2, SweepStep
<1>5. TableInv'
  BY <1>1, <1>4, TableStands
<1>6. job.at # "idle" => pool'[job.pool] = pool[job.pool]
  BY <1>1, <1>4 DEF JobInv
<1>7. JobInv'
  BY <1>1, <1>4, <1>6 DEF JobInv, Outbound
<1>8. TokenInv'
  BY <1>1, <1>4, <1>6 DEF TokenInv
<1> QED BY <1>1, <1>3, <1>4, <1>5, <1>7, <1>8 DEF IInv, ProbeInv, Asleep, TurnsBeginOnOpenPools, NewAgentsHoldValidTokens

LEMMA ProbeConnectsStep ==
  ASSUME IInv, ProbeConnects
  PROVE  IInv'
<1>1. PICK u \in Urls :
        Probes(u) /\ pool' = Joined(probe.pool, u) /\ probe' = [probe EXCEPT !.tried = @ \union {u}]
  BY DEF ProbeConnects
<1>2. /\ TypeOK /\ JobInv /\ TokenInv /\ UNCHANGED <<propagate, table, contexts, job, ready, turn>>
      /\ probe.at = "connect" /\ probe.pool \in Pools
  BY <1>1 DEF IInv, ProbeConnects, Probes, ProbeInv
<1>3. TypeOK' /\ probe'.pool = probe.pool
  BY <1>1, <1>2, JoinedPool DEF TypeOK
<1>4. TableInv' /\ JobInv' /\ CacheInv' /\ CallerInv'
  BY <1>1, <1>2, JoinedPool, InPlaceStep
<1>5. TokenInv'
  <2>1. \A q \in Pools : Young(pool'[q])
    BY <1>1, <1>2, JoinedPool DEF TokenInv
  <2>2. \A q \in Pools : pool'[q].key = pool[q].key /\ pool'[q].age = pool[q].age
    BY <1>1, <1>2, JoinedPool
  <2>3. \A q \in Pools, v \in Urls : pool'[q].token[v] = pool[q].token[v] \/ pool'[q].token[v] = 0
    BY <1>1, <1>2, JoinedPool
  <2>4. job.at # "idle" => job.pool \in Pools
    BY <1>2 DEF JobInv
  <2>5. job.tried \subseteq Urls
    BY <1>2 DEF TypeOK
  <2> QED BY <1>2, <2>1, <2>2, <2>3, <2>4, <2>5 DEF TokenInv
<1> QED BY <1>2, <1>3, <1>4, <1>5 DEF IInv, ProbeInv, TurnsBeginOnOpenPools, NewAgentsHoldValidTokens

\* The probe finds a pool, or fails to connect to a server.
LEMMA ProbeOnlyStep ==
  ASSUME IInv, ProbeLooks \/ ProbeFails
  PROVE  IInv'
<1>1. TypeOK /\ UNCHANGED <<propagate, table, pool, contexts, job, ready, turn>>
  BY DEF IInv, ProbeLooks, ProbeFails
<1>2. TypeOK' /\ ProbeInv'
  <2>1. CASE ProbeFails
    <3>1. PICK u \in Urls : Probes(u) /\ probe' = [probe EXCEPT !.tried = @ \union {u}, !.missing = TRUE]
      BY <2>1 DEF ProbeFails
    <3>2. probe.pool \in Pools
      BY <3>1 DEF Probes, IInv, ProbeInv
    <3> QED BY <1>1, <3>1, <3>2 DEF TypeOK, ProbeInv
  <2>2. CASE ProbeLooks
    <3>1. CASE Listed(Workload) = {}
      <4>1. probe' = [at |-> "insert", pool |-> None, tried |-> {}, missing |-> FALSE]
        BY <2>2, <3>1 DEF ProbeLooks, Asleep
      <4> QED BY <1>1, <4>1 DEF TypeOK, ProbeInv
    <3>2. CASE Listed(Workload) # {}
      <4>1. PICK p \in Listed(Workload) : probe' = [at |-> "connect", pool |-> p, tried |-> {}, missing |-> FALSE]
        BY <2>2, <3>2 DEF ProbeLooks, Probing
      <4>2. p \in Pools
        BY <1>1 DEF TypeOK, Listed, InTable
      <4> QED BY <1>1, <4>1, <4>2 DEF TypeOK, ProbeInv
    <3> QED BY <3>1, <3>2
  <2> QED BY <2>1, <2>2
<1>3. TableInv' /\ JobInv' /\ CacheInv' /\ CallerInv'
  BY <1>1, InPlaceStep
<1>4. TokenInv'
  BY <1>1 DEF IInv, TokenInv
<1> QED BY <1>1, <1>2, <1>3, <1>4 DEF IInv, TurnsBeginOnOpenPools, NewAgentsHoldValidTokens

LEMMA TickStep ==
  ASSUME IInv, Tick
  PROVE  IInv'
<1>1. /\ TypeOK /\ TokenInv /\ UNCHANGED <<propagate, table, contexts, job, probe, ready, turn>> /\ job.at = "idle"
  BY DEF IInv, Tick, Idle
<1>2. ASSUME NEW p \in Pools
      PROVE  /\ pool'[p] \in Pool /\ Young(pool'[p])
             /\ pool'[p].key = pool[p].key /\ pool'[p].closed = pool[p].closed
  <2>1. pool[p] \in Pool /\ Young(pool[p])
    BY <1>1 DEF TypeOK, TokenInv
  <2>2. CASE pool'[p] = pool[p]
    BY <2>1, <2>2
  <2>3. CASE p \in Held /\ pool[p].key = Workload
    <3>1. PICK age, token :
            /\ age = IF pool[p].age < MaxAge THEN pool[p].age + 1 ELSE pool[p].age
            /\ token = [u \in Urls |-> IF pool[p].token[u] # None /\ pool[p].token[u] # TokenLife
                                       THEN pool[p].token[u] + 1 ELSE pool[p].token[u]]
      OBVIOUS
    <3>2. pool'[p] = [pool[p] EXCEPT !.age = age, !.token = token]
      BY <2>3, <3>1 DEF Tick
    <3>3. pool[p].age \in 0..MaxAge /\ pool[p].token \in [Urls -> 0..TokenLife \union {None}]
      BY <2>1 DEF Pool
    <3>4. age \in 0..MaxAge
      BY <3>1, <3>3, AgesAssumption
    <3>5. ASSUME NEW u \in Urls
          PROVE  /\ token[u] \in 0..TokenLife \union {None}
                 /\ token[u] = None <=> pool[p].token[u] = None
                 /\ token[u] # None => token[u] <= pool[p].token[u] + 1
      BY <3>1, <3>3, AgesAssumption
    <3>6. token \in [Urls -> 0..TokenLife \union {None}]
      BY <3>1, <3>5
    <3>7. /\ pool'[p].age = age /\ pool'[p].token = token /\ pool'[p].key = Workload
          /\ pool'[p].closed = pool[p].closed /\ pool'[p].clients = pool[p].clients
      BY <2>1, <2>3, <3>2 DEF Pool
    <3>8. pool'[p] \in Pool
      BY <2>1, <3>2, <3>4, <3>6 DEF Pool
    <3>9. Young(pool'[p])
      <4> SUFFICES ASSUME NEW u \in Urls
                   PROVE  /\ token[u] # None /\ age < MaxAge => token[u] <= age
                          /\ ~pool[p].closed /\ u \notin pool[p].clients => token[u] = None
        BY <3>7 DEF Young
      <4>1. ~pool[p].closed /\ u \notin pool[p].clients => token[u] = None
        BY <2>1, <3>5 DEF Young
      <4>2. ASSUME token[u] # None, age < MaxAge
            PROVE  token[u] <= age
        <5>1. age = pool[p].age + 1 /\ pool[p].age < MaxAge
          BY <3>1, <3>3, <4>2, AgesAssumption
        <5>2. pool[p].token[u] <= pool[p].age /\ pool[p].token[u] \in 0..TokenLife
          <6>1. pool[p].token[u] # None
            BY <3>5, <4>2
          <6>2. pool[p].token[u] <= pool[p].age
            BY <2>1, <5>1, <6>1 DEF Young
          <6> QED BY <3>3, <6>1, <6>2
        <5>3. token[u] <= pool[p].token[u] + 1 /\ token[u] \in 0..TokenLife /\ pool[p].age \in 0..MaxAge
          BY <3>3, <3>5, <4>2
        <5> QED BY <5>1, <5>2, <5>3, AgesAssumption
      <4> QED BY <4>1, <4>2
    <3> QED BY <2>3, <3>7, <3>8, <3>9
  <2> QED BY <1>1, <2>2, <2>3 DEF Tick
<1>3. pool' \in [Pools -> Pool]
  <2>1. pool' = [p \in Pools |-> pool'[p]]
    BY DEF Tick
  <2> QED BY <1>2, <2>1
<1>4. TypeOK'
  BY <1>1, <1>3 DEF TypeOK
<1>5. TableInv' /\ JobInv' /\ CacheInv' /\ CallerInv'
  BY <1>1, <1>2, InPlaceStep
<1>6. TokenInv'
  BY <1>1, <1>2 DEF TokenInv
<1> QED BY <1>1, <1>4, <1>5, <1>6 DEF IInv, ProbeInv, TurnsBeginOnOpenPools, NewAgentsHoldValidTokens

-----------------------------------------------------------------------------
(***************************************************************************)
(* Finish: what is evicted is neither the pool put in nor in the table.    *)
(***************************************************************************)

LEMMA FinishTable ==
  ASSUME IInv, job.at # "idle",
         NEW p, p = job.pool, NEW after, after = Inserted(p, pool[p].key), NEW left, left = Newest(after, MaxPools)
  PROVE  /\ p \in Pools /\ p \notin Evicted(p)
         /\ left \in Seq(Pools) /\ ~(Len(left) > MaxPools)
         /\ \A k \in 1..Len(left) : left[k] \notin Evicted(p) /\ (left[k] = p \/ left[k] \in InTable)
         /\ \A k, l \in 1..Len(left) : pool[left[k]].key = pool[left[l]].key => k = l
         /\ \A q \in Pools : (q = p \/ (q \in InTable /\ pool[q].key # Workload)) =>
              q \in Evicted(p) \/ \E k \in 1..Len(left) : left[k] = q
         /\ Evicted(p) \subseteq InTable
<1>1. PICK n, key, cut : n = Len(table) /\ key = pool[p].key /\ cut = Len(after) - MaxPools
  OBVIOUS
<1>2. TypeOK /\ TableInv /\ p \in Pools /\ MaxPools \in Nat \ {0}
  BY CapsAssumption DEF IInv, JobInv
<1>3. \A k \in 1..n : table[k] # p /\ (pool[table[k]].key = key => key = Workload)
  BY <1>1 DEF IInv, JobInv
<1>4. /\ after \in Seq(Pools) /\ n \in Nat
      /\ \A k \in 1..n : after[k] = IF pool[table[k]].key = key THEN p ELSE table[k]
      /\ \/ Len(after) = n + 1 /\ after[n + 1] = p /\ \A k \in 1..n : pool[table[k]].key # key
         \/ Len(after) = n /\ \E k \in 1..n : pool[table[k]].key = key
  BY <1>1, <1>2, InsertedProperties
<1>5. \A k \in 1..n : table[k] \in InTable /\ table[k] \in Pools
  BY <1>1, <1>2 DEF TypeOK, InTable
<1>6. \A k \in 1..Len(after) :
        \/ after[k] = p /\ (k \in 1..n => pool[table[k]].key = key) /\ (k \notin 1..n => k = n + 1)
        \/ k \in 1..n /\ after[k] = table[k] /\ pool[table[k]].key # key
  BY <1>4
<1>7. \A k, l \in 1..Len(after) : pool[after[k]].key = pool[after[l]].key => k = l
  <2> SUFFICES ASSUME NEW k \in 1..Len(after), NEW l \in 1..Len(after), pool[after[k]].key = pool[after[l]].key
               PROVE  k = l
    OBVIOUS
  <2>1. \A i, j \in 1..n : pool[table[i]].key = pool[table[j]].key => i = j
    BY <1>1, <1>2 DEF TableInv
  <2>2. CASE after[k] = p /\ after[l] = p
    <3>1. k \in 1..n /\ l \in 1..n => k = l
      BY <1>1, <1>6, <2>1, <2>2
    <3>2. k \notin 1..n \/ l \notin 1..n => k = n + 1 /\ l = n + 1
      BY <1>1, <1>4, <1>6, <2>2
    <3> QED BY <3>1, <3>2
  <2>3. CASE after[k] = p /\ after[l] # p
    BY <1>1, <1>6, <2>3
  <2>4. CASE after[k] # p /\ after[l] = p
    BY <1>1, <1>6, <2>4
  <2>5. CASE after[k] # p /\ after[l] # p
    <3>1. k \in 1..n /\ l \in 1..n /\ after[k] = table[k] /\ after[l] = table[l]
      BY <1>6, <2>5
    <3> QED BY <2>1, <3>1
  <2> QED BY <2>2, <2>3, <2>4, <2>5
<1>8. cut \in Int /\ Len(after) \in Nat /\ Len(after) = cut + MaxPools
  BY <1>1, <1>2, <1>4
<1>9. Evicted(p) = {after[k] : k \in 1..cut}
  BY <1>1 DEF Evicted
<1>10. PICK at \in 1..Len(after) : after[at] = p /\ at > cut
  <2>1. CASE Len(after) = n + 1 /\ after[n + 1] = p
    <3>1. n + 1 \in 1..Len(after) /\ n + 1 > cut
      BY <1>2, <1>4, <1>8, <2>1
    <3> QED BY <2>1, <3>1
  <2>2. CASE Len(after) = n /\ \E k \in 1..n : pool[table[k]].key = key
    <3>1. PICK k \in 1..n : pool[table[k]].key = key
      BY <2>2
    <3>2. after[k] = p /\ key = Workload
      BY <1>3, <1>4, <3>1
    <3>3. CASE n > MaxPools
      <4>1. n = MaxPools + 1 /\ n \in 1..n /\ pool[table[n]].key = Workload
        BY <1>1, <1>2, <1>4, <3>3 DEF TableInv
      <4>2. k = n
        BY <1>1, <1>2, <3>1, <3>2, <4>1 DEF TableInv
      <4>3. n > cut
        BY <1>2, <1>4, <1>8, <2>2, <4>1
      <4> QED BY <2>2, <3>2, <4>1, <4>2, <4>3
    <3>4. CASE ~(n > MaxPools)
      <4>1. k > cut
        BY <1>2, <1>4, <1>8, <2>2, <3>4
      <4> QED BY <2>2, <3>2, <4>1
    <3> QED BY <3>3, <3>4
  <2> QED BY <1>4, <2>1, <2>2
<1>11. \A k \in 1..Len(after) : k > cut => after[k] \notin Evicted(p)
  <2> SUFFICES ASSUME NEW k \in 1..Len(after), k > cut, NEW l \in 1..cut, after[k] = after[l]
               PROVE  FALSE
    BY <1>9
  <2>1. l \in 1..Len(after) /\ l # k
    BY <1>2, <1>8
  <2> QED BY <1>7, <2>1
<1>12. PICK drop \in Nat :
         /\ left \in Seq(Pools) /\ Len(left) \in Nat /\ Len(left) + drop = Len(after) /\ ~(Len(left) > MaxPools)
         /\ \A k \in 1..Len(left) : left[k] = after[k + drop] /\ k + drop \in 1..Len(after) /\ k + drop > cut
         /\ \A k \in 1..Len(after) : k > cut => k > drop
  <2>1. /\ left \in Seq(Pools)
        /\ Len(after) <= MaxPools => left = after
        /\ Len(after) > MaxPools => /\ Len(left) = MaxPools
                                    /\ \A k \in 1..MaxPools : left[k] = after[k + Len(after) - MaxPools]
    <3>1. MaxPools \in Nat /\ after \in Seq(Pools)
      BY <1>2, <1>4
    <3>2. /\ Newest(after, MaxPools) \in Seq(Pools)
          /\ Len(after) <= MaxPools => Newest(after, MaxPools) = after
          /\ Len(after) > MaxPools =>
               /\ Len(Newest(after, MaxPools)) = MaxPools
               /\ \A k \in 1..MaxPools : Newest(after, MaxPools)[k] = after[k + Len(after) - MaxPools]
      BY ONLY <3>1, NewestProperties
    <3> QED BY <3>2
  <2>2. CASE Len(after) <= MaxPools
    <3>1. left = after /\ ~(Len(left) > MaxPools) /\ ~(cut > 0)
      BY <1>2, <1>8, <2>1, <2>2
    <3>2. \A k \in 1..Len(left) : k + 0 = k /\ k > cut /\ k > 0
      BY <1>8, <3>1
    <3>3. Len(left) + 0 = Len(after)
      BY <1>8, <3>1
    <3> WITNESS 0 \in Nat
    <3> QED BY <1>4, <1>8, <3>1, <3>2, <3>3
  <2>3. CASE Len(after) > MaxPools
    <3>1. cut \in Nat /\ Len(left) = MaxPools /\ MaxPools + cut = Len(after)
      BY <1>2, <1>8, <2>1, <2>3
    <3>2. ASSUME NEW k \in 1..Len(left)
          PROVE  left[k] = after[k + cut] /\ k + cut \in 1..Len(after) /\ k + cut > cut
      <4>1. k + Len(after) - MaxPools = k + cut /\ k \in 1..MaxPools
        BY <1>2, <1>8, <3>1
      <4>2. left[k] = after[k + Len(after) - MaxPools]
        BY <2>1, <2>3, <4>1
      <4>3. k + cut \in 1..Len(after) /\ k + cut > cut
        BY <1>2, <1>8, <3>1
      <4> QED BY <4>1, <4>2, <4>3
    <3>3. Len(left) \in Nat /\ Len(left) + cut = Len(after) /\ ~(Len(left) > MaxPools)
      BY <1>2, <3>1
    <3> USE <3>1
    <3> WITNESS cut \in Nat
    <3> QED BY <2>1, <3>2, <3>3
  <2> QED BY <1>2, <1>8, <2>2, <2>3
<1>13. \A k \in 1..Len(after) : k > cut => \E m \in 1..Len(left) : left[m] = after[k]
  <2> SUFFICES ASSUME NEW k \in 1..Len(after), k > cut
               PROVE  \E m \in 1..Len(left) : left[m] = after[k]
    OBVIOUS
  <2>1. k > drop
    BY <1>12
  <2>2. k - drop \in 1..Len(left) /\ (k - drop) + drop = k
    BY <1>8, <1>12, <2>1
  <2> QED BY <1>12, <2>2
<1>14. \A k \in 1..Len(after) : ~(k > cut) => after[k] \in Evicted(p)
  BY <1>8, <1>9
<1>15. p \notin Evicted(p)
  BY <1>10, <1>11
<1>16. \A k \in 1..Len(left) : left[k] \notin Evicted(p) /\ (left[k] = p \/ left[k] \in InTable)
  BY <1>5, <1>6, <1>11, <1>12
<1>17. \A k, l \in 1..Len(left) : pool[left[k]].key = pool[left[l]].key => k = l
  <2> SUFFICES ASSUME NEW k \in 1..Len(left), NEW l \in 1..Len(left), pool[left[k]].key = pool[left[l]].key
               PROVE  k = l
    OBVIOUS
  <2>1. /\ k + drop \in 1..Len(after) /\ left[k] = after[k + drop]
        /\ l + drop \in 1..Len(after) /\ left[l] = after[l + drop]
    BY <1>12
  <2>2. PICK i, j : i = k + drop /\ j = l + drop
    OBVIOUS
  <2>3. i \in 1..Len(after) /\ j \in 1..Len(after) /\ pool[after[i]].key = pool[after[j]].key
    BY <2>1, <2>2
  <2>4. i = j
    BY <1>7, <2>3
  <2> QED BY <1>12, <2>2, <2>4
<1>18. ASSUME NEW q \in Pools, q = p \/ (q \in InTable /\ pool[q].key # Workload)
       PROVE  q \in Evicted(p) \/ \E k \in 1..Len(left) : left[k] = q
  <2>1. PICK k \in 1..Len(after) : after[k] = q
    <3>1. CASE q = p
      BY <1>10, <3>1
    <3>2. CASE q \in InTable /\ pool[q].key # Workload
      <4>1. PICK k \in 1..n : table[k] = q
        BY <1>1, <1>2, <3>2 DEF InTable, TypeOK
      <4>2. after[k] = q /\ k \in 1..Len(after)
        BY <1>3, <1>4, <3>2, <4>1
      <4> QED BY <4>2
    <3> QED BY <1>18, <3>1, <3>2
  <2> QED BY <1>13, <1>14, <2>1
<1>19. Evicted(p) \subseteq InTable
  <2> SUFFICES ASSUME NEW k \in 1..cut PROVE after[k] \in InTable
    BY <1>9
  <2>1. k \in 1..Len(after) /\ ~(k > cut)
    BY <1>2, <1>8
  <2>2. after[k] \in Evicted(p)
    BY <1>14, <2>1
  <2> QED BY <1>5, <1>6, <1>15, <2>1, <2>2
<1> QED BY <1>2, <1>12, <1>15, <1>16, <1>17, <1>18, <1>19

LEMMA ClosedPool ==
  ASSUME NEW q, q \in Pool, Young(q)
  PROVE  LET c == [q EXCEPT !.closed = TRUE, !.clients = {},
                            !.token = [u \in Urls |-> IF u \in q.clients THEN None ELSE q.token[u]]]
         IN  c \in Pool /\ Young(c) /\ c.key = q.key /\ c.closed
<1>1. PICK token : token = [u \in Urls |-> IF u \in q.clients THEN None ELSE q.token[u]]
  OBVIOUS
<1>2. PICK c : c = [q EXCEPT !.closed = TRUE, !.clients = {}, !.token = token]
  OBVIOUS
<1>3. token \in [Urls -> 0..TokenLife \union {None}]
  BY <1>1 DEF Pool
<1>4. c \in Pool /\ c.key = q.key /\ c.age = q.age /\ c.closed /\ c.token = token
  BY <1>2, <1>3 DEF Pool
<1>5. Young(c)
  BY <1>1, <1>4 DEF Young
<1> QED BY <1>1, <1>2, <1>4, <1>5

\* What Finish leaves of the pools: those it evicts are closed, one it recycled is new.
LEMMA SettledPools ==
  ASSUME IInv, job.at # "idle", \A u \in Urls : ~Restarts(u),
         NEW p, p = job.pool, p \in Pools, p \notin Evicted(p), Evicted(p) \subseteq InTable,
         NEW settled, settled = Settled(p)
  PROVE  /\ settled \in [Pools -> Pool]
         /\ \A q \in Pools : Young(settled[q]) /\ settled[q].key = pool[q].key
         /\ \A q \in Pools : settled[q].closed <=> q \in Evicted(p) \/ pool[q].closed
         /\ \A u \in Urls : settled[p].token[u] # TokenLife
<1>1. /\ TypeOK /\ JobInv /\ TokenInv
      /\ settled = [q \in Pools |-> IF q \in Evicted(p) THEN Closed(q)
                                    ELSE IF q = p /\ job.at = "recycle" THEN [pool[q] EXCEPT !.age = 0] ELSE pool[q]]
  BY DEF IInv, Settled
<1>2. \A q \in Pools : pool[q] \in Pool /\ Young(pool[q])
  BY <1>1 DEF TypeOK, TokenInv
<1>3. ASSUME job.at = "recycle"
      PROVE  \A u \in Urls : pool[p].token[u] \in {0, None}
  <2> SUFFICES ASSUME NEW u \in Urls PROVE pool[p].token[u] \in {0, None}
    OBVIOUS
  <2>1. CASE u \in pool[p].clients
    <3>1. u \in job.tried
      BY <1>3, <2>1 DEF Restarts
    <3> QED BY <1>1, <1>3, <3>1 DEF TokenInv
  <2>2. CASE u \notin pool[p].clients
    BY <1>1, <1>2, <2>2 DEF JobInv, Young
  <2> QED BY <2>1, <2>2
<1>4. ASSUME NEW q \in Pools
      PROVE  /\ settled[q] \in Pool /\ Young(settled[q]) /\ settled[q].key = pool[q].key
             /\ settled[q].closed <=> q \in Evicted(p) \/ pool[q].closed
  <2>1. CASE q \in Evicted(p)
    <3>1. settled[q] = Closed(q)
      BY <1>1, <2>1
    <3>2. PICK o : o = pool[q]
      OBVIOUS
    <3>3. settled[q] = [o EXCEPT !.closed = TRUE, !.clients = {},
                                 !.token = [u \in Urls |-> IF u \in o.clients THEN None ELSE o.token[u]]]
      BY <3>1, <3>2 DEF Closed
    <3>4. o \in Pool /\ Young(o)
      BY <1>2, <3>2
    <3>5. settled[q] \in Pool /\ Young(settled[q]) /\ settled[q].key = o.key /\ settled[q].closed
      BY <3>3, <3>4, ClosedPool
    <3> QED BY <2>1, <3>2, <3>5
  <2>2. CASE q = p /\ job.at = "recycle"
    <3>1. settled[q] = [pool[q] EXCEPT !.age = 0]
      BY <1>1, <2>2
    <3>2. /\ settled[q] \in Pool /\ settled[q].key = pool[q].key /\ settled[q].closed = pool[q].closed
          /\ settled[q].token = pool[q].token /\ settled[q].clients = pool[q].clients /\ settled[q].age = 0
      BY <1>2, <3>1, AgesAssumption DEF Pool
    <3>3. Young(settled[q])
      BY <1>2, <1>3, <2>2, <3>2 DEF Young
    <3> QED BY <2>2, <3>2, <3>3
  <2>3. CASE q \notin Evicted(p) /\ ~(q = p /\ job.at = "recycle")
    BY <1>1, <1>2, <2>3
  <2> QED BY <2>1, <2>2, <2>3
<1>5. settled[p].token = pool[p].token
  <2>1. pool[p] \in Pool
    BY <1>2
  <2> QED BY <1>1, <2>1 DEF Pool
<1>6. ASSUME NEW u \in Urls
      PROVE  pool[p].token[u] # TokenLife
  <2>1. /\ 0 # TokenLife /\ None # TokenLife /\ MaxAge < TokenLife /\ TokenLife \in Nat /\ MaxAge \in Nat
    BY AgesAssumption
  <2>2. job.at \in {"open", "recycle", "reuse"} /\ pool[p] \in Pool /\ Young(pool[p])
    BY <1>1, <1>2 DEF TypeOK
  <2>3. CASE job.at \in {"open", "recycle"}
    BY <1>1, <1>3, <2>1, <2>3 DEF TokenInv
  <2>4. CASE job.at = "reuse" /\ pool[p].key # Workload
    BY <2>1, <2>2, <2>4 DEF Young
  <2>5. CASE job.at = "reuse" /\ pool[p].key = Workload
    <3>1. pool[p].age < MaxAge /\ pool[p].age \in 0..MaxAge /\ pool[p].token[u] \in 0..TokenLife \union {None}
      BY <1>1, <2>2, <2>5 DEF TokenInv, Pool
    <3>2. pool[p].token[u] # None => pool[p].token[u] <= pool[p].age
      BY <2>2, <3>1 DEF Young
    <3> QED BY <2>1, <3>1, <3>2
  <2> QED BY <2>2, <2>3, <2>4, <2>5
<1> QED BY <1>1, <1>4, <1>5, <1>6

\* The entry that Finish adds to a cache, and the caches it leaves.
LEMMA FinishCache ==
  ASSUME TypeOK, JobInv, job.at # "idle", NEW e, e = [key |-> CallerKey(job.req), req |-> job.req, agent |-> job.pool],
         contexts' = IF NoIdentity(job.req) THEN contexts
                     ELSE [contexts EXCEPT ![job.route] = Newest(Append(@, e), MaxAgents)]
  PROVE  /\ e \in Entry
         /\ contexts' \in [Routes -> Seq(Entry)]
         /\ \A route \in Routes \ {job.route} : contexts'[route] = contexts[route]
         /\ \A route \in Routes : \A k \in 1..Len(contexts'[route]) :
              \/ \E j \in 1..Len(contexts[route]) : contexts'[route][k] = contexts[route][j]
              \/ contexts'[route][k] = e /\ ~NoIdentity(job.req) /\ route = job.route
<1>1. e \in Entry
  BY OutboundType DEF JobInv, Entry
<1>2. CASE NoIdentity(job.req)
  BY <1>1, <1>2 DEF TypeOK
<1>3. CASE ~NoIdentity(job.req)
  <2>1. PICK old, more, new : old = contexts[job.route] /\ more = Append(old, e) /\ new = Newest(more, MaxAgents)
    OBVIOUS
  <2>2. old \in Seq(Entry) /\ job.route \in Routes /\ MaxAgents \in Nat
    BY <2>1, CapsAssumption DEF TypeOK, JobInv
  <2>3. /\ more \in Seq(Entry) /\ Len(more) = Len(old) + 1
        /\ \A k \in 1..Len(old) : more[k] = old[k]
        /\ more[Len(old) + 1] = e
    BY <1>1, <2>1, <2>2
  <2>4. /\ new \in Seq(Entry)
        /\ Len(more) <= MaxAgents => new = more
        /\ Len(more) > MaxAgents =>
             Len(new) = MaxAgents /\ \A k \in 1..MaxAgents : new[k] = more[k + Len(more) - MaxAgents]
    BY <2>1, <2>2, <2>3, NewestProperties, ZenonT(60)
  <2>5. ASSUME NEW k \in 1..Len(new)
        PROVE  \E i \in 1..Len(more) : new[k] = more[i]
    <3>1. CASE Len(more) <= MaxAgents
      BY <2>4, <3>1
    <3>2. CASE ~(Len(more) <= MaxAgents)
      <4>1. PICK i : i = k + Len(more) - MaxAgents
        OBVIOUS
      <4>2. i \in 1..Len(more) /\ k \in 1..MaxAgents
        BY <2>2, <2>3, <2>4, <3>2, <4>1
      <4>3. new[k] = more[k + Len(more) - MaxAgents]
        BY <2>2, <2>3, <2>4, <3>2, <4>2
      <4> QED BY <4>1, <4>2, <4>3
    <3> QED BY <3>1, <3>2
  <2>6. \A i \in 1..Len(more) : more[i] = e \/ \E j \in 1..Len(old) : more[i] = old[j]
    <3> SUFFICES ASSUME NEW i \in 1..Len(more)
                 PROVE  more[i] = e \/ \E j \in 1..Len(old) : more[i] = old[j]
      OBVIOUS
    <3>1. i \in 1..Len(old) \/ i = Len(old) + 1
      BY <2>2, <2>3
    <3> QED BY <2>3, <3>1
  <2>7. /\ contexts' = [contexts EXCEPT ![job.route] = new]
    BY <1>3, <2>1
  <2>8. /\ contexts' \in [Routes -> Seq(Entry)] /\ contexts'[job.route] = new
        /\ \A route \in Routes \ {job.route} : contexts'[route] = contexts[route]
    BY <2>2, <2>4, <2>7 DEF TypeOK
  <2>9. ASSUME NEW route \in Routes, NEW k \in 1..Len(contexts'[route])
        PROVE  \/ \E j \in 1..Len(contexts[route]) : contexts'[route][k] = contexts[route][j]
               \/ contexts'[route][k] = e /\ route = job.route
    <3>1. CASE route = job.route
      <4>1. PICK i \in 1..Len(more) : new[k] = more[i]
        BY <2>5, <2>8, <3>1
      <4>2. contexts'[route][k] = more[i] /\ contexts[route] = old
        BY <2>1, <2>8, <3>1, <4>1
      <4>3. more[i] = e \/ \E j \in 1..Len(old) : more[i] = old[j]
        BY <2>6
      <4> QED BY <3>1, <4>2, <4>3
    <3>2. CASE route # job.route
      BY <2>8, <3>2
    <3> QED BY <3>1, <3>2
  <2> QED BY <1>1, <1>3, <2>8, <2>9
<1> QED BY <1>2, <1>3

LEMMA FinishStep ==
  ASSUME IInv, Finish
  PROVE  IInv'
<1>1. PICK p, e, settled, left :
        /\ p = job.pool /\ e = [key |-> CallerKey(job.req), req |-> job.req, agent |-> job.pool]
        /\ settled = Settled(p) /\ left = Newest(Inserted(p, pool[p].key), MaxPools)
  OBVIOUS
<1>2. /\ TypeOK /\ JobInv /\ UNCHANGED <<propagate, probe, ready>>
      /\ job.at # "idle" /\ \A u \in Urls : ~Restarts(u)
      /\ table' = left
      /\ contexts' = IF NoIdentity(job.req) THEN contexts
                     ELSE [contexts EXCEPT ![job.route] = Newest(Append(@, e), MaxAgents)]
      /\ turn' = Begun(job.req, e, TRUE, settled[p])
      /\ job' = Idle /\ pool' = Collected(settled)
  BY <1>1 DEF IInv, Finish, JobInv
<1>3. /\ p \in Pools /\ p \notin Evicted(p)
      /\ left \in Seq(Pools) /\ ~(Len(left) > MaxPools)
      /\ \A k \in 1..Len(left) : left[k] \notin Evicted(p) /\ (left[k] = p \/ left[k] \in InTable)
      /\ \A k, l \in 1..Len(left) : pool[left[k]].key = pool[left[l]].key => k = l
      /\ \A q \in Pools : (q = p \/ (q \in InTable /\ pool[q].key # Workload)) =>
           q \in Evicted(p) \/ \E k \in 1..Len(left) : left[k] = q
      /\ Evicted(p) \subseteq InTable
  <2>1. job.at # "idle"
    BY <1>2
  <2>2. PICK after : after = Inserted(p, pool[p].key)
    OBVIOUS
  <2>3. p = job.pool /\ left = Newest(after, MaxPools)
    BY <1>1, <2>2
  <2> QED BY ONLY IInv, <2>1, <2>2, <2>3, FinishTable
<1>4. /\ settled \in [Pools -> Pool]
      /\ \A q \in Pools : Young(settled[q]) /\ settled[q].key = pool[q].key
      /\ \A q \in Pools : settled[q].closed <=> q \in Evicted(p) \/ pool[q].closed
      /\ \A u \in Urls : settled[p].token[u] # TokenLife
  <2>1. job.at # "idle" /\ \A u \in Urls : ~Restarts(u)
    BY <1>2
  <2>2. p \in Pools /\ p \notin Evicted(p) /\ Evicted(p) \subseteq InTable
    BY <1>3
  <2>3. p = job.pool /\ settled = Settled(p)
    BY <1>1
  <2> QED BY ONLY IInv, <2>1, <2>2, <2>3, SettledPools
<1>5. /\ e \in Entry
      /\ contexts' \in [Routes -> Seq(Entry)]
      /\ \A route \in Routes : \A k \in 1..Len(contexts'[route]) :
           \/ \E j \in 1..Len(contexts[route]) : contexts'[route][k] = contexts[route][j]
           \/ contexts'[route][k] = e /\ ~NoIdentity(job.req)
  BY <1>1, <1>2, FinishCache
<1>6. /\ pool' \in [Pools -> Pool]
      /\ \A q \in Pools : q \in Held' => pool'[q] = settled[q]
      /\ \A q \in Pools : pool'[q] = settled[q] \/ pool'[q] = NewPool(Workload)
  BY <1>2, <1>4, CollectedPools
<1>7. /\ turn' = [by |-> job.req, for |-> job.req, cred |-> pool[p].key, built |-> TRUE, closed |-> FALSE, expired |-> FALSE]
      /\ turn' \in Turn
  <2>1. settled[p] \in Pool /\ settled[p].closed = FALSE /\ settled[p].key = pool[p].key
    <3>1. settled[p] \in Pool /\ ~settled[p].closed
      BY <1>1, <1>2, <1>3, <1>4, ZenonT(60) DEF JobInv
    <3> QED BY <1>3, <1>4, <3>1 DEF Pool
  <2>2. (\E u \in Urls : settled[p].token[u] = TokenLife) = FALSE
    BY <1>4
  <2>3. e.req = job.req
    BY <1>1
  <2>4. turn' = [by |-> job.req, for |-> job.req, cred |-> pool[p].key, built |-> TRUE, closed |-> FALSE, expired |-> FALSE]
    BY <1>2, <2>1, <2>2, <2>3 DEF Begun
  <2>5. job.req \in Requests /\ pool[p].key \in Credentials
    BY <1>2, <1>3 DEF JobInv, TypeOK, Pool
  <2> QED BY <2>4, <2>5 DEF Turn
<1>8. TypeOK'
  BY <1>2, <1>3, <1>5, <1>6, <1>7 DEF TypeOK, Idle
<1>9. \A k \in 1..Len(left) : left[k] \in Pools /\ pool'[left[k]] = settled[left[k]]
  BY <1>2, <1>6, <1>8, WhoIsHeld
<1>10. TableInv'
  <2>1. \A k \in 1..Len(left) : ~pool[left[k]].closed
    <3> SUFFICES ASSUME NEW k \in 1..Len(left) PROVE ~pool[left[k]].closed
      OBVIOUS
    <3>1. CASE left[k] = p
      BY <1>1, <1>2, <3>1 DEF JobInv
    <3>2. CASE left[k] \in InTable
      BY <1>2, <3>2 DEF IInv, TableInv, InTable, TypeOK
    <3> QED BY <1>3, <3>1, <3>2
  <2>2. table' = left /\ Len(left) \in Nat /\ MaxPools \in Nat
    BY <1>2, <1>3, CapsAssumption
  <2>3. ASSUME NEW k \in 1..Len(left)
        PROVE  pool'[table'[k]].key = pool[left[k]].key /\ ~pool'[table'[k]].closed
    <3>1. pool'[table'[k]] = settled[left[k]] /\ left[k] \in Pools /\ left[k] \notin Evicted(p)
      BY <1>3, <1>9, <2>2
    <3> QED BY <1>4, <2>1, <3>1
  <2>4. \A k, l \in 1..Len(table') : pool'[table'[k]].key = pool'[table'[l]].key => k = l
    <3> SUFFICES ASSUME NEW k \in 1..Len(left), NEW l \in 1..Len(left),
                        pool'[table'[k]].key = pool'[table'[l]].key
                 PROVE  k = l
      BY <2>2
    <3>1. pool[left[k]].key = pool[left[l]].key
      BY <2>3
    <3> QED BY <1>3, <3>1
  <2>5. \A k \in 1..Len(table') : ~pool'[table'[k]].closed
    BY <2>2, <2>3
  <2>6. ~(Len(table') > MaxPools)
    BY <1>3, <2>2
  <2> QED BY <2>4, <2>5, <2>6 DEF TableInv
<1>11. CacheInv'
  <2> SUFFICES ASSUME NEW route \in Routes, NEW k \in 1..Len(contexts'[route]), NEW c, c = contexts'[route][k]
               PROVE  c.key = CallerKey(c.req)' /\ ~NoIdentity(c.req) /\ pool'[c.agent].key = Outbound(c.req)'
    BY DEF CacheInv, NoIdentity
  <2>1. c.agent \in Pools /\ pool'[c.agent].key = pool[c.agent].key
    BY <1>4, <1>6, <1>8, WhoIsHeld
  <2>2. Outbound(c.req)' = Outbound(c.req) /\ CallerKey(c.req)' = CallerKey(c.req)
    BY <1>2 DEF Outbound, CallerKey
  <2>3. CASE c = e /\ ~NoIdentity(job.req)
    <3>1. c.key = CallerKey(c.req) /\ c.req = job.req /\ c.agent = p
      BY <1>1, <2>3
    <3>2. pool[p].key = Outbound(job.req)
      BY <1>1, <1>2 DEF JobInv
    <3> QED BY ONLY <2>1, <2>2, <2>3, <3>1, <3>2
  <2>4. CASE \E j \in 1..Len(contexts[route]) : c = contexts[route][j]
    BY <2>1, <2>2, <2>4 DEF IInv, CacheInv
  <2> QED BY <1>5, <2>3, <2>4
<1>12. CallerInv'
  <2> SUFFICES ASSUME NEW q \in Pools, pool'[q].key # Workload, ~pool'[q].closed
               PROVE  q \in InTable'
    BY DEF CallerInv
  <2>1. pool'[q] = settled[q]
    BY <1>6 DEF NewPool
  <2>2. pool[q].key # Workload /\ ~pool[q].closed /\ q \notin Evicted(p)
    BY <1>4, <2>1
  <2>3. q \in InTable \union {p}
    BY <1>1, <2>2 DEF IInv, CallerInv
  <2>4. PICK k \in 1..Len(left) : left[k] = q
    BY <1>3, <2>2, <2>3
  <2> QED BY <1>2, <1>3, <2>4 DEF InTable
<1>13. JobInv' /\ TokenInv'
  <2>1. \A q \in Pools : Young(pool'[q])
    BY <1>4, <1>6 DEF Young, NewPool
  <2> QED BY <1>2, <2>1 DEF JobInv, TokenInv, Idle
<1>14. TurnsBeginOnOpenPools' /\ NewAgentsHoldValidTokens'
  BY <1>7 DEF TurnsBeginOnOpenPools, NewAgentsHoldValidTokens
<1> QED BY <1>2, <1>8, <1>10, <1>11, <1>12, <1>13, <1>14 DEF IInv, ProbeInv

-----------------------------------------------------------------------------
LEMMA IInvInit == Init => IInv
<1> SUFFICES ASSUME Init PROVE IInv
  OBVIOUS
<1>1. PICK first \in Pools, up \in SUBSET Urls :
        /\ table = <<first>>
        /\ pool = [p \in Pools |->
                     IF p = first
                     THEN [NewPool(Workload) EXCEPT !.clients = up, !.connected = up,
                                                    !.token = [u \in Urls |-> IF u \in up THEN 0 ELSE None]]
                     ELSE NewPool(Workload)]
        /\ propagate \in BOOLEAN /\ contexts = [route \in Routes |-> <<>>]
        /\ job = Idle /\ probe = Asleep /\ ready = FALSE /\ turn = None
  BY DEF Init
<1>2. PICK token : token = [u \in Urls |-> IF u \in up THEN 0 ELSE None]
  OBVIOUS
<1>3. token \in [Urls -> 0..TokenLife \union {None}]
  BY <1>2, AgesAssumption
<1>4. pool[first] = [key |-> Workload, closed |-> FALSE, clients |-> up, connected |-> up, age |-> 0, token |-> token]
  BY <1>1, <1>2 DEF NewPool
<1>5. \A p \in Pools \ {first} : pool[p] = NewPool(Workload)
  BY <1>1
<1>6. pool[first] \in Pool
  BY <1>3, <1>4, WorkloadIsCredential, AgesAssumption DEF Pool
<1>7. pool \in [Pools -> Pool]
  BY <1>1, <1>5, <1>6, NewPoolType, WorkloadIsCredential
<1>8. Young(pool[first])
  BY <1>2, <1>4, AgesAssumption DEF Young
<1>9. \A p \in Pools : Young(pool[p])
  BY <1>5, <1>8 DEF Young, NewPool
<1>10. \A p \in Pools : pool[p].key = Workload /\ ~pool[p].closed
  BY <1>4, <1>5 DEF NewPool
<1>11. table \in Seq(Pools) /\ Len(table) = 1 /\ table[1] \in Pools
  <2>1. <<first>> \in Seq(Pools) /\ Len(<<first>>) = 1 /\ <<first>>[1] = first
    OBVIOUS
  <2> QED BY <1>1, <2>1
<1>12. TypeOK
  <2>1. contexts \in [Routes -> Seq(Entry)]
    BY <1>1, EmptySeq
  <2>2. /\ job \in [at : {"idle", "open", "recycle", "reuse"}, route : Routes \union {None},
                   req : Requests \union {None}, pool : Pools \union {None}, tried : SUBSET Urls]
        /\ probe \in [at : {"idle", "insert", "connect"}, pool : Pools \union {None},
                     tried : SUBSET Urls, missing : BOOLEAN]
    BY <1>1 DEF Idle, Asleep
  <2> QED BY <1>1, <1>7, <1>11, <2>1, <2>2 DEF TypeOK
<1>13. TableInv
  <2>1. ~(Len(table) > MaxPools) /\ 1..Len(table) = {1}
    BY <1>11, CapsAssumption
  <2> QED BY <1>10, <1>11, <2>1 DEF TableInv
<1>14. JobInv /\ ProbeInv /\ CallerInv /\ TokenInv
  BY <1>1, <1>9, <1>10 DEF JobInv, ProbeInv, CallerInv, TokenInv, Idle, Asleep
<1>15. CacheInv
  <2>1. \A route \in Routes : Len(contexts[route]) = 0
    BY <1>1
  <2> QED BY <2>1 DEF CacheInv
<1> QED BY <1>1, <1>12, <1>13, <1>14, <1>15 DEF IInv, TurnsBeginOnOpenPools, NewAgentsHoldValidTokens

LEMMA IInvNext ==
  ASSUME IInv, [Next]_vars
  PROVE  IInv'
<1>1. CASE Next
  <2>1. ASSUME NEW route \in Routes, NEW r \in Requests, Hit(route, r)
        PROVE  IInv'
    BY <2>1, HitStep
  <2>2. ASSUME NEW route \in Routes, NEW r \in Requests, MemoryFails(route, r)
        PROVE  IInv'
    BY <2>2, MemoryFailsStep
  <2>3. ASSUME NEW route \in Routes, NEW r \in Requests, OpenPool(route, r)
        PROVE  IInv'
    BY <2>3, OpenPoolStep
  <2>4. ASSUME NEW route \in Routes, NEW r \in Requests, TakePool(route, r)
        PROVE  IInv'
    BY <2>4, TakePoolStep
  <2> QED BY <1>1, <2>1, <2>2, <2>3, <2>4, OpenConnectsStep, OpenFailsStep, RecyclesStep, FinishStep,
             ProbeOnlyStep, ProbeInsertsStep, ProbeConnectsStep, ProbeAnswersStep, TickStep
          DEF Next, EventLoop, ProbeThread
<1>2. CASE UNCHANGED vars
  BY <1>2 DEF vars, IInv, TypeOK, TableInv, JobInv, ProbeInv, CacheInv, CallerInv, TokenInv, InTable, Outbound, CallerKey,
              NoIdentity, TurnsBeginOnOpenPools, NewAgentsHoldValidTokens
<1> QED BY <1>1, <1>2

\* Every state the process can reach satisfies the invariant.
THEOREM InvariantHolds == Spec => []IInv
BY IInvInit, IInvNext, PTL DEF Spec

\* The table, the pools, the caches, the request being served, the probe and the turn
\* always have the values the code gives them.
THEOREM TypeCorrect == Spec => []TypeOK
<1>1. IInv => TypeOK
  BY DEF IInv
<1> QED BY <1>1, InvariantHolds, PTL

\* No turn begins on an agent whose pool has been evicted and closed, however eviction,
\* rebuilding and the probe interleave.
THEOREM OnlyOpenPools == Spec => []TurnsBeginOnOpenPools
<1>1. IInv => TurnsBeginOnOpenPools
  BY DEF IInv
<1> QED BY <1>1, InvariantHolds, PTL

\* No agent is built on a connection whose token has expired.
THEOREM OnlyValidTokens == Spec => []NewAgentsHoldValidTokens
<1>1. IInv => NewAgentsHoldValidTokens
  BY DEF IInv
<1> QED BY <1>1, InvariantHolds, PTL

LEMMA InTableSize ==
  ASSUME NEW s \in Seq(Pools), NEW n \in Nat, n <= Len(s)
  PROVE  IsFiniteSet({s[i] : i \in 1..n}) /\ Cardinality({s[i] : i \in 1..n}) <= n
<1>1. PICK f, S : f = [i \in 1..n |-> s[i]] /\ S = {s[i] : i \in 1..n}
  OBVIOUS
<1>2. f \in Surjection(1..n, S)
  BY <1>1 DEF Surjection
<1>3. IsFiniteSet(1..n) /\ Cardinality(1..n) = n
  BY FS_Interval
<1>4. IsFiniteSet(S) /\ Cardinality(S) <= Cardinality(1..n)
  BY <1>2, <1>3, FS_Surjection
<1> QED BY <1>1, <1>3, <1>4

\* Nothing else can find a caller's connections, and there are no more of them than the
\* table is meant to hold, although the probe may put one pool too many into it.
THEOREM CallersAreBounded == Spec => []CallerPoolsAreBounded
<1>1. ASSUME IInv
      PROVE  CallerPoolsAreBounded
  <2>1. PICK n \in Nat : table \in Seq(Pools) /\ n = Len(table) /\ MaxPools \in Nat \ {0}
    BY <1>1, CapsAssumption DEF IInv, TypeOK
  <2>2. PICK m \in Nat : m = (IF n > MaxPools THEN MaxPools ELSE n) /\ m <= n /\ m <= MaxPools
    BY <2>1
  <2>3. PICK callers : callers = {p \in InTable : pool[p].key # Workload}
    OBVIOUS
  <2>4. callers \subseteq {table[i] : i \in 1..m}
    <3> SUFFICES ASSUME NEW p \in callers
                 PROVE  \E i \in 1..m : p = table[i]
      OBVIOUS
    <3>1. PICK i \in 1..n : p = table[i] /\ pool[table[i]].key # Workload
      BY <2>1, <2>3 DEF InTable
    <3>2. n > MaxPools => n = MaxPools + 1 /\ i # n
      BY <1>1, <2>1, <3>1 DEF IInv, TableInv
    <3>3. i \in 1..m
      BY <2>1, <2>2, <3>1, <3>2
    <3> QED BY <3>1, <3>3
  <2>5. IsFiniteSet({table[i] : i \in 1..m}) /\ Cardinality({table[i] : i \in 1..m}) <= m
    <3>1. PICK s : s = table
      OBVIOUS
    <3>2. IsFiniteSet({s[i] : i \in 1..m}) /\ Cardinality({s[i] : i \in 1..m}) <= m
      BY <2>1, <2>2, <3>1, InTableSize
    <3> QED BY <3>1, <3>2
  <2>6. PICK most : most = {table[i] : i \in 1..m}
    OBVIOUS
  <2>7. Cardinality(callers) <= Cardinality(most)
    BY <2>4, <2>5, <2>6, FS_Subset
  <2>8. Cardinality(callers) \in Nat /\ Cardinality(most) \in Nat
    BY <2>4, <2>5, <2>6, FS_Subset, FS_CardinalityType
  <2>9. Cardinality(callers) <= MaxPools
    BY <2>1, <2>2, <2>5, <2>6, <2>7, <2>8
  <2> QED BY <1>1, <2>3, <2>9 DEF IInv, CallerInv, CallerPoolsAreBounded
<1> QED BY <1>1, InvariantHolds, PTL

-----------------------------------------------------------------------------
(***************************************************************************)
(* AgentPools implements CallerIsolation.                                  *)
(***************************************************************************)

\* What a route could use again, as CallerIsolation sees it.
Kept == [route \in Routes |-> {contexts[route][i].req : i \in DOMAIN contexts[route]}]

LEMMA RefinesInit == Init => Isolation!Init
<1> SUFFICES ASSUME Init PROVE Isolation!Init
  OBVIOUS
<1>1. propagate \in BOOLEAN /\ contexts = [route \in Routes |-> <<>>] /\ turn = None
  BY DEF Init
<1>2. Kept = [route \in Routes |-> {}]
  BY <1>1 DEF Kept
<1> QED BY <1>1, <1>2 DEF Isolation!Init, Kept

\* An action that starts no turn and adds no entry forgets some, of one route at most.
LEMMA RefinesForget ==
  ASSUME TypeOK, TypeOK', NEW route \in Routes, UNCHANGED <<propagate, turn>>, NoNewEntries,
         \A other \in Routes \ {route} : contexts'[other] = contexts[other]
  PROVE  Isolation!Next
<1>1. Kept' = [Kept EXCEPT ![route] = Kept'[route]]
  BY DEF Kept
<1>2. Kept'[route] \subseteq Kept[route]
  <2> SUFFICES ASSUME NEW i \in DOMAIN contexts'[route]
               PROVE  \E j \in DOMAIN contexts[route] : contexts[route][j].req = contexts'[route][i].req
    BY DEF Kept
  <2>1. i \in 1..Len(contexts'[route])
    BY DEF TypeOK
  <2>2. PICK j \in 1..Len(contexts[route]) : contexts'[route][i] = contexts[route][j]
    BY <2>1 DEF NoNewEntries
  <2>3. j \in DOMAIN contexts[route]
    BY DEF TypeOK
  <2> QED BY <2>2, <2>3
<1>3. Isolation!Forget(route)
  BY <1>1, <1>2 DEF Isolation!Forget, Kept
<1> QED BY <1>3 DEF Isolation!Next

\* What a hit makes of the entries: the one found becomes the last.
AtEnd(s, i) == Append(RemoveAt(s, i), s[i])

LEMMA MovedToEnd ==
  ASSUME NEW S, NEW s \in Seq(S), NEW i \in 1..Len(s)
  PROVE  /\ AtEnd(s, i) \in Seq(S)
         /\ \A k \in 1..Len(AtEnd(s, i)) : \E j \in 1..Len(s) : AtEnd(s, i)[k] = s[j]
         /\ \A j \in 1..Len(s) : \E k \in 1..Len(AtEnd(s, i)) : AtEnd(s, i)[k] = s[j]
<1>0. PICK t : t = AtEnd(s, i)
  OBVIOUS
<1>1. PICK rest : rest = RemoveAt(s, i)
  OBVIOUS
<1>2. /\ rest \in Seq(S) /\ Len(rest) = Len(s) - 1
      /\ \A k \in 1..(Len(s) - 1) : rest[k] = IF k < i THEN s[k] ELSE s[k + 1]
  BY <1>1, RemoveAtProperties
<1>3. s[i] \in S
  OBVIOUS
<1>4. /\ t \in Seq(S) /\ Len(t) = Len(s) /\ t[Len(s)] = s[i]
      /\ \A k \in 1..(Len(s) - 1) : t[k] = rest[k]
  BY <1>0, <1>1, <1>2, <1>3 DEF AtEnd
<1>5. ASSUME NEW k \in 1..Len(t)
      PROVE  \E j \in 1..Len(s) : t[k] = s[j]
  <2>1. CASE k = Len(s)
    BY <1>4, <2>1
  <2>2. CASE k \in 1..(Len(s) - 1)
    BY <1>2, <1>4, <2>2
  <2> QED BY <1>4, <2>1, <2>2
<1>6. ASSUME NEW j \in 1..Len(s)
      PROVE  \E k \in 1..Len(t) : t[k] = s[j]
  <2>1. CASE j = i
    <3>1. Len(s) \in 1..Len(t)
      BY <1>4
    <3> QED BY <1>4, <2>1, <3>1
  <2>2. CASE j < i
    <3>1. j \in 1..(Len(s) - 1) /\ j \in 1..Len(t)
      BY <1>4, <2>2
    <3> QED BY <1>2, <1>4, <2>2, <3>1
  <2>3. CASE j > i
    <3>1. PICK k : k = j - 1
      OBVIOUS
    <3>2. k \in 1..(Len(s) - 1) /\ k \in 1..Len(t) /\ ~(k < i) /\ k + 1 = j
      BY <1>4, <2>3, <3>1
    <3> QED BY <1>2, <1>4, <3>2
  <2> QED BY <2>1, <2>2, <2>3
<1> QED BY <1>0, <1>4, <1>5, <1>6

\* A turn on a cached agent resumes what was kept for the same caller.
LEMMA RefinesHit ==
  ASSUME IInv, IInv', NEW route \in Routes, NEW r \in Requests, Hit(route, r)
  PROVE  Isolation!Next
<1>1. TypeOK /\ CacheInv /\ TypeOK' /\ UNCHANGED <<propagate, table, pool, job, probe, ready>>
  BY DEF IInv, Hit
<1>2. PICK i, entries, e :
        /\ i \in Matching(route, r)
        /\ entries = contexts[route] /\ e = entries[i]
        /\ contexts' = [contexts EXCEPT ![route] = Append(RemoveAt(@, i), e)]
        /\ turn' = Begun(r, e, FALSE, pool[e.agent])
  BY DEF Hit
<1>3. entries \in Seq(Entry) /\ i \in 1..Len(entries) /\ e \in Entry
  BY <1>1, <1>2 DEF TypeOK, Matching
<1>4. /\ e.key = CallerKey(r) /\ e.req.ctx = r.ctx
      /\ e.key = CallerKey(e.req) /\ ~NoIdentity(e.req) /\ pool[e.agent].key = Outbound(e.req)
  BY <1>1, <1>2, <1>3 DEF Matching, CacheInv
<1>5. e.req \in Requests
  BY <1>3 DEF Entry
<1>6. Isolation!SameCaller(r, e.req) /\ Outbound(r) = Outbound(e.req)
  BY <1>4, <1>5, KeysTellCallersApart
<1>7. PICK new : new = AtEnd(entries, i)
  OBVIOUS
<1>8. /\ new \in Seq(Entry)
      /\ \A k \in 1..Len(new) : \E j \in 1..Len(entries) : new[k] = entries[j]
      /\ \A j \in 1..Len(entries) : \E k \in 1..Len(new) : new[k] = entries[j]
  BY <1>3, <1>7, MovedToEnd
<1>9. contexts'[route] = new /\ \A other \in Routes \ {route} : contexts'[other] = contexts[other]
  BY <1>1, <1>2, <1>7 DEF TypeOK, AtEnd
<1>10. {new[k].req : k \in DOMAIN new} = {entries[j].req : j \in DOMAIN entries}
  <2>1. DOMAIN new = 1..Len(new) /\ DOMAIN entries = 1..Len(entries)
    BY <1>3, <1>8
  <2>2. ASSUME NEW k \in 1..Len(new)
        PROVE  new[k].req \in {entries[j].req : j \in 1..Len(entries)}
    <3>1. PICK j \in 1..Len(entries) : new[k] = entries[j]
      BY <1>8
    <3> QED BY <3>1
  <2>3. ASSUME NEW j \in 1..Len(entries)
        PROVE  entries[j].req \in {new[k].req : k \in 1..Len(new)}
    <3>1. PICK k \in 1..Len(new) : new[k] = entries[j]
      BY <1>8
    <3> QED BY <3>1
  <2> QED BY <2>1, <2>2, <2>3
<1>11. Kept' = Kept
  <2>1. Kept' = [other \in Routes |-> {contexts'[other][k].req : k \in DOMAIN contexts'[other]}]
    BY DEF Kept
  <2>2. Kept = [other \in Routes |-> {contexts[other][k].req : k \in DOMAIN contexts[other]}]
    BY DEF Kept
  <2>3. ASSUME NEW other \in Routes
        PROVE  {contexts'[other][k].req : k \in DOMAIN contexts'[other]} = {contexts[other][k].req : k \in DOMAIN contexts[other]}
    <3>1. CASE other = route
      <4>1. contexts'[other] = new /\ contexts[other] = entries
        BY <1>2, <1>9, <3>1
      <4> QED BY <1>10, <4>1, ZenonT(60)
    <3>2. CASE other # route
      BY <1>9, <3>2
    <3> QED BY <3>1, <3>2
  <2> QED BY <2>1, <2>2, <2>3
<1>12. e.req \in Kept[route]
  <2>1. i \in DOMAIN contexts[route] /\ contexts[route][i].req = e.req
    BY <1>2, <1>3
  <2> QED BY <2>1 DEF Kept
<1>13. turn'.by = r /\ turn'.for = e.req /\ turn'.cred = Outbound(r) /\ turn' # None /\ e.req.sub = r.sub
  <2>1. turn' \in Turn
    <3>1. pool[e.agent] \in Pool /\ e.req \in Requests /\ turn' = Begun(r, e, FALSE, pool[e.agent])
      BY <1>1, <1>2, <1>3 DEF TypeOK, Entry
    <3> QED BY <3>1 DEF Begun, Turn, Pool
  <2>2. turn'.by = r /\ turn'.for = e.req /\ turn'.cred = pool[e.agent].key
    BY <1>2 DEF Begun
  <2>3. e.req.sub = r.sub
    BY <1>6 DEF Isolation!SameCaller
  <2> QED BY <1>4, <1>6, <2>1, <2>2, <2>3, TurnAssumption
<1>14. Outbound(r) = Isolation!Credential(r) /\ Outbound(e.req) = Isolation!Credential(e.req)
  BY DEF Outbound, Isolation!Credential
<1>15. Isolation!Resume(route, r)
  BY <1>4, <1>6, <1>11, <1>12, <1>13, <1>14 DEF Isolation!Resume, Isolation!Served, Kept
<1> QED BY <1>1, <1>15 DEF Isolation!Next

\* A turn on a new agent begins one, and may keep it and drop others.
LEMMA RefinesFinish ==
  ASSUME IInv, IInv', Finish
  PROVE  Isolation!Next
<1>1. PICK p, e, settled, r, route :
        /\ p = job.pool /\ e = [key |-> CallerKey(job.req), req |-> job.req, agent |-> job.pool]
        /\ settled = Settled(p) /\ r = job.req /\ route = job.route
  OBVIOUS
<1>2. /\ TypeOK /\ JobInv /\ TypeOK' /\ propagate' = propagate /\ job.at # "idle"
      /\ contexts' = IF NoIdentity(job.req) THEN contexts
                     ELSE [contexts EXCEPT ![job.route] = Newest(Append(@, e), MaxAgents)]
      /\ turn' = Begun(r, e, TRUE, settled[p])
  BY <1>1 DEF IInv, Finish, JobInv
<1>3. route \in Routes /\ r \in Requests /\ p \in Pools /\ pool[p].key = Outbound(r)
  BY <1>1, <1>2 DEF JobInv
<1>4. /\ contexts' \in [Routes -> Seq(Entry)]
      /\ \A other \in Routes \ {route} : contexts'[other] = contexts[other]
      /\ \A k \in 1..Len(contexts'[route]) :
           \/ \E j \in 1..Len(contexts[route]) : contexts'[route][k] = contexts[route][j]
           \/ contexts'[route][k] = e /\ ~NoIdentity(r)
  BY <1>1, <1>2, <1>3, FinishCache
<1>5. turn'.by = r /\ turn'.for = r /\ turn'.cred = Outbound(r) /\ turn' # None
  <2>1. settled[p].key = pool[p].key
    <3>1. \A u \in Urls : ~Restarts(u)
      BY DEF Finish
    <3>2. p \notin Evicted(p) /\ Evicted(p) \subseteq InTable
      <4>1. PICK after, left : after = Inserted(p, pool[p].key) /\ left = Newest(after, MaxPools)
        OBVIOUS
      <4> QED BY <1>1, <1>2, <4>1, FinishTable
    <3> QED BY <1>1, <1>2, <1>3, <3>1, <3>2, SettledPools
  <2>2. turn'.by = r /\ turn'.for = r /\ turn'.cred = settled[p].key
    BY <1>1, <1>2 DEF Begun
  <2>3. turn' # None
    <3>1. turn' \in [by : {r}, for : {r}, cred : {turn'.cred}, built : {TRUE}, closed : {turn'.closed}, expired : {turn'.expired}]
      BY <1>1, <1>2 DEF Begun
    <3>2. turn' \in Turn \union {None}
      BY <1>2 DEF TypeOK
    <3>3. turn'.cred \in Credentials /\ turn'.closed \in BOOLEAN /\ turn'.expired \in BOOLEAN
      <4>1. settled[p] \in Pool
        <5>1. \A u \in Urls : ~Restarts(u)
          BY DEF Finish
        <5>2. p \notin Evicted(p) /\ Evicted(p) \subseteq InTable
          <6>1. PICK after, left : after = Inserted(p, pool[p].key) /\ left = Newest(after, MaxPools)
            OBVIOUS
          <6> QED BY <1>1, <1>2, <6>1, FinishTable
        <5> QED BY <1>1, <1>2, <1>3, <5>1, <5>2, SettledPools
      <4> QED BY <1>2, <4>1 DEF Begun, Pool
    <3> QED BY <1>3, <3>1, <3>3, TurnAssumption DEF Turn
  <2> QED BY <1>3, <2>1, <2>2, <2>3
<1>6. PICK left, more : left = Kept'[route] \intersect Kept[route] /\ more = Kept'[route] \ Kept[route]
  OBVIOUS
<1>7. more \subseteq {s \in {r} : Isolation!Identified(s)}
  <2> SUFFICES ASSUME NEW k \in DOMAIN contexts'[route], contexts'[route][k].req \notin Kept[route]
               PROVE  contexts'[route][k].req = r /\ Isolation!Identified(r)
    BY <1>3, <1>6 DEF Kept
  <2>1. k \in 1..Len(contexts'[route])
    BY <1>3, <1>4
  <2>2. CASE contexts'[route][k] = e /\ ~NoIdentity(r)
    BY <1>1, <2>2 DEF NoIdentity, Isolation!Identified
  <2>3. CASE \E j \in 1..Len(contexts[route]) : contexts'[route][k] = contexts[route][j]
    <3>1. PICK j \in 1..Len(contexts[route]) : contexts'[route][k] = contexts[route][j]
      BY <2>3
    <3>2. j \in DOMAIN contexts[route]
      BY <1>2, <1>3 DEF TypeOK
    <3>3. contexts'[route][k].req \in Kept[route]
      BY <1>3, <3>1, <3>2 DEF Kept
    <3> QED BY <3>3
  <2> QED BY <1>4, <2>1, <2>2, <2>3
<1>8. left \in SUBSET Kept[route] /\ Kept' = [Kept EXCEPT ![route] = left \union more]
  <2>1. Kept'[route] = left \union more
    BY <1>6
  <2>2. \A other \in Routes \ {route} : Kept'[other] = Kept[other]
    BY <1>4 DEF Kept
  <2>3. Kept' = [other \in Routes |-> Kept'[other]] /\ Kept = [other \in Routes |-> Kept[other]]
    BY DEF Kept
  <2> QED BY <1>3, <1>6, <2>1, <2>2, <2>3
<1>9. Outbound(r) = Isolation!Credential(r)
  BY DEF Outbound, Isolation!Credential
<1>10. Isolation!Begin(route, r)
  <2>1. [by |-> turn'.by, for |-> turn'.for, cred |-> turn'.cred, memory |-> turn'.for.sub] = Isolation!Served(r, r)
    BY <1>5, <1>9 DEF Isolation!Served
  <2> QED BY <1>5, <1>7, <1>8, <2>1 DEF Isolation!Begin, Kept
<1> QED BY <1>2, <1>3, <1>10 DEF Isolation!Next

\* A miss forgets at most one entry, of the request's own route.
LEMMA RefinesMiss ==
  ASSUME TypeOK, TypeOK', NEW route \in Routes, NEW r \in Requests, Missed(route, r),
         UNCHANGED <<propagate, turn>>
  PROVE  Isolation!Next
<1>1. NoNewEntries
  BY MissedShrinks
<1>2. \A other \in Routes \ {route} : contexts'[other] = contexts[other]
  BY DEF Missed, TypeOK
<1> QED BY <1>1, <1>2, RefinesForget

\* Everything else the event loop, the probe and the clock do is invisible to callers.
LEMMA RefinesStutter ==
  ASSUME UNCHANGED <<propagate, contexts, turn>>
  PROVE  UNCHANGED Isolation!vars
BY DEF Isolation!vars

LEMMA RefinesNext ==
  ASSUME IInv, IInv', [Next]_vars
  PROVE  [Isolation!Next]_(Isolation!vars)
<1>1. TypeOK /\ TypeOK'
  BY DEF IInv
<1>2. ASSUME NEW route \in Routes, NEW r \in Requests, Hit(route, r)
      PROVE  Isolation!Next
  BY <1>2, RefinesHit
<1>3. ASSUME NEW route \in Routes, NEW r \in Requests,
             MemoryFails(route, r) \/ OpenPool(route, r) \/ TakePool(route, r)
      PROVE  Isolation!Next
  <2>1. Missed(route, r) /\ UNCHANGED <<propagate, turn>>
    BY <1>3 DEF MemoryFails, OpenPool, TakePool
  <2> QED BY <1>1, <2>1, RefinesMiss
<1>4. CASE Finish
  BY <1>4, RefinesFinish
<1>5. CASE OpenConnects \/ OpenFails \/ Recycles
  <2>1. UNCHANGED <<propagate, contexts, turn>>
    BY <1>5 DEF OpenConnects, OpenFails, Recycles
  <2> QED BY <2>1, RefinesStutter
<1>6. CASE ProbeThread
  <2>1. UNCHANGED <<propagate, contexts, turn>>
    BY <1>6 DEF ProbeThread, ProbeLooks, ProbeInserts, ProbeConnects, ProbeFails, ProbeAnswers
  <2> QED BY <2>1, RefinesStutter
<1>7. CASE Tick \/ UNCHANGED vars
  <2>1. UNCHANGED <<propagate, contexts, turn>>
    BY <1>7 DEF Tick, vars
  <2> QED BY <2>1, RefinesStutter
<1> QED BY <1>2, <1>3, <1>4, <1>5, <1>6, <1>7 DEF Next, EventLoop

\* Whatever is cached, evicted, recycled or raced by the probe, every turn is served by
\* an agent built for the caller and the conversation it is served to, with that
\* caller's memory and over connections opened with that caller's credential.
THEOREM CallersAreIsolated == Spec => CallersIsolated
<1>1. Init => Isolation!Init
  BY RefinesInit
<1>2. IInv /\ IInv' /\ [Next]_vars => [Isolation!Next]_(Isolation!vars)
  BY RefinesNext
<1> QED BY <1>1, <1>2, InvariantHolds, PTL DEF Spec, CallersIsolated, Isolation!Spec
=============================================================================
