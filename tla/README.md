# A TLA+ verification project for open-agentic-platform

The repository is a platform for running AI agents on Kubernetes: two MCP servers
that lend AgentCore browsers and code interpreters to agents, an agent runtime, an
evaluation service that reconciles rules in a shared Langfuse project, a "dark
factory" that turns GitHub issues into merged pull requests, and the charts and
definitions that deploy them. This directory holds TLA+ models of the parts that
have state and concurrency of their own, the TLC runs that check them on small
instances, and TLAPS proofs of what matters most for every size.

Files: `X.tla` is the model of a component, `XProofs.tla` its theorems,
`MCX.tla` with the `.cfg` files its TLC instances. `PROJECT.json` lists the components, the
runs, for every definition the source lines it translates, for every property a
plausible bug (a mutant operator in the module) that breaks it, the hazards of the
code, the findings and the theorems.

Check a run with `tlc -config BrowserServer.cfg MCBrowserServer.tla`, a proof with
`tlapm BrowserSessionProofs.tla`.

## 1. Inventory

### browser-mcp (`src/applications/browser-mcp/src`): modelled

* **Browser sessions and limiter** (`session.js`, `makeLimiter` of `server.js`).
  *State*: per MCP session the attached chrome-devtools-mcp child, the AgentCore
  session id, the pending activation promise, closed / holdsSlot / tearingDown
  flags, an idle and a TTL timer; one counter of live browsers per pod.
  *Operations*: callTool, activate (acquire a slot, StartBrowserSession, sign, connect
  a child), deactivate (close the child, StopBrowserSession, release the slot), close,
  the child's onclose, the timers.
  *Interactions*: calls to AWS, a child process over stdio, the shared counter.
  *Hard*: a single-threaded event loop whose handlers interleave at every await;
  close, timers and child death run under an activation or another teardown.
  *Correct when*: one browser per session, none leaked, none without a timer, no id
  stopped twice, slots balanced.
* **Server** (`server.js`). *State*: the table of sessions, initState, shuttingDown.
  *Operations*: initialize / call / DELETE requests, the reaper of abandoned sessions,
  the background initialisation loop, SIGTERM. *Correct when*: a session leaves the
  table exactly when it is closed; shutdown ends, and releases what was attached.
* **AWS client, catalogue, configuration** (`agentcore.js`, `catalog.js`, `config.js`):
  I/O and data; modelled only as the answers the sessions see.

### code-interpreter-mcp (`src/applications/code-interpreter-mcp/src`): modelled

* **Interpreter sessions, tasks and limiter** (`session.js`, `makeLimiter` of `server.js`).
  *State*: as browser-mcp without the child, and per session the set of background tasks
  (`openTasks`) that suspends the idle timer. *Operations*: callTool, trackTasks,
  activate, deactivate, close, the timers. *Hard*: a timer armed by an earlier call fires
  under a long one; an answer arrives after its session was replaced; the defensive branch of
  `deactivate('idle')` would lose the TTL timer. *Correct when*: no running task is evicted, no
  session outlives its TTL, slots balanced.
* **Server** (`server.js`). As in browser-mcp, but shutdown leaves the sessions in the table and
  exits when the HTTP server has closed or ten seconds later.
* **AWS client, tools, configuration** (`agentcore.js`, `tools.js`, `config.js`): I/O and data;
  modelled only as the answers the sessions see.

### agent-evaluation (`src/applications/agent-evaluation/app`): modelled

One image, run in every cluster (rules loop and metrics loop) and once as the hub (project loop too). The
loops are threads of one process that share only `ClusterLoop.last_plan`, the gauges and the readiness flags.

* **Cluster loop** (`cluster_loop.py`, `naming.py`, `declarations.py`,
  `langfuse_client.py`). *State*: the declared agents, the rules of ONE Langfuse project
  that all clusters share, the last plan. *Operations*: plan, then create, update and
  delete rules one call at a time. *Hard*: no transactions, other clusters write
  meanwhile, each call may fail, be applied with its answer lost, or be applied late; the pod
  is killed between calls. *Correct when*: a cluster touches only its own rules; an empty evaluator
  catalogue deletes nothing; stable declarations converge.
* **Project loop** (`project_loop.py`). *State*: the catalogue the pod was deployed with, the evaluators and
  the judge connection in Langfuse. *Operations*: upsert the connection, list the evaluators page by page,
  create or replace those that differ. *Hard*: as above, and Langfuse pauses evaluators and lets two share a
  name. *Correct when*: no duplicates, no versions without a reason, users' evaluators untouched, "ready"
  only if the catalogue is published, and in the end it is.
* **Metrics loop, gauges, readiness** (`metrics_loop.py`, `metrics.py`, `main.py`). *State*: the last plan, the
  scores in Langfuse, the gauges. *Operations*: counts asked for in chunks, by several threads,
  while scores arrive; then the gauges are replaced series by series while Prometheus scrapes
  from another thread. *Correct when*: counts are of real scores, nobody is forgotten between queries, a
  gauge never mixes two passes.
* **Configuration and Kubernetes events** (`config.py`, `events.py`): data and I/O.

### strands-agent-base (`src/applications/strands-agent-base/app`): modelled

* **MCP pools and agent caches** (`agent.py`, `identity.py`). *State*: pools of MCP connections per caller
  credential, agents per conversation, both LRU. *Operations*: serve a turn from the cache; on a miss open, reuse or
  recycle a pool, evict others, build the agent; the readiness probe connects what is missing. *Hard*: the
  probe runs in another thread while the event loop has a pool out of the table; eviction of what is
  in use; tokens expire. *Correct when*: no agent of one caller serves another, no turn begins on stopped connections,
  callers' connections are bounded, readiness recovers.
* **A2A server and task isolation** (`main.py`, `a2a_isolation.py`): the routes, the executor's own cache
  of contexts, who may see a task.

### agent-sandbox Lambda shim (`agent-sandbox-lambda` chart, `coder-microvm/hook-server.js`): partly

The hook server starts a coder for each `/run` that is neither a duplicate nor too early; it is part of DarkFactory. The
bridge (one pod per claim) and the lifecycle controller (a polling loop), coordinated with it by the
Sandbox's `operatingMode` and two annotations, are not modelled: shell loops in Helm templates,
around kubectl and a MicroVM service that holds nearly all the state. *Hard*: suspend and resume requests whose failure
is ignored before the mode is stamped as done; a fix round racing the suspend.

### dark-factory (`src/gitops/addons/charts/dark-factory`, `src/examples/dark-factory`): partly

* **Issue runs, iteration and coder** (Argo workflows 20, 22, 23, sensor 42, `iterate.js`,
  `entrypoint.js`). *State*: the runs of an issue and the steps they are at, the coder in its Kata VM or MicroVM, the
  branch, an iteration label. *Operations*: take the mutex, start a coder, wait for its commit, verify, post a verdict, submit
  another round. *Hard*: a run ends at a deadline and its coder does not; rounds
  come from people's comments and from failed verdicts, counted in a label; nobody holds a lock across two
  requests. *Correct when*: one coder writes the branch at a time and builds on it, a round verifies its
  own commit, every request gets a round up to the cap, every run ends.
* **Checks, merge gate, teardown** (`merge.js`, `security-wait.js`, `status.js`, workflow 21,
  reaper 60, `holdout/evaluate.js`). *State*: statuses, checks and reviews of each commit. *Hard*: verdicts arrive minutes
  after the head they are about was read. *Correct when*: a verdict is of the commit it is posted on, and only a
  verified commit is merged.

### Declarative parts, not modelled

* The other **agent-sandbox charts**, **OAM component definitions** (CUE rendered by KubeVela) and
  **GitOps bootstrap and shared services** (Argo CD applications, Helm values of Langfuse,
  Bifrost, LiteLLM, gateways, Crossplane): declarative configuration, whose controllers are external.
* Examples, scripts and documentation.

## 2. Plan

Order: by how much concurrent state a component has, and how much its failures cost.

| # | modules | composes | abstract specification | runs | theorems |
|---|---------|----------|------------------------|------|----------|
| 1 | BrowserSession | n sessions, limiter, AWS, child | | cap, idle slots (violations) | all safety invariants |
| 2 | BrowserServer | BrowserSession | BrowserSession | server: safety and liveness of both; exit (violation) | refinement, release before exit |
| 3 | InterpreterSession, InterpreterServer | n sessions, limiter, calls, tasks, AWS | | safety and liveness; eviction (violation) | slots, timers, tasks |
| 4 | EvaluationRules | n clusters, one Langfuse | a shared set of rules, each changed by its owner only (an action property) | faults, restarts and convergence; duplicates (violation) | ownership, deletions, applied plans |
| 5 | CallerIsolation, AgentPools | event loop, probe, clock | CallerIsolation | safety, isolation and liveness | refinement, all safety invariants |
| 6 | ProjectLoop | hub pods, Langfuse | | hub (with 7), liveness | all safety invariants |
| 7 | EvaluationMetrics | passes, query threads, scraper | | hub | counts, gauges |
| 8 | DarkFactory | runs, coders, bots, people, GitHub | | four worlds; unchecked merge (violation) | all safety properties but the one that fails |

All of it exists: twelve runs, six that pass and six that exhibit a violation. What a continuation would take up next: the
MicroVM's suspend and resume, whose service would have to be modelled with them, and the Kubernetes credentials and
readiness flags of agent-evaluation's `main.py`.

## 3. BrowserSession

One action is the code between two awaits. A *generation* is one run of `#activate`: the
AgentCore session it starts (AWS never reuses an id), the child attached to it and its
coroutine; `phase[g]` is where that coroutine is suspended.

| variable | code |
|----------|------|
| `client`, `browserSessionId`, `activating`, `closed`, `holdsSlot`, `tearingDown` | fields of `BrowserSession` (`transport` changes with `client`) |
| `idleTimer`, `ttlTimer` | whether the timer is armed; the model has no clock: an armed timer may fire at any time |
| `live` | the counter closed over by `makeLimiter` |
| `closing`, `stopping` | suspended `await client.close()` and `await stopSession()` |
| `aws`, `child`, `stopSent` | outside world; `stopSent` is the history of stop requests |

`DeactivateAll` and its parts take a set of sessions because `shutdown()` tears all of them down in
one synchronous loop; every other caller passes one. `#releaseSlot` appears with
both its guards. `ChildExits` keeps the code's use of the session's flags rather than the child's.
Tool calls are abstracted to what they do to the session (activate, or re-arm the idle
timer); errors are logged and swallowed in the code exactly where a step leaves the state alone.

Checked by **browser_server** (section 4), and proved:

* `SlotAccounting`: the counter covers the held slots and stays within the cap.
* `SingleFlight`: at most one activation in flight per session, none while attached.
* `TimersGuardTheBrowser`: attached exactly while the TTL timer is armed; no idle timer survives.
* `StoppedOnce`: no id is sent to StopBrowserSession twice.
* `FailedAttachIsStopped`: a failed attach never leaks the session it started.

Two sessions are the least that share the limiter, and every race between overlapping generations of a session
needs two of them. The runs of the violations have three. Types (`TypeOK`, among them that `live` never goes
negative) are proved, here as in the other modules with proofs.

Two runs look for what a comment says and the code does not do, and find it:

* **browser_cap**: "Caps concurrent LIVE browser sessions" (server.js:38). A close, or a dying
  child, under an activation that still awaits `startSession` gives back its slot (there is no id
  to stop, so `#stopBrowserSession` releases at once) and the browser then attaches without
  one. Two browsers attach under a cap of one.
* **browser_idle_slots**: "idle MCP sessions cost nothing" (session.js:53). A call that activates
  while the previous `stopSession` is awaited acquires again under one `holdsSlot` flag; only one
  of the two acquisitions is released. The pod's capacity shrinks by one for good.

So `SlotAccounting` is as strong as the code allows: held slots are counted, the converse fails.

## 4. BrowserServer

Extends BrowserSession with the session table (`entry`), the initialisation gate (`ready`),
`shuttingDown`, what the shutdown awaits (`awaitedCloses`, `awaitedStops`) and `exited`. It drives the
sessions only through their own actions. DELETE, transport close and the reaper are
one action, `Teardown`, since the reaper's age test only chooses when. The exit is part of the step that
settles the last awaited teardown (it runs in the same microtasks), or of `Shutdown` itself
when there is nothing to await. After the exit only AWS moves.

**browser_server** (two sessions, two generations, cap 2, fair specification) checks, besides the sessions' invariants:

* `AttachedReleasedBeforeExit`: a browser attached at the signal has been sent to be stopped before the exit.
* `UnregisteredIsClosed`: a session is out of the table exactly when it is closed.
* `SessionsImplemented`: ServerSpec implements BrowserSession's Spec.
* `ShutdownExits`, `ClosedComesToRest`, `DeadChildIsReleased`: liveness.

**browser_exit** refutes "All live sessions released before exit" (DESIGN.md:192) and "do not leak
sessions" (DESIGN.md:50): shutdown awaits `close()`, which does nothing for an activation
that still awaits `startSession`.

*Fairness.* While the process runs: an armed TTL timer fires, a request to AWS is answered or
fails (the SDK times out), an attach succeeds or fails, a child whose close was
called dies (the SDK kills it), and settled promises resume the code awaiting them. Nothing
is assumed of callers, of idleness, of a child nobody closes, or of AWS's own TTL.

## 5. InterpreterSession and InterpreterServer

The same conventions. New are the tool calls: a call is a coroutine of its own, `caller[c]` the session it
runs on, `tool[c]` what `#trackTasks` tells apart (the tool that starts a task, one that polls it,
any other), `target[c]` the generation it invokes, `None` while it awaits an activation, and
`subject[c]` the task it has started or polls.

| variable | code |
|----------|------|
| `sessionId`, `activating`, `closed`, `holdsSlot`, `openTasks`, timers, `live` | fields of `InterpreterSession`, the limiter's counter |
| `caller`, `tool`, `target`, `subject` | a `callTool` suspended at `await this.#activate()` or `await invoke` |
| `stopping`, `awaited` | suspended `await stopSession()`, and those of them shutdown awaits |
| `taskIn`, `taskDone`, `aws` | outside world: where a command runs, whether it is over |
| `reported` | history: tasks whose start was answered to this process |

`StartReturns` resumes every call that waits on the activation in the same step, since their
continuations run in the same microtasks. `IdleFires` keeps the early return of
`deactivate('idle')`, which clears both timers and re-arms neither, although the proof shows that it
is dead. `CallEnds` is every end of a call that tells `#trackTasks` nothing: another tool, an
error, a lost answer. After the signal the model allows calls up to the exit, as the open listener does.

**interpreter** (one session, two generations, two calls, one task, cap 2, fair specification):

* `SlotAccounting`, as for browsers.
* `TtlGuardsSession`: a session is in use exactly while its TTL timer is armed.
* `TasksSuspendIdleTimer`: no idle timer runs while a task is open, in whatever order
  overlapping calls end.
* `ReportedTasksTracked`: a running task whose start was answered is open as long as its session
  is the one in use.
* `SessionsAreReleased`, `ClosedComesToRest`, `ShutdownExits`: liveness.

Two calls and two overlapping generations are what the races take: a poll that ends under a start, a
stop awaited under a new activation. A cap of two lets that activation acquire its second
slot. Sessions interact only through the limiter; `SlotAccounting` is proved for any number of them.

**interpreter_tasks** refutes "idle eviction must NOT tear down a session that has a background task
running" (test/task-eviction.js:1). A task is tracked only when its start is answered, and the idle timer
is reset only when a call ends: a timer armed by an earlier call stops the session under a command
that already runs, and so it does when the answer is lost. `ReportedTasksTracked` is what remains true.

*Fairness.* While the process runs: an armed TTL timer fires, StartCodeInterpreterSession and
StopCodeInterpreterSession are answered or fail, and the process exits once nothing is awaited
(`httpServer.close`, or the ten-second timeout). Callers, idleness and tool calls owe
nothing: a call that never ends holds back nothing but the idle timer.

## 6. EvaluationRules

Several clusters run `ClusterLoop.run_once` over one Langfuse project. A *group* is an
(evaluator, judge, sampling) combination, numbered in the order of the rules' names; a rule is its owner
token, its group and its tags, since everything else in a payload follows from the group. An agent whose
declaration is malformed or unknown to the catalogue counts as not asking.

| variable | code |
|----------|------|
| `wish`, `published`, `rules` | the agents' ConfigMaps, the hub's evaluators, the rules in Langfuse by id |
| `at` | before the reads, before the listing, or among the requests of `run_once` |
| `asked`, `plan` | `declarations`, `plan.groups` (`{}` for a group without one) |
| `listed` | `mine`: id and tags of the own rule of a name, without id once created by this pass |
| `room` | `max_active_rules - others - len(mine)` |
| `todo` | what is left of the loops over `desired` and over `mine` |
| `late` | a request nobody waits for any more, at most one per cluster |
| `calm` | history: the pass listed the rules with no request of an earlier one under way |

A step of a pass picks the next group and sends the request for it; the thread then waits, so an answered
request is one action, and its failures are: refused (cap, unknown id), never arrived, executed with
the answer lost, or still under way. The declarations and the catalogue are read in one step: only the pass
reads the declarations of its cluster, so a change between the two reads is one after both. A read that
fails, or a catalogue found empty, ends the pass without effect. Langfuse enforces the same cap the
setting names, and rules people make in its UI do not count. An id is reused only when no process and no request
remembers it.

**evaluation_rules** (two clusters, two groups with an evaluator each, cap 3, one failure anywhere,
two changes of declarations, fair specification):

* `OthersUntouched`: no step of a cluster, nor a late request of its, changes a rule of another.
* `DeletionsAreMeant`: a rule is up for deletion only if no agent asked for its group when the
  pass read them, also when the catalogue reads as empty.
* `PassesApplyTheirPlan`: a pass without errors leaves every group it has dealt with as planned, though its
  listing is as old as the pass.
* `EventuallyCovered`: when changes and failures end, a group asked for has its rule with the right
  agents, and one not asked for has none.

Two clusters are the least that share a project; one of them moves an agent between two groups and
into a shared rule, the other keeps one rule, so that creates, updates, deletes and the cap all happen. One failure is
one lost, delayed or half-answered request, one restart, or one empty reading, at any point. A second failure
multiplies the states; the proofs of the safety properties bound nothing.

**evaluation_duplicates** refutes "one rule per group" (cluster_loop.py:10): a create that a killed pod had sent, or that
timed out, is executed after the next pass has listed the rules and created its own. `mine` keeps one rule
per name, so the other is never updated nor deleted while the group is wanted: its agents are judged
twice and it takes a slot of the cap. `EventuallyCovered` is what remains true.

*Fairness.* Every cluster's loop keeps taking steps (`_run_loop` survives any exception, a killed pod is
replaced). A late request need never arrive, an evaluator never be published.

## 7. AgentPools and CallerIsolation

`CallerIsolation` is what the runtime promises its callers, without pools, caches, recency or keys: a turn is
served by an agent built for the same caller in the same conversation, over connections opened
with the credential this request may use (its own token if tokens are propagated and there is one,
otherwise the workload's). Anything may be forgotten at any time. `AgentPools` is the code.

| variable | code |
|----------|------|
| `propagate` | `PROPAGATE_CALLER_TOKEN`, chosen once |
| `table`, `pool` | `_pools` in its order, and the `McpPool` objects: open clients, servers known as connected, `connected_at` as an age, and for each connection the age of the token it presents |
| `contexts` | the LRU caches: `_agents` of `/chat`, `_contexts` of the A2A executor |
| `job` | the request the event loop builds an agent for, with the pool it took out of the table |
| `probe`, `ready` | `mcp_readiness` in its worker thread, what `/ready` answered |
| `turn` | history: the last turn begun, the agent that serves it and the state of that agent's pool then |

A step is what a thread does between two calls that leave the process, so `_get_mcp_pool` is `OpenPool` or
`TakePool`, one step per server tried, and `Finish`; the readiness probe is `ProbeLooks`, `ProbeInserts`, one step per
server, `ProbeAnswers`. Building is synchronous code inside a coroutine, so the event loop does nothing else meanwhile, but the
probe does. `Finish` holds what no other thread sees in between: reinsertion, eviction with `_close`,
the agent, its cache and the turn. `Collected` is Python's garbage collection: an id of a pool nobody refers to is
used again. Eviction of a pool that cached agents hold is allowed, as in the code; `Stale` is why that is harmless.

**agent_pools** (four requests: one caller before and after a token refresh, another in the same conversation, one without
identity; one server, four pools, caps of one; fair specification):

* `CallersIsolated`: AgentPools implements CallerIsolation. Two callers with one conversation id, a refreshed
  token, a caller who takes over a token, and the anonymous requests are the cases.
* `TurnsBeginOnOpenPools`: no turn begins on connections that eviction has stopped.
* `CallerPoolsAreBounded`: every open connection of a caller can still be found to be closed, and callers' pools
  stay within `MCP_MAX_POOLS`.
* `NewAgentsHoldValidTokens`: no agent is built on an expired connection, whatever restarts fail and whatever
  the probe connects meanwhile.
* `EventuallyReady`: once connections stop failing the pod answers ready again and again.

Caps of one make every second request evict; the fourth pool is what lets the event loop and the probe each hold one
outside the table. The cfg takes one of the two routes: the caches share nothing but the pools, and the theorems
are for any set of routes.

*Fairness.* The kubelet goes on probing and a probe that has started goes on; a build that has started
goes on (each attempt succeeds or times out). Callers, the clock and evictions owe nothing.

## 8. ProjectLoop and EvaluationMetrics

**ProjectLoop.** An evaluator is its name, whether it is on the loop's own connection (`_looks_like_ours`), its definition
(everything `_differs` compares but the pause), its pause and the number of its versions. A step is one answered
request. A failed write was refused, never arrived, or is executed later (`lateWrite`), perhaps for the next pod: the
same write answered late or applied with its answer lost is one case, since the loop never looks at the
answer of a create again. `calm` is history: nothing but this pass changed Langfuse since it began.

**EvaluationMetrics.** `pass` holds the locals of `run_once`: the plan it took, the window, the queries still
to be answered, counts so far, rows. `stored` is what Langfuse has; a query grouped by tag array returns one row per
array, of which the code keeps the one read last (`Answers`). Queries of passed counts run in any order
(`_run_passed_queries` uses a pool of threads). Publishing is one step per cleared gauge and per
series set, because a scrape may read between any two. `begun` and `last` are history.

The two loops share no variable (the hub's plan is the rules loop's, which EvaluationRules models), so
**evaluation_hub** checks each beside the other standing still: a behaviour of MCEvaluationHub is one of
either loop. That halves the states without hiding a race, as there is none between them.

* `DuplicatesComeFromLostWrites`: a name has at most one evaluator of the loop's own, and one more for each
  create that was given up and executed.
* `VersionsHaveCauses`: an evaluator gets a new version only for a change of the chart, a pause, or a late write (which
  may put an old definition back, hence twice); those of users never.
* `SuccessMeansPublished`: a pass that ends without an error and was not interfered with leaves connection and
  catalogue as the chart says, so readiness is right.
* `EventuallyPublished`: when failures end, the catalogue is published and the pod ready, for good.
* `CountsAreReal`: no published count exceeds the scores that exist, passed is at most scored, and of an
  agent with one tag array nothing is missed that was there when the pass began.
* `GaugesShowOnePass`: a gauge shows series of one pass only; while nothing is being published the four agree, and
  nothing stays of an agent that is gone.

Bounds: two names, two catalogues that change one judge and drop the other name, a user's evaluator with a name of
the catalogue, pages of one; one restart, one pause, one late write, each at any point. Two agents in two chunks of one group,
one of them with another threshold in another plan, three traces over two windows and two tag arrays. The proofs bound none of it.

*Fairness.* The project loop's thread goes on, a request is answered or given up after its timeout, and when no request
fails the next step is taken (`Progress`). Late writes need never arrive, nor pauses end. The metrics loop has no liveness property: it
may fail in every pass.

## 9. DarkFactory

One issue, from its first run to the merge of its pull request. What the parties share is GitHub, so the state is GitHub's, and
each step is what one party does between two requests that matter.

| state | code |
|-------|------|
| `head`, `commits` | `df/issue-<n>` and the commits made for it: who made each, on what, and the statuses, checks, reviews and verdicts on it |
| `timely` | commits whose bot verdict passes `afterAck` (security-wait.js:104) |
| `wf` | a df-run or df-run-lambda workflow: queued for its mutex, started, driven, awaiting, verifying, posting |
| `coder`, `tree` | entrypoint.js of each run, between its requests; the checkout left in the MicroVM |
| `labels`, `reviser` | `df-iterations/<n>`; iterate.js of each comment, with what it read |
| `approved`, `answered`, `merge` | the df-merge workflows and what merge.js has read |

A commit is a record: its `defects` are the gates it deserves to fail, so that what is posted can be held against what is
true. The bots are external and only honest: they answer in their own time, or never, and say what is so. How a
holdout is scored, what a finding says and how a note is encoded is data.

What an issue meets is its `world`, chosen at the start: the substrate, the number of comments, the defects commits may have,
what the security bot posts, and the faults. **factory** checks four of them in one run, with up to two fix rounds:

| world | what it is for |
|-------|----------------|
| `MCVerdicts` | a MicroVM issue, one comment, commits that deserve to fail the holdout or the security review; deadlines, failing coders, a lost VM, security waits that time out |
| `MCForms` | the same bot acknowledging first and answering with a review or a clean comment; DevOps gates that time out |
| `MCKata` | two comments on Kata; deadlines, failing coders and coders that find nothing to change |
| `MCLambda` | two comments in a MicroVM; coders that outlive their runs, a lost VM, a security wait that fails |

* `SingleWriter`: one coder at a time is still going to push. On Kata the two mutex names do not matter, since a fix
  round needs a pull request, which the first coder opens after its push, and the claim is
  deleted when a run ends. In the MicroVM nothing is deleted; the hook server's flag does it.
* `PushesKeepTheBranch`: a force-push never takes another round's commit off the branch.
* `FixRoundsVerifyTheirOwnCommit`: on Kata, a round never goes on with a commit of another round's coder.
* `VerdictsMirrorTheirHead`: `dark-factory/security` on a commit is the bot's verdict on that commit, where
  `AnswersFindTheirHead`. The rounds run one after the other there, which is why it holds although the status is posted on whatever the head is then.
* `ClearVerdictsAreOfTheirHead`: under the same condition, an all-clear tagged with a commit is not an older commit's, unless a gate ended
  in an error or a timeout that posts nothing.
* `UnmovedMergesAreSound`: unless the head moves after the gate, a merged commit deserves none of the failures; outside that condition
  none but the security review's.

The conditions are where the code keeps the properties; what happens outside is in section 11. `AnswersFindTheirHead` is exact for single faults: it asks
for a MicroVM, since the first Kata run and a fix round may overlap, and, of a bot that may answer with a comment (which names no commit), that
every run ends with its bot's answer. Any one of a deadline, a failing coder, and a security wait that times out or fails makes TLC find
a comment that clears another commit; a lost VM, a coder with nothing to change and a DevOps timeout do not.

**factory_merge** refutes that `merge.js` re-checks every status before merging (docs/dark-factory/README.md:633): a push
between the gate and `PUT merge`, which names no sha, is merged unchecked. `UnmovedMergesAreSound` is what remains true.

*Bounds.* One fix round gives two coders' worth of pushes, waits and approvals in every order. Two comments make two rounds;
a third would add nothing, since the mutex admits one run besides the first. Their two worlds leave verdicts out (no bot reviews,
so nothing is merged) and stop at an approval (`MCUnapproved`): what they are for happens to the branch before a merge. Comments are
numbered in the order they are written.

No fairness: whether runs end is a matter of `activeDeadlineSeconds`.

*Left out.* A run that starts after the merge ends at once, and a merge takes the VMs with it in one step. The coder reports and exits in one
step. A clone is taken when the VM is driven. Suspending the VM is left out: it happens after the coder's report. Notes of different rounds
differ (FLOW-D-ENABLEMENT.md:345 asks for that), else the hook server takes them for duplicates. Auto-fix rounds are left out: the chart ships
with `autoFixFindings: false`, because of collisions with comments (values.yaml:190). The DevOps bot's inline reviews, deploy-test,
`gate: label`, `holdout.blocking`, people's own pushes and the reaper are not modelled.

## 10. Proofs

Assumptions (named in BrowserSession): `Sessions` is finite, `None` is neither a session nor
a generation, `MaxSessions` is a natural number, `IdleEviction` is Boolean. `Generations` may be infinite.

None of the invariants is inductive alone. `SlotAccounting` needs types; `StoppedOnce` and
`FailedAttachIsStopped` need to know which coroutine may still touch which id. `Wired` says that: a
client and an id belong to the session they are found at and to a generation that has got so far
(`ClientsWired`, `IdsWired`), coroutines work only on generations that got so far (`CoroutinesWired`),
and while an attach runs its id is remembered or has been sent to be stopped
(`AttachingRemembered`). `IInv` is the conjunction of types, wiring and the invariants; `Invariance` is
`Spec => []IInv`, with a lemma per action, and the listed theorems are its corollaries.

In BrowserServerProofs, `ServerImplementsSessions` shows that each server step is a session step or a
stutter, which lifts `IInv` to the server. `AttachedAreReleased` adds `AttachedRemembered` (the id of
an attached browser is forgotten only by sending it) and `DrainWired`: a browser whose close the
shutdown awaits belongs to a closed session without an activation, so nothing can overwrite its id
before the teardown resumes and sends it. That is the argument that makes the race of a late
`#stopBrowserSession` ("whatever id the session holds by then") harmless at shutdown.

In InterpreterProofs, `IInv` adds to types and wiring (ids, calls, reported tasks and stops belong
to generations that got so far) the four invariants. They need each other: `TasksSuspendIdleTimer`
says that the idle timer never fires over an open task, so the defensive branch that
would drop the TTL timer of a live session is dead, which makes `TtlGuardsSession` inductive;
`ReportedTasksTracked` needs the wiring to see that an answer may only untrack a task that is over, and that a
fresh generation runs no reported task. A late answer of a replaced session can add a stale task, which
is harmless to these and postpones idle eviction until the TTL. As `CloseAll` takes a set of
sessions, the lemmas cover the shutdown loop too.

Assumptions of InterpreterSession: as BrowserSession, and `None` is no task. `Generations`, `Calls`
and `Tasks` may be infinite.

EvaluationRulesProofs argues by rely and guarantee. `Sound(c)` is what holds for one cluster: the ids it and its
late request refer to are of its own rules (`KnowsOnlyOwn`), what it plans is published, a group asked
for but not planned has no rule (`UnplannedAreNew`, which gives `DeletionsAreMeant` once the rules are listed),
and what an undisturbed pass listed and has not dealt with is unchanged (`SnapshotHolds`). A request of a
cluster does to a rule at most `Effect`; to the others that is `Foreign`, and `RelyKeepsSound` shows that no foreign step
disturbs `Sound`. The rest is one lemma per action. That is why a listing as old as the pass is
good enough: the only writer of what it lists is the pass itself, or a request of its own cluster that is late,
which is what `calm` excludes and the violation exhibits.

Its assumptions: `Groups` are finitely many numbers, `Ids` is finite, `MaxActiveRules` is a natural number, `EvaluatorOf`
and `Wishes` have their types, and `None` is no id, rule, listing or request. Clusters may be infinite.

BrowserServerProofs also proves `UnregisteredIsClosed`, with `Untouched`: nothing ever happens for a session before it is
registered, because every coroutine works for the session that owns its generation. `ServerTypeOK` of both servers includes that
what the shutdown awaits is still to settle, so the exit waits for nothing that has already happened.

AgentPoolsProofs: `IInv` adds to the types where a pool can be: pools in the table have different keys, the one a request
has taken out is not in it, a closed pool is neither, agents are kept under the key of the request they were built for and
on a pool of its credential. The table is over its limit only by a pool of the workload at its end. Isolation follows because the key of a cached agent and
the key of its pool are both functions of the request and `propagate`, and an id is not reused while an agent holds it;
the steps that are not turns map to `Forget` or to stutters. For tokens: until its pool has reached the
age at which it is recycled, a connection is no older than the pool, and what a recycling has dealt with is
new or gone.
Assumed: caps are natural (`MaxPools` at least one), `MaxAge < TokenLife`, no caller presents the workload's own token.

EvaluationMetricsProofs: `AskInv` (an agent of the plan is in a query still to be answered or has its count),
`CountInv` (what was counted is bounded by what is stored now, and from below by what was stored when the pass began)
and `GaugeInv` (what each gauge holds at each point of the publication). Scores are never withdrawn, so counts only grow; the
cardinality lemmas say so.

ProjectLoopProofs: for duplicates, a listing that is complete knows every evaluator the loop has of a name except those
of late writes (`SeenInv`), and there is one `lost` for each that exists or is under way (`RoomInv`). `CalmInv` is the
snapshot argument: while nothing interferes, what was listed and not dealt with is what Langfuse has. For
versions the invariant counts debts: a version is *owed* while an evaluator, or what the pass has
listed of it, differs from the catalogue. Only restarts, pauses and executed late writes can make one owed, and a write
turns the debt into the version it makes.

Assumptions of these two are the named ones in the modules: catalogues, plans and traces have their types, plans and traces are
finite, bounds are natural numbers.

DarkFactoryProofs proves the seven properties of the run **factory** for any number of rounds and comments and in every world. The
inductive invariant `Factory` is a conjunction, each part resting on the ones before:

* `Typed`: a commit is built on an older one, and what names a commit names one that exists. `TypeCorrect` is its theorem.
* `Control`: one run per mutex key; on Kata a coder lives only under its run, in a MicroVM there is one at most; the
  first coder pushes before there is a pull request, and so before there is a round. It gives `OneWriter`.
* `OwnBranch` (Kata: a coder builds on the head, and a round that waits has seen a new head only if its own coder pushed it) and `TreeLeads`
  (MicroVM: the head is on the branch that is checked out, and a coder that writes is at its tip). They give `FixRoundsVerify` and, with the lemma that
  `Ancestry` is transitive, `PushesAreSafe`.
* `Reports`, `Waits`, `Quiet`, `Pinned`: a commit that is not pushed has no status, so a run never sees its coder's success before the coder is
  gone; so in a MicroVM no coder lives under a fan, and the head `security-wait.js` pinned is still the head.
* `Grades`: the holdout's and the DevOps verdict on a commit are its own, in every world and on either substrate.
* `Answered`: if every run ends with its bot's answer, a coder starts only when all that was pushed is reviewed. So only the head is
  ever unreviewed, it is the last commit when it is reviewed, and the time of a comment does name it.

From these `Mirrored` and `GatesPosted` (a gate that is through has left its verdict on the head or ended without one) are inductive, then
`Cleared` and `GatedIsSound`: the theorems `MirrorsAreOfTheirHead`, `ClearedHeadsWereSeen` and `MergesAreSound`. `LatestOfHead` is why reading the newest
verdict of the whole branch (status.js) is harmless there. TLC has checked every part as an invariant before its proof.
Assumed: `MaxIterations` is a natural number and worlds are of the type `World`; `Worlds` may be infinite, and a world may have any number of comments.

Only model-checked: the liveness properties (TLAPS does not do fairness) and the six violations. Every invariant and action property a passing
run checks, and the two refinements, are also proved.

## 11. Limits

No clock: a timer may fire at once, so a property that depends on durations is out of scope. Requests
are not lost between pod and client: HTTP is the caller's. A crash of the process (as opposed to SIGTERM)
loses all its state and leaves every AgentCore session to AWS's TTL; there is nothing it could restore, so no
action models it.

What reading and modelling showed, and no run states:

* A restart that fails in `recycle` leaves the client listed as connected (agent.py:338): `/ready` answers ready with a server
  missing, against agent.py:276. A probe that connects a pool which is closed meanwhile leaves a live connection.
* The probe looks the pool up and inserts another in two steps: it can take the place of the pool an event loop has just
  put back, which then lives only as long as its agents, and can exceed `MCP_MAX_POOLS` by one.
* The pool of the workload is recycled only when an agent is built on it; while all requests hit the caches, turns begin on
  connections whose token has expired, against "Recycle the pool well inside that" (agent.py:67).
  `NewAgentsHoldValidTokens` is what remains true.
* An agent whose traces carry different tag arrays is undercounted: rows are overwritten, not added
  (metrics_loop.py:396 and 516). So the lower bound of `CountsAreReal` is for agents with one array.
* A scrape between two gauges sees two passes (metrics.py:128-139, against "a complete picture or none of it");
  `GaugesShowOnePass` holds of each gauge.
* An evaluator Langfuse keeps re-pausing with a clearable reason is republished by every pass; in the model each pause is counted.
* The hub maintains the oldest evaluator of a name, the rules loop attaches to the first one listed (cluster_loop.py:507-510).
* `last_plan` is replaced (cluster_loop.py:366) before the pass knows that the catalogue is usable: with an empty one the
  metrics loop publishes no series.
* An exception that is not a LangfuseError leaves readiness as it was (`Raises`). The loops are daemon threads nobody
  joins, so "finishing the current pass and exiting" (main.py) is a log line only; `Restart` may cut a pass anywhere.
* Kubernetes credentials that appear late are never used: the API object is built once.
* Dark factory, mutex: the sensor submits the first Kata run with the issue's id, iterate.js its fix rounds with the number, and
  df-run's mutex is named after either, so the first run may still be verifying beside a fix round
  (20-workflowtemplate-df-run.yaml:36, iterate.js:137). `security-wait.js:58` then posts the verdict on the old head on the new one.
* Dark factory, bot: `sawAck` is set and never required (security-wait.js:89 and 106). When a run has ended early, a clean comment about
  the old commit, made after the new one, clears the new one.
* Dark factory, hook server: `/run` for a VM whose coder is past its deadline but alive is answered 200 and starts nothing
  (hook-server.js:53); the round may then verify the old coder's commit.
* Dark factory, comments: two at once are one round, the second is answered 409 and dropped (iterate.js:157).
* Dark factory, verdicts: with a signal missing on the head, the previous commit's clears it (status.js:78).
* Dark factory, nothing to do: the coder reports on the base branch (entrypoint.js:415), which the run, looking at open pull
  requests, polls past until its deadline.
* Dark factory, auto-fix, where it is switched on: it submits the Kata template for MicroVM issues (status.js:363), so two
  coders may write, and the next round in the VM builds on its old checkout (entrypoint.js:170) and force-pushes the other's commit away;
  it shares the label with comments without a lock.
* `live_check.py` builds `Settings` without two fields that have no default.

Not modelled of the modelled components: closing the pools at shutdown, the A2A task store (its keys are the owners'), the cache
of memory namespaces, the truncation guard and the tool executor of strands-agent-base; the rules loop's own gauges, error counters and
timestamps, the report of orphans and Kubernetes Events of agent-evaluation; parsing and validation everywhere.
