------------------------- MODULE InterpreterSession -------------------------
(***************************************************************************)
(* The interpreter sessions of one code-interpreter-mcp pod                *)
(* (src/applications/code-interpreter-mcp/src/session.js), the limiter     *)
(* they share (makeLimiter in server.js) and the tool calls and background *)
(* tasks in flight.                                                        *)
(*                                                                         *)
(* As in BrowserSession an action is the code between two awaits, and a    *)
(* GENERATION is one run of #activate and the AgentCore session it starts. *)
(* Unlike a browser, an interpreter session has no child process; it has   *)
(* background tasks, which live in the AgentCore session and must keep     *)
(* idle eviction from stopping it.                                         *)
(***************************************************************************)
EXTENDS Integers, FiniteSets

CONSTANTS
  Sessions,      \* MCP sessions, each with an InterpreterSession object
  Generations,   \* bound on the AgentCore sessions started in one behaviour
  Calls,         \* bound on the tool calls in flight at once
  Tasks,         \* bound on the background tasks started in one behaviour
  MaxSessions,   \* config.maxSessions (MAX_INTERPRETER_SESSIONS)
  IdleEviction,  \* config.sessionIdleSeconds > 0
  None           \* JavaScript's null

ASSUME SessionsAssumption == IsFiniteSet(Sessions) /\ None \notin Sessions
ASSUME GenerationsAssumption == None \notin Generations
ASSUME TasksAssumption == None \notin Tasks
ASSUME MaxSessionsAssumption == MaxSessions \in Nat
ASSUME IdleEvictionAssumption == IdleEviction \in BOOLEAN

VARIABLES
  \* The fields of an InterpreterSession.
  sessionId,   \* the AgentCore session in use, or None
  activating,  \* the generation of the pending `activating` promise, or None
  closed,
  holdsSlot,
  idleTimer,   \* TRUE while the timer is armed
  ttlTimer,
  openTasks,
  live,        \* the limiter's counter
  \* The coroutines that are suspended at an await.
  owner,       \* the session that started the generation, or None
  phase,       \* where the generation's #activate is
  stopping,    \* generations whose stopSession() is awaited
  caller,      \* the session a callTool runs on, or None
  tool,        \* the kind of tool it calls
  target,      \* the generation it invokes, None while it awaits the activation
  subject,     \* the task it polls, or has started
  \* The world outside the process.
  aws,         \* the AgentCore session as AWS sees it
  taskIn,      \* the generation a background task runs in, or None
  taskDone,    \* the task has reached a terminal state
  \* History.
  reported     \* the tasks whose start was answered to this process

timers == <<idleTimer, ttlTimer>>
slots  == <<holdsSlot, live>>
calls  == <<caller, tool, target, subject>>
tasks  == <<taskIn, taskDone>>
vars   == <<sessionId, activating, closed, slots, timers, openTasks, owner, phase,
            stopping, calls, aws, tasks, reported>>

\* What trackTasks tells apart: the tool that starts a task, getTask and
\* stopTask, and every other tool.
Tools == {"start", "poll", "other"}

TypeOK ==
  /\ sessionId \in [Sessions -> Generations \union {None}]
  /\ activating \in [Sessions -> Generations \union {None}]
  /\ closed \in [Sessions -> BOOLEAN]
  /\ holdsSlot \in [Sessions -> BOOLEAN]
  /\ idleTimer \in [Sessions -> BOOLEAN]
  /\ ttlTimer \in [Sessions -> BOOLEAN]
  /\ openTasks \in [Sessions -> SUBSET Tasks]
  /\ live \in Nat
  /\ owner \in [Generations -> Sessions \union {None}]
  /\ phase \in [Generations -> {"unused", "starting", "over"}]
  /\ stopping \subseteq Generations
  /\ caller \in [Calls -> Sessions \union {None}]
  /\ tool \in [Calls -> Tools]
  /\ target \in [Calls -> Generations \union {None}]
  /\ subject \in [Calls -> Tasks \union {None}]
  /\ aws \in [Generations -> {"absent", "live", "ended"}]
  /\ taskIn \in [Tasks -> Generations \union {None}]
  /\ taskDone \in [Tasks -> BOOLEAN]
  /\ reported \subseteq Tasks

Init ==
  /\ sessionId = [s \in Sessions |-> None]
  /\ activating = [s \in Sessions |-> None]
  /\ closed = [s \in Sessions |-> FALSE]
  /\ holdsSlot = [s \in Sessions |-> FALSE]
  /\ idleTimer = [s \in Sessions |-> FALSE]
  /\ ttlTimer = [s \in Sessions |-> FALSE]
  /\ openTasks = [s \in Sessions |-> {}]
  /\ live = 0
  /\ owner = [g \in Generations |-> None]
  /\ phase = [g \in Generations |-> "unused"]
  /\ stopping = {}
  /\ caller = [c \in Calls |-> None]
  /\ tool = [c \in Calls |-> "other"]
  /\ target = [c \in Calls |-> None]
  /\ subject = [c \in Calls |-> None]
  /\ aws = [g \in Generations |-> "absent"]
  /\ taskIn = [t \in Tasks |-> None]
  /\ taskDone = [t \in Tasks |-> FALSE]
  /\ reported = {}

-----------------------------------------------------------------------------
(***************************************************************************)
(* Steps several handlers share.  Those of a teardown are stated for a SET *)
(* of sessions, because shutdown() closes every session in one loop.       *)
(***************************************************************************)

\* f with the value v at every session of S.
Assign(f, S, v) == [s \in Sessions |-> IF s \in S THEN v ELSE f[s]]

\* The sessions of S that #releaseSlot takes past its guard.
Holding(S) == {s \in S : holdsSlot[s]}

\* Mutant: no `this.holdsSlot = false`.
ReleaseKeepingFlag(S) ==
  /\ UNCHANGED holdsSlot
  /\ live' = IF live > Cardinality(Holding(S)) THEN live - Cardinality(Holding(S)) ELSE 0

\* #releaseSlot, with limiter.release(), which stops counting down at zero.
ReleaseSlots(S) ==
  /\ holdsSlot' = Assign(holdsSlot, S, FALSE)
  /\ live' = IF live > Cardinality(Holding(S)) THEN live - Cardinality(Holding(S)) ELSE 0

\* The ids #stopInterpreterSession takes out of the sessions of S.
Remembered(S) == {sessionId[s] : s \in S} \ {None}

\* #stopInterpreterSession up to its await: a session with an id forgets it and
\* asks AWS to stop it; one without gives its slot back.
StopSessions(S) ==
  /\ sessionId' = Assign(sessionId, S, None)
  /\ stopping' = stopping \union Remembered(S)
  /\ ReleaseSlots({s \in S : sessionId[s] = None})

\* deactivate() for any reason but idleness, up to its await: timers off, tasks
\* given up, session stopped.
DeactivateAll(S) ==
  /\ idleTimer' = Assign(idleTimer, S, FALSE)
  /\ ttlTimer' = Assign(ttlTimer, S, FALSE)
  /\ openTasks' = Assign(openTasks, S, {})
  /\ StopSessions(S)

\* Mutant: the timer is armed whatever tasks are open.
RearmAlways(s, open) == idleTimer' = [idleTimer EXCEPT ![s] = IdleEviction]

\* #resetIdleTimer: the old timer goes; a new one only if no task is open.
ResetIdleTimer(s, open) ==
  idleTimer' = [idleTimer EXCEPT ![s] = IdleEviction /\ open = {}]

-----------------------------------------------------------------------------
(***************************************************************************)
(* callTool and #activate.  A call that finds the session closed, or the   *)
(* limiter at its cap, throws and changes nothing.                         *)
(***************************************************************************)

\* The calls of C are over; what they were is forgotten.
Forget(C) ==
  /\ caller' = [c \in Calls |-> IF c \in C THEN None ELSE caller[c]]
  /\ tool' = [c \in Calls |-> IF c \in C THEN "other" ELSE tool[c]]
  /\ target' = [c \in Calls |-> IF c \in C THEN None ELSE target[c]]
  /\ subject' = [c \in Calls |-> IF c \in C THEN None ELSE subject[c]]

\* The background tasks session s was told of.
Known(s) == {t \in reported : owner[taskIn[t]] = s}

\* A call arrives: of the tool that starts a task, of one that polls a known
\* task, or of another tool.
Arrives(c, s, g) ==
  /\ caller[c] = None
  /\ ~closed[s]
  /\ caller' = [caller EXCEPT ![c] = s]
  /\ target' = [target EXCEPT ![c] = g]
  /\ \E k \in Tools, t \in Known(s) \union {None} :
       /\ k = "poll" <=> t # None
       /\ tool' = [tool EXCEPT ![c] = k]
       /\ subject' = [subject EXCEPT ![c] = t]

\* A call on an active session invokes the tool at once.
InvokeTool(c, s) ==
  /\ sessionId[s] # None
  /\ Arrives(c, s, sessionId[s])
  /\ UNCHANGED <<sessionId, activating, closed, slots, timers, openTasks, owner, phase,
                 stopping, aws, tasks, reported>>

\* A call that finds an activation pending awaits the same promise.
JoinActivation(c, s) ==
  /\ sessionId[s] = None
  /\ activating[s] # None
  /\ Arrives(c, s, None)
  /\ UNCHANGED <<sessionId, activating, closed, slots, timers, openTasks, owner, phase,
                 stopping, aws, tasks, reported>>

Unused == {g \in Generations : phase[g] = "unused"}

NextGeneration == CHOOSE g \in Unused : TRUE

\* The first call of a session without an interpreter: #activate up to
\* `await startSession`.
BeginActivation(c, s) ==
  /\ sessionId[s] = None
  /\ activating[s] = None
  /\ live < MaxSessions
  /\ Unused # {}
  /\ Arrives(c, s, None)
  /\ live' = live + 1
  /\ holdsSlot' = [holdsSlot EXCEPT ![s] = TRUE]
  /\ owner' = [owner EXCEPT ![NextGeneration] = s]
  /\ phase' = [phase EXCEPT ![NextGeneration] = "starting"]
  /\ activating' = [activating EXCEPT ![s] = NextGeneration]
  /\ UNCHANGED <<sessionId, closed, timers, openTasks, stopping, aws, tasks, reported>>

\* The calls that await the activation of s.
Waiting(s) == {c \in Calls : caller[c] = s /\ target[c] = None}

\* Mutant: no TTL timer for a session that was closed while it started.
StartUntimedWhenClosed(g) ==
  /\ phase[g] = "starting"
  /\ aws[g] # "absent"
  /\ phase' = [phase EXCEPT ![g] = "over"]
  /\ activating' = [activating EXCEPT ![owner[g]] = None]
  /\ sessionId' = [sessionId EXCEPT ![owner[g]] = g]
  /\ ttlTimer' = [ttlTimer EXCEPT ![owner[g]] = ~closed[owner[g]]]
  /\ target' = [c \in Calls |-> IF c \in Waiting(owner[g]) THEN g ELSE target[c]]
  /\ UNCHANGED <<closed, slots, idleTimer, openTasks, owner, stopping, caller, tool,
                 subject, aws, tasks, reported>>

\* startSession resolves: the session is active and guarded by its TTL timer,
\* and the calls that awaited it invoke their tools on it.
StartReturns(g) ==
  /\ phase[g] = "starting"
  /\ aws[g] # "absent"
  /\ phase' = [phase EXCEPT ![g] = "over"]
  /\ activating' = [activating EXCEPT ![owner[g]] = None]
  /\ sessionId' = [sessionId EXCEPT ![owner[g]] = g]
  /\ ttlTimer' = [ttlTimer EXCEPT ![owner[g]] = TRUE]
  /\ target' = [c \in Calls |-> IF c \in Waiting(owner[g]) THEN g ELSE target[c]]
  /\ UNCHANGED <<closed, slots, idleTimer, openTasks, owner, stopping, caller, tool,
                 subject, aws, tasks, reported>>

\* startSession rejects: the calls that awaited it throw.
StartFails(g) ==
  /\ phase[g] = "starting"
  /\ ReleaseSlots({owner[g]})
  /\ phase' = [phase EXCEPT ![g] = "over"]
  /\ activating' = [activating EXCEPT ![owner[g]] = None]
  /\ Forget(Waiting(owner[g]))
  /\ UNCHANGED <<sessionId, closed, timers, openTasks, owner, stopping, aws, tasks, reported>>

\* Mutant: callTool re-arms the idle timer before it tracks the task.
AnsweredTrackingLast(c, open) ==
  /\ target[c] # None
  /\ openTasks' = [openTasks EXCEPT ![caller[c]] = open]
  /\ ResetIdleTimer(caller[c], openTasks[caller[c]])
  /\ Forget({c})
  /\ UNCHANGED <<sessionId, activating, closed, slots, ttlTimer, owner, phase, stopping,
                 aws, tasks>>

\* The tool has answered: #trackTasks leaves these tasks open, then the finally
\* block of callTool resets the idle timer.
Answered(c, open) ==
  /\ target[c] # None
  /\ openTasks' = [openTasks EXCEPT ![caller[c]] = open]
  /\ ResetIdleTimer(caller[c], open)
  /\ Forget({c})
  /\ UNCHANGED <<sessionId, activating, closed, slots, ttlTimer, owner, phase, stopping,
                 aws, tasks>>

\* startCommandExecution answers with the id of the task it started.
StartAnswers(c) ==
  /\ subject[c] # None
  /\ tool[c] = "start"
  /\ Answered(c, openTasks[caller[c]] \union {subject[c]})
  /\ reported' = reported \union {subject[c]}

\* Mutant: any status a poll reports ends the task.
PollAnswersAnyStatus(c) ==
  /\ tool[c] = "poll"
  /\ taskIn[subject[c]] = target[c]
  /\ Answered(c, openTasks[caller[c]] \ {subject[c]})
  /\ UNCHANGED reported

\* getTask or stopTask answers that the task is over, which only the AgentCore
\* session the task ran in can say.
PollAnswers(c) ==
  /\ tool[c] = "poll"
  /\ taskIn[subject[c]] = target[c]
  /\ taskDone[subject[c]]
  /\ Answered(c, openTasks[caller[c]] \ {subject[c]})
  /\ UNCHANGED reported

\* Every other end of a call: another tool's answer, a task still running, an
\* error, an answer that is lost.
CallEnds(c) ==
  /\ Answered(c, openTasks[caller[c]])
  /\ UNCHANGED reported

-----------------------------------------------------------------------------
(***************************************************************************)
(* deactivate and close.                                                   *)
(***************************************************************************)

\* deactivate('idle').  Its defensive branch for open tasks has already cleared
\* both timers and re-arms neither.
IdleFires(s) ==
  /\ idleTimer[s]
  /\ IF openTasks[s] = {}
     THEN DeactivateAll({s})
     ELSE /\ idleTimer' = [idleTimer EXCEPT ![s] = FALSE]
          /\ ttlTimer' = [ttlTimer EXCEPT ![s] = FALSE]
          /\ UNCHANGED <<sessionId, slots, openTasks, stopping>>
  /\ UNCHANGED <<activating, closed, owner, phase, calls, aws, tasks, reported>>

TtlFires(s) ==
  /\ ttlTimer[s]
  /\ DeactivateAll({s})
  /\ UNCHANGED <<activating, closed, owner, phase, calls, aws, tasks, reported>>

\* close() of every session of S, up to the await of each.
CloseAll(S) ==
  /\ closed' = Assign(closed, S, TRUE)
  /\ DeactivateAll(S)
  /\ UNCHANGED <<activating, owner, phase, calls, aws, tasks, reported>>

\* Mutant: the slot is given back only if the session is still open.
StopReturnsUnlessClosed(g) ==
  /\ g \in stopping
  /\ stopping' = stopping \ {g}
  /\ ReleaseSlots({owner[g]} \ {s \in Sessions : closed[s]})
  /\ UNCHANGED <<sessionId, activating, closed, timers, openTasks, owner, phase, calls,
                 aws, tasks, reported>>

\* stopSession settles, whatever came of it: the slot the session holds by now
\* is given back.
StopReturns(g) ==
  /\ g \in stopping
  /\ stopping' = stopping \ {g}
  /\ ReleaseSlots({owner[g]})
  /\ UNCHANGED <<sessionId, activating, closed, timers, openTasks, owner, phase, calls,
                 aws, tasks, reported>>

-----------------------------------------------------------------------------
(***************************************************************************)
(* AWS.                                                                    *)
(***************************************************************************)

AwsStarts(g) ==
  /\ phase[g] = "starting"
  /\ aws[g] = "absent"
  /\ aws' = [aws EXCEPT ![g] = "live"]
  /\ UNCHANGED <<sessionId, activating, closed, slots, timers, openTasks, owner, phase,
                 stopping, calls, tasks, reported>>

\* A stop request or the TTL ends the session, and the tasks in it with it.
AwsEnds(g) ==
  /\ aws[g] = "live"
  /\ aws' = [aws EXCEPT ![g] = "ended"]
  /\ UNCHANGED <<sessionId, activating, closed, slots, timers, openTasks, owner, phase,
                 stopping, calls, tasks, reported>>

\* The command of a startCommandExecution starts running; the answer is on its way.
TaskBegins(c, t) ==
  /\ tool[c] = "start"
  /\ target[c] # None
  /\ subject[c] = None
  /\ aws[target[c]] = "live"
  /\ taskIn[t] = None
  /\ taskIn' = [taskIn EXCEPT ![t] = target[c]]
  /\ subject' = [subject EXCEPT ![c] = t]
  /\ UNCHANGED <<sessionId, activating, closed, slots, timers, openTasks, owner, phase,
                 stopping, caller, tool, target, aws, taskDone, reported>>

Running(t) ==
  /\ taskIn[t] # None
  /\ ~taskDone[t]
  /\ aws[taskIn[t]] = "live"

\* The command completes or fails, or a stopTask cancels it.
TaskEnds(t) ==
  /\ Running(t)
  /\ taskDone' = [taskDone EXCEPT ![t] = TRUE]
  /\ UNCHANGED <<sessionId, activating, closed, slots, timers, openTasks, owner, phase,
                 stopping, calls, aws, taskIn, reported>>

-----------------------------------------------------------------------------
CallArrives(c, s) ==
  \/ InvokeTool(c, s)
  \/ JoinActivation(c, s)
  \/ BeginActivation(c, s)

CallFinishes(c) ==
  \/ StartAnswers(c)
  \/ PollAnswers(c)
  \/ CallEnds(c)

AwsStep ==
  \/ \E g \in Generations : AwsStarts(g) \/ AwsEnds(g)
  \/ \E c \in Calls, t \in Tasks : TaskBegins(c, t)
  \/ \E t \in Tasks : TaskEnds(t)

Next ==
  \/ \E c \in Calls, s \in Sessions : CallArrives(c, s)
  \/ \E c \in Calls : CallFinishes(c)
  \/ \E s \in Sessions : IdleFires(s) \/ TtlFires(s)
  \/ \E S \in SUBSET Sessions : CloseAll(S)
  \/ \E g \in Generations : StartReturns(g) \/ StartFails(g) \/ StopReturns(g)
  \/ AwsStep

Spec == Init /\ [][Next]_vars

-----------------------------------------------------------------------------
(***************************************************************************)
(* What the code keeps.                                                    *)
(***************************************************************************)

\* The limiter's counter covers every session that holds a slot and stays within
\* the cap, whatever closes, evictions and failures overlap (session.js 153-158).
SlotAccounting ==
  /\ Cardinality(Holding(Sessions)) <= live
  /\ live <= MaxSessions

\* A session is active exactly while the TTL timer that will release it is armed.
\* deactivate() clears the timer before its defensive branch can return (session.js
\* 186-197), so this holds only because that branch is never taken.
TtlGuardsSession == \A s \in Sessions : ttlTimer[s] <=> sessionId[s] # None

\* "The timer should not have been armed at all in this state" (session.js 190):
\* while a task is open no idle timer runs, whichever calls end in which order.
TasksSuspendIdleTimer == \A s \in Sessions : openTasks[s] # {} => ~idleTimer[s]

\* "Track async task lifecycle so eviction cannot kill a running task" (session.js
\* 101): a running task whose start was answered is open as long as its
\* session is the one in use.
ReportedTasksTracked ==
  \A t \in reported :
    Running(t) /\ sessionId[owner[taskIn[t]]] = taskIn[t] => t \in openTasks[owner[taskIn[t]]]

(***************************************************************************)
(* The inductive invariant the proofs use: which session, generation and   *)
(* task the ids at hand belong to.                                         *)
(***************************************************************************)

OwnersWired == \A g \in Generations : phase[g] # "unused" => owner[g] \in Sessions

IdsWired ==
  \A s \in Sessions : sessionId[s] # None =>
    owner[sessionId[s]] = s /\ phase[sessionId[s]] = "over"

CallsWired ==
  \A c \in Calls :
    /\ target[c] # None =>
         /\ caller[c] \in Sessions
         /\ owner[target[c]] = caller[c]
         /\ phase[target[c]] = "over"
    /\ tool[c] = "start" /\ subject[c] # None =>
         target[c] # None /\ taskIn[subject[c]] = target[c]

ReportedWired ==
  \A t \in reported : taskIn[t] # None /\ phase[taskIn[t]] = "over"

\* Only a generation that was started is stopped.
StopsWired == \A g \in stopping : phase[g] # "unused"

Wired == OwnersWired /\ IdsWired /\ CallsWired /\ ReportedWired /\ StopsWired

IInv ==
  /\ TypeOK
  /\ Wired
  /\ SlotAccounting
  /\ TtlGuardsSession
  /\ TasksSuspendIdleTimer
  /\ ReportedTasksTracked

-----------------------------------------------------------------------------
(***************************************************************************)
(* What the documentation says of the code and the code does not keep.     *)
(***************************************************************************)

\* "Idle eviction must NOT tear down a session that has a background task running"
\* (test/task-eviction.js 1): the idle timer stops no session with a running task.
EvictionSparesTasks ==
  [][\A s \in Sessions, t \in Tasks :
       IdleFires(s) /\ Running(t) /\ sessionId[s] = taskIn[t] => sessionId'[s] = sessionId[s]]_vars
=============================================================================
