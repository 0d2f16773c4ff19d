--------------------------- MODULE BrowserSession ---------------------------
(***************************************************************************)
(* The browser sessions of one browser-mcp pod                             *)
(* (src/applications/browser-mcp/src/session.js) and the limiter they      *)
(* share (makeLimiter in server.js).                                       *)
(*                                                                         *)
(* JavaScript runs each handler to its next await without interruption, so *)
(* an action is the code between two awaits, and between two actions any   *)
(* other handler, timer or child process may run.                          *)
(*                                                                         *)
(* A GENERATION is one run of #activate: the AgentCore session it starts,  *)
(* the chrome-devtools-mcp child attached to that session and the TTL      *)
(* timer that guards it.  AWS never reuses a session id, so a generation   *)
(* also stands for the AgentCore session id.                               *)
(***************************************************************************)
EXTENDS Integers, FiniteSets

CONSTANTS
  Sessions,      \* MCP sessions, each with a BrowserSession object
  Generations,   \* bound on the AgentCore sessions started in one behaviour
  MaxSessions,   \* config.maxSessions (MAX_BROWSER_SESSIONS)
  IdleEviction,  \* config.sessionIdleSeconds > 0
  None           \* JavaScript's null

ASSUME SessionsAssumption == IsFiniteSet(Sessions) /\ None \notin Sessions
ASSUME GenerationsAssumption == None \notin Generations
ASSUME MaxSessionsAssumption == MaxSessions \in Nat
ASSUME IdleEvictionAssumption == IdleEviction \in BOOLEAN

VARIABLES
  \* The fields of a BrowserSession.  `transport` changes with `client`.
  client,            \* the generation whose child is attached, or None
  browserSessionId,  \* the AgentCore session the object remembers, or None
  activating,        \* the generation of the pending `activating` promise, or None
  closed,
  holdsSlot,
  tearingDown,
  idleTimer,         \* TRUE while the timer is armed
  ttlTimer,
  live,              \* the limiter's counter
  \* The coroutines that are suspended at an await.
  owner,             \* the session that started the generation, or None
  phase,             \* where the generation's #activate is
  closing,           \* generations whose client.close() is awaited
  stopping,          \* generations whose stopSession() is awaited
  \* The world outside the process.
  aws,               \* the AgentCore session as AWS sees it
  child,             \* the chrome-devtools-mcp process
  stopSent           \* history: the StopBrowserSession requests ever sent

timers   == <<idleTimer, ttlTimer>>
slots    == <<holdsSlot, live>>
external == <<aws, child>>
vars     == <<client, browserSessionId, activating, closed, holdsSlot, tearingDown,
              idleTimer, ttlTimer, live, owner, phase, closing, stopping,
              aws, child, stopSent>>

\* An #activate ends refused (startSession rejected), aborted (the attach
\* failed) or attached.
Phases == {"unused", "starting", "attaching", "cleanup",
           "refused", "aborted", "attached"}

InFlight == {"starting", "attaching", "cleanup"}

TypeOK ==
  /\ client \in [Sessions -> Generations \union {None}]
  /\ browserSessionId \in [Sessions -> Generations \union {None}]
  /\ activating \in [Sessions -> Generations \union {None}]
  /\ closed \in [Sessions -> BOOLEAN]
  /\ holdsSlot \in [Sessions -> BOOLEAN]
  /\ tearingDown \in [Sessions -> BOOLEAN]
  /\ idleTimer \in [Sessions -> BOOLEAN]
  /\ ttlTimer \in [Sessions -> BOOLEAN]
  /\ live \in Nat
  /\ owner \in [Generations -> Sessions \union {None}]
  /\ phase \in [Generations -> Phases]
  /\ closing \subseteq Generations
  /\ stopping \subseteq Generations
  /\ aws \in [Generations -> {"absent", "live", "ended"}]
  /\ child \in [Generations -> {"none", "running", "dead"}]
  /\ stopSent \subseteq Generations

Init ==
  /\ client = [s \in Sessions |-> None]
  /\ browserSessionId = [s \in Sessions |-> None]
  /\ activating = [s \in Sessions |-> None]
  /\ closed = [s \in Sessions |-> FALSE]
  /\ holdsSlot = [s \in Sessions |-> FALSE]
  /\ tearingDown = [s \in Sessions |-> FALSE]
  /\ idleTimer = [s \in Sessions |-> FALSE]
  /\ ttlTimer = [s \in Sessions |-> FALSE]
  /\ live = 0
  /\ owner = [g \in Generations |-> None]
  /\ phase = [g \in Generations |-> "unused"]
  /\ closing = {}
  /\ stopping = {}
  /\ aws = [g \in Generations |-> "absent"]
  /\ child = [g \in Generations |-> "none"]
  /\ stopSent = {}

-----------------------------------------------------------------------------
(***************************************************************************)
(* Steps several handlers share.  Each is stated for a SET of sessions,    *)
(* because shutdown() tears every session down in one synchronous loop.    *)
(***************************************************************************)

\* f with the value v at every session of S.
Assign(f, S, v) == [s \in Sessions |-> IF s \in S THEN v ELSE f[s]]

\* The sessions of S that #releaseSlot takes past its guard.
Holding(S) == {s \in S : holdsSlot[s]}

\* Mutant: no `if (this.holdsSlot)`.
ReleaseUnheldSlots(S) ==
  /\ holdsSlot' = Assign(holdsSlot, S, FALSE)
  /\ live' = IF live > Cardinality(S) THEN live - Cardinality(S) ELSE 0

\* #releaseSlot, with limiter.release(), which stops counting down at zero.
ReleaseSlots(S) ==
  /\ holdsSlot' = Assign(holdsSlot, S, FALSE)
  /\ live' = IF live > Cardinality(Holding(S)) THEN live - Cardinality(Holding(S)) ELSE 0

\* The ids #stopBrowserSession takes out of the sessions of S.
Remembered(S) == {browserSessionId[s] : s \in S} \ {None}

\* Mutant: the id is forgotten after the await instead of before it.
StopButRemember(S) ==
  /\ UNCHANGED browserSessionId
  /\ stopping' = stopping \union Remembered(S)
  /\ stopSent' = stopSent \union Remembered(S)
  /\ ReleaseSlots({s \in S : browserSessionId[s] = None})

\* #stopBrowserSession up to its await: a session that remembers an id forgets
\* it and asks AWS to stop it; one that remembers none gives its slot back.
StopBrowserSessions(S) ==
  /\ browserSessionId' = Assign(browserSessionId, S, None)
  /\ stopping' = stopping \union Remembered(S)
  /\ stopSent' = stopSent \union Remembered(S)
  /\ ReleaseSlots({s \in S : browserSessionId[s] = None})

\* The children deactivate() takes out of the sessions of S.
Attached(S) == {client[s] : s \in S} \ {None}

\* Mutant: the TTL timer is left armed.
DeactivateKeepingTtl(S) ==
  /\ idleTimer' = Assign(idleTimer, S, FALSE)
  /\ UNCHANGED ttlTimer
  /\ client' = Assign(client, S, None)
  /\ closing' = closing \union Attached(S)
  /\ tearingDown' = Assign(tearingDown, {s \in S : client[s] # None}, TRUE)
  /\ StopBrowserSessions({s \in S : client[s] = None})

\* deactivate() up to its first await: timers off, client out; a session with a
\* child starts closing it, one without goes on to #stopBrowserSession at once.
DeactivateAll(S) ==
  /\ idleTimer' = Assign(idleTimer, S, FALSE)
  /\ ttlTimer' = Assign(ttlTimer, S, FALSE)
  /\ client' = Assign(client, S, None)
  /\ closing' = closing \union Attached(S)
  /\ tearingDown' = Assign(tearingDown, {s \in S : client[s] # None}, TRUE)
  /\ StopBrowserSessions({s \in S : client[s] = None})

Deactivate(s) == DeactivateAll({s})

\* The activation of generation g is over: the promise settles and its
\* finally() clears `activating`.
Settle(g, outcome) ==
  /\ phase' = [phase EXCEPT ![g] = outcome]
  /\ activating' = [activating EXCEPT ![owner[g]] = None]

-----------------------------------------------------------------------------
(***************************************************************************)
(* callTool and #activate.  A call that finds the session closed, or the   *)
(* limiter at its cap, throws and changes nothing; one that finds an       *)
(* activation pending awaits the same promise.                             *)
(***************************************************************************)

Unused == {g \in Generations : phase[g] = "unused"}

NextGeneration == CHOOSE g \in Unused : TRUE

\* Mutant: no `if (!this.activating)`.
BeginActivationAgain(s) ==
  /\ ~closed[s]
  /\ client[s] = None
  /\ live < MaxSessions
  /\ Unused # {}
  /\ live' = live + 1
  /\ holdsSlot' = [holdsSlot EXCEPT ![s] = TRUE]
  /\ owner' = [owner EXCEPT ![NextGeneration] = s]
  /\ phase' = [phase EXCEPT ![NextGeneration] = "starting"]
  /\ activating' = [activating EXCEPT ![s] = NextGeneration]
  /\ UNCHANGED <<client, browserSessionId, closed, tearingDown, timers,
                 closing, stopping, external, stopSent>>

\* #ensureActive on a session with no browser and no pending activation, and
\* #activate up to `await startSession`.
BeginActivation(s) ==
  /\ ~closed[s]
  /\ client[s] = None
  /\ activating[s] = None
  /\ live < MaxSessions
  /\ Unused # {}
  /\ live' = live + 1
  /\ holdsSlot' = [holdsSlot EXCEPT ![s] = TRUE]
  /\ owner' = [owner EXCEPT ![NextGeneration] = s]
  /\ phase' = [phase EXCEPT ![NextGeneration] = "starting"]
  /\ activating' = [activating EXCEPT ![s] = NextGeneration]
  /\ UNCHANGED <<client, browserSessionId, closed, tearingDown, timers,
                 closing, stopping, external, stopSent>>

\* callTool on an active session: #resetIdleTimer, then forward the call.
ForwardCall(s) ==
  /\ ~closed[s]
  /\ client[s] # None
  /\ idleTimer' = [idleTimer EXCEPT ![s] = IdleEviction]
  /\ UNCHANGED <<client, browserSessionId, activating, closed, slots, tearingDown,
                 ttlTimer, owner, phase, closing, stopping, external, stopSent>>

\* AWS creates the session the process has asked for.
AwsStarts(g) ==
  /\ phase[g] = "starting"
  /\ aws[g] = "absent"
  /\ aws' = [aws EXCEPT ![g] = "live"]
  /\ UNCHANGED <<client, browserSessionId, activating, closed, slots, tearingDown,
                 timers, owner, phase, closing, stopping, child, stopSent>>

\* startSession resolves: remember the id, then sign and connect.
StartReturns(g) ==
  /\ phase[g] = "starting"
  /\ aws[g] # "absent"
  /\ phase' = [phase EXCEPT ![g] = "attaching"]
  /\ browserSessionId' = [browserSessionId EXCEPT ![owner[g]] = g]
  /\ UNCHANGED <<client, activating, closed, slots, tearingDown, timers, owner,
                 closing, stopping, external, stopSent>>

\* startSession rejects: AWS refused, or its answer was lost.
StartFails(g) ==
  /\ phase[g] = "starting"
  /\ ReleaseSlots({owner[g]})
  /\ Settle(g, "refused")
  /\ UNCHANGED <<client, browserSessionId, closed, tearingDown, timers, owner,
                 closing, stopping, external, stopSent>>

\* Mutant: no TTL timer for a session that was closed while it attached.
AttachUntimedWhenClosed(g) ==
  /\ phase[g] = "attaching"
  /\ client' = [client EXCEPT ![owner[g]] = g]
  /\ child' = [child EXCEPT ![g] = "running"]
  /\ ttlTimer' = [ttlTimer EXCEPT ![owner[g]] = ~closed[owner[g]]]
  /\ idleTimer' = [idleTimer EXCEPT ![owner[g]] = IdleEviction]
  /\ Settle(g, "attached")
  /\ UNCHANGED <<browserSessionId, closed, slots, tearingDown, owner,
                 closing, stopping, aws, stopSent>>

\* client.connect resolves: attach the child, arm the TTL timer; the callers
\* awaiting the activation run next and arm the idle timer.
AttachSucceeds(g) ==
  /\ phase[g] = "attaching"
  /\ client' = [client EXCEPT ![owner[g]] = g]
  /\ child' = [child EXCEPT ![g] = "running"]
  /\ ttlTimer' = [ttlTimer EXCEPT ![owner[g]] = TRUE]
  /\ idleTimer' = [idleTimer EXCEPT ![owner[g]] = IdleEviction]
  /\ Settle(g, "attached")
  /\ UNCHANGED <<browserSessionId, closed, slots, tearingDown, owner,
                 closing, stopping, aws, stopSent>>

\* Mutant: the catch block only gives the slot back.
AttachFailsUnstopped(g) ==
  /\ phase[g] = "attaching"
  /\ ReleaseSlots({owner[g]})
  /\ Settle(g, "aborted")
  /\ UNCHANGED <<client, browserSessionId, closed, tearingDown, timers, owner,
                 closing, stopping, external, stopSent>>

\* signWsHeaders or client.connect rejects: `await this.#stopBrowserSession()`,
\* which settles at once when the id is already gone.
AttachFails(g) ==
  /\ phase[g] = "attaching"
  /\ StopBrowserSessions({owner[g]})
  /\ \/ /\ browserSessionId[owner[g]] = None
        /\ Settle(g, "aborted")
     \/ /\ browserSessionId[owner[g]] # None
        /\ phase' = [phase EXCEPT ![g] = "cleanup"]
        /\ UNCHANGED activating
  /\ UNCHANGED <<client, closed, tearingDown, timers, owner, closing, external>>

-----------------------------------------------------------------------------
(***************************************************************************)
(* deactivate, close and what triggers them.                               *)
(***************************************************************************)

IdleFires(s) ==
  /\ idleTimer[s]
  /\ Deactivate(s)
  /\ UNCHANGED <<activating, closed, owner, phase, external>>

TtlFires(s) ==
  /\ ttlTimer[s]
  /\ Deactivate(s)
  /\ UNCHANGED <<activating, closed, owner, phase, external>>

\* close() of every session of S, up to the first await of each.  Nothing in it
\* depends on a session being closed once only.
CloseAll(S) ==
  /\ closed' = Assign(closed, S, TRUE)
  /\ DeactivateAll(S)
  /\ UNCHANGED <<activating, owner, phase, external>>

\* Mutant: onclose clears the TTL timer of a child it takes for one being closed.
ChildExitsDisarming(g) ==
  /\ child[g] = "running"
  /\ child' = [child EXCEPT ![g] = "dead"]
  /\ IF tearingDown[owner[g]] \/ closed[owner[g]]
     THEN /\ ttlTimer' = [ttlTimer EXCEPT ![owner[g]] = FALSE]
          /\ UNCHANGED <<client, browserSessionId, slots, tearingDown, idleTimer,
                         closing, stopping, stopSent>>
     ELSE Deactivate(owner[g])
  /\ UNCHANGED <<activating, closed, owner, phase, aws>>

\* A child exits, on its own or because client.close() kills it, and
\* client.onclose runs.  The handler tests flags of the session, and what it
\* deactivates is whatever the session holds by then.
ChildExits(g) ==
  /\ child[g] = "running"
  /\ child' = [child EXCEPT ![g] = "dead"]
  /\ IF tearingDown[owner[g]] \/ closed[owner[g]]
     THEN UNCHANGED <<client, browserSessionId, slots, tearingDown, timers,
                      closing, stopping, stopSent>>
     ELSE Deactivate(owner[g])
  /\ UNCHANGED <<activating, closed, owner, phase, aws>>

\* client.close() settles, its child gone: deactivate goes on to
\* #stopBrowserSession with the id the session remembers NOW.
CloseReturns(g) ==
  /\ g \in closing
  /\ child[g] = "dead"
  /\ closing' = closing \ {g}
  /\ tearingDown' = [tearingDown EXCEPT ![owner[g]] = FALSE]
  /\ StopBrowserSessions({owner[g]})
  /\ UNCHANGED <<client, activating, closed, timers, owner, phase, external>>

\* stopSession settles, having stopped the session or not (the error is only
\* logged): the finally block gives the slot back, and an #activate that was
\* cleaning up rejects.
StopReturns(g) ==
  /\ g \in stopping
  /\ stopping' = stopping \ {g}
  /\ aws' \in {aws, [aws EXCEPT ![g] = "ended"]}
  /\ ReleaseSlots({owner[g]})
  /\ \/ phase[g] = "cleanup" /\ Settle(g, "aborted")
     \/ phase[g] # "cleanup" /\ UNCHANGED <<phase, activating>>
  /\ UNCHANGED <<client, browserSessionId, closed, tearingDown, timers, owner,
                 closing, child, stopSent>>

\* AWS ends a session at the TTL it was started with.
AwsExpires(g) ==
  /\ aws[g] = "live"
  /\ aws' = [aws EXCEPT ![g] = "ended"]
  /\ UNCHANGED <<client, browserSessionId, activating, closed, slots, tearingDown,
                 timers, owner, phase, closing, stopping, child, stopSent>>

-----------------------------------------------------------------------------
SessionStep(s) ==
  \/ BeginActivation(s)
  \/ ForwardCall(s)
  \/ IdleFires(s)
  \/ TtlFires(s)

GenerationStep(g) ==
  \/ StartReturns(g)
  \/ StartFails(g)
  \/ AttachSucceeds(g)
  \/ AttachFails(g)
  \/ ChildExits(g)
  \/ CloseReturns(g)
  \/ StopReturns(g)
  \/ AwsStarts(g)
  \/ AwsExpires(g)

Next ==
  \/ \E s \in Sessions : SessionStep(s)
  \/ \E S \in SUBSET Sessions : CloseAll(S)
  \/ \E g \in Generations : GenerationStep(g)

Spec == Init /\ [][Next]_vars

-----------------------------------------------------------------------------
(***************************************************************************)
(* What the code keeps.                                                    *)
(***************************************************************************)

\* The limiter's counter covers every session that holds a slot, so release()
\* never meets the zero its guard protects against, and stays within the cap:
\* #releaseSlot and the races of close, child death and a failing activation
\* never give the same slot back twice (session.js 163-168).
SlotAccounting ==
  /\ Cardinality(Holding(Sessions)) <= live
  /\ live <= MaxSessions

\* "Serialises concurrent first-calls so we mint exactly one browser session"
\* (session.js 41): whatever deactivations run meanwhile, a session has at most
\* one activation in flight, and none while a browser is attached.
SingleFlight ==
  /\ \A g \in Generations : phase[g] \in InFlight => activating[owner[g]] = g
  /\ \A s \in Sessions : client[s] # None => activating[s] = None

\* A browser is attached exactly while the TTL timer that will release it is
\* armed, and no idle timer outlives its browser: a timer armed for one browser
\* never fires on the next one, and none is left without a timer.
TimersGuardTheBrowser ==
  \A s \in Sessions :
    /\ ttlTimer[s] <=> client[s] # None
    /\ idleTimer[s] => client[s] # None

\* However many deactivations of a session overlap, an AgentCore session id is
\* sent to StopBrowserSession at most once: a remembered id was never sent.
StoppedOnce == \A s \in Sessions : browserSessionId[s] \notin stopSent

\* "Never leak a paid-for AgentCore session if attaching failed" (session.js
\* 130): an attach that failed has had its session stopped, by the activation
\* itself or by the deactivation that took the id from it.
FailedAttachIsStopped ==
  \A g \in Generations : phase[g] \in {"cleanup", "aborted"} => g \in stopSent

(***************************************************************************)
(* The inductive invariant the proofs use: what the fields of a session    *)
(* and the coroutines working on its generations know of one another.      *)
(***************************************************************************)

OwnersWired ==
  \A g \in Generations : phase[g] # "unused" => owner[g] \in Sessions

ClientsWired ==
  \A s \in Sessions : client[s] # None =>
    owner[client[s]] = s /\ phase[client[s]] = "attached"

IdsWired ==
  \A s \in Sessions : browserSessionId[s] # None =>
    /\ owner[browserSessionId[s]] = s
    /\ phase[browserSessionId[s]] \in {"attaching", "attached"}

\* The work still to be done for a generation is work of one that got that far.
CoroutinesWired ==
  \A g \in Generations :
    /\ g \in closing \/ child[g] = "running" => phase[g] = "attached"
    /\ g \in stopSent => phase[g] \in {"attaching", "cleanup", "aborted", "attached"}
    /\ g \in stopping => g \in stopSent

\* An id is forgotten only by sending it to be stopped while its attach runs.
AttachingRemembered ==
  \A g \in Generations :
    phase[g] = "attaching" => browserSessionId[owner[g]] = g \/ g \in stopSent

Wired ==
  OwnersWired /\ ClientsWired /\ IdsWired /\ CoroutinesWired /\ AttachingRemembered

IInv ==
  /\ TypeOK
  /\ Wired
  /\ SlotAccounting
  /\ SingleFlight
  /\ TimersGuardTheBrowser
  /\ StoppedOnce
  /\ FailedAttachIsStopped

-----------------------------------------------------------------------------
(***************************************************************************)
(* What the documentation says of the code and the code does not keep.     *)
(***************************************************************************)

\* makeLimiter "caps concurrent LIVE browser sessions" (server.js 38): no more
\* browsers are attached than the cap allows.
LiveWithinCap == Cardinality({s \in Sessions : client[s] # None}) <= MaxSessions

\* Nothing of the session is attached, starting or being torn down.
AtRest(s) ==
  /\ client[s] = None
  /\ activating[s] = None
  /\ \A g \in closing \union stopping : owner[g] # s

\* "Cap applies to LIVE browser sessions; idle MCP sessions cost nothing"
\* (session.js 53): with every session at rest no slot is taken.
IdleCostsNothing == (\A s \in Sessions : AtRest(s)) => live = 0
=============================================================================
