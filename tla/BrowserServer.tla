---------------------------- MODULE BrowserServer ----------------------------
(***************************************************************************)
(* The browser-mcp process (src/applications/browser-mcp/src/server.js):   *)
(* the table of MCP sessions, the background initialisation, what tears a  *)
(* session down, and the shutdown on SIGTERM.  It drives the browser       *)
(* sessions of module BrowserSession, whose variables and steps it shares. *)
(***************************************************************************)
EXTENDS BrowserSession

VARIABLES
  ready,             \* initState.ready
  entry,             \* the `sessions` table: "none", "open" or "gone" (deleted)
  shuttingDown,
  awaitedCloses,     \* generations whose client.close() a teardown of shutdown() awaits
  awaitedStops,      \* generations whose stopSession() a teardown of shutdown() awaits
  exited,            \* process.exit has run
  atSignal           \* history: the browsers attached to open sessions at the signal

drain      == <<awaitedCloses, awaitedStops>>
serverVars == <<ready, entry, shuttingDown, drain, exited, atSignal>>
allVars    == <<vars, serverVars>>

ServerTypeOK ==
  /\ TypeOK
  /\ ready \in BOOLEAN
  /\ entry \in [Sessions -> {"none", "open", "gone"}]
  /\ shuttingDown \in BOOLEAN
  /\ awaitedCloses \subseteq closing
  /\ awaitedStops \subseteq stopping
  /\ exited \in BOOLEAN
  /\ atSignal \subseteq Generations

ServerInit ==
  /\ Init
  /\ ready = FALSE
  /\ entry = [s \in Sessions |-> "none"]
  /\ shuttingDown = FALSE
  /\ awaitedCloses = {}
  /\ awaitedStops = {}
  /\ exited = FALSE
  /\ atSignal = {}

\* initLoop resolves the browser and the tool catalogue; a cycle that fails
\* changes nothing but its error message and is retried for ever.
Initialised ==
  /\ ~ready
  /\ ready' = TRUE
  /\ UNCHANGED <<vars, entry, shuttingDown, drain, exited, atSignal>>

\* An initialize request: build the objects and register them.
Initialise(s) ==
  /\ entry[s] = "none"
  /\ entry' = [entry EXCEPT ![s] = "open"]
  /\ UNCHANGED <<vars, ready, shuttingDown, drain, exited, atSignal>>

\* A tools/call of an advertised tool on a registered session.
CallTool(s) ==
  /\ ready
  /\ entry[s] = "open"
  /\ BeginActivation(s) \/ ForwardCall(s)
  /\ UNCHANGED serverVars

\* Mutant: the session is marked closed and its browser left to the timers.
TeardownWithoutDeactivate(s) ==
  /\ entry[s] = "open"
  /\ entry' = [entry EXCEPT ![s] = "gone"]
  /\ closed' = [closed EXCEPT ![s] = TRUE]
  /\ UNCHANGED <<client, browserSessionId, activating, slots, tearingDown, timers,
                 owner, phase, closing, stopping, external, stopSent>>
  /\ UNCHANGED <<ready, shuttingDown, drain, exited, atSignal>>

\* Mutant: no sessions.delete.
TeardownKeepingEntry(s) ==
  /\ entry[s] = "open" /\ ~closed[s]
  /\ CloseAll({s})
  /\ UNCHANGED serverVars

\* teardown(): the client sent DELETE, its transport closed, or the reaper found
\* the session abandoned.
Teardown(s) ==
  /\ entry[s] = "open"
  /\ entry' = [entry EXCEPT ![s] = "gone"]
  /\ CloseAll({s})
  /\ UNCHANGED <<ready, shuttingDown, drain, exited, atSignal>>

OpenSessions == {s \in Sessions : entry[s] = "open"}

\* Mutant: the exit does not wait for the children being closed.
ExitWhenStopped ==
  exited' = (shuttingDown' /\ awaitedStops' = {})

\* process.exit(0) runs in the microtasks that settle the last teardown shutdown()
\* awaits: no other handler runs between the two.
ExitWhenDrained ==
  exited' = (shuttingDown' /\ awaitedCloses' = {} /\ awaitedStops' = {})

\* shutdown(): every registered session is torn down before the first await;
\* what those teardowns wait for is what the exit waits for.
Shutdown ==
  /\ ~shuttingDown
  /\ shuttingDown' = TRUE
  /\ entry' = [s \in Sessions |-> IF s \in OpenSessions THEN "gone" ELSE entry[s]]
  /\ CloseAll(OpenSessions)
  /\ awaitedCloses' = Attached(OpenSessions)
  /\ awaitedStops' = Remembered({s \in OpenSessions : client[s] = None})
  /\ atSignal' = Attached(OpenSessions)
  /\ ExitWhenDrained
  /\ UNCHANGED ready

\* deactivate() resumes after client.close(); a teardown that shutdown() awaits
\* goes on to await the stop it has just sent.
CloseSettles(g) ==
  /\ CloseReturns(g)
  /\ awaitedCloses' = awaitedCloses \ {g}
  /\ awaitedStops' = awaitedStops \union
       (IF g \in awaitedCloses THEN Remembered({owner[g]}) ELSE {})
  /\ UNCHANGED <<ready, entry, shuttingDown, atSignal>>
  /\ ExitWhenDrained

\* Mutant: a stop that settles does not settle the teardown awaiting it.
StopSettlesUnnoticed(g) ==
  /\ StopReturns(g)
  /\ UNCHANGED serverVars

StopSettles(g) ==
  /\ StopReturns(g)
  /\ awaitedStops' = awaitedStops \ {g}
  /\ UNCHANGED <<ready, entry, shuttingDown, awaitedCloses, atSignal>>
  /\ ExitWhenDrained

\* The other steps of a generation, which the server takes no part in.
ActivationStep(g) ==
  /\ \/ StartReturns(g)
     \/ StartFails(g)
     \/ AttachSucceeds(g)
     \/ AttachFails(g)
     \/ ChildExits(g)
  /\ UNCHANGED serverVars

TimerStep(s) ==
  /\ IdleFires(s) \/ TtlFires(s)
  /\ UNCHANGED serverVars

\* What AWS does, whether the process is there or not.
AwsStep(g) ==
  /\ AwsStarts(g) \/ AwsExpires(g)
  /\ UNCHANGED serverVars

ProcessStep ==
  \/ Initialised
  \/ Shutdown
  \/ \E s \in Sessions : Initialise(s) \/ CallTool(s) \/ Teardown(s) \/ TimerStep(s)
  \/ \E g \in Generations : ActivationStep(g) \/ CloseSettles(g) \/ StopSettles(g)

ServerNext ==
  \/ ~exited /\ ProcessStep
  \/ \E g \in Generations : AwsStep(g)

ServerSpec == ServerInit /\ [][ServerNext]_allVars

\* What the event loop and the services it calls owe while the process runs: an
\* armed TTL timer fires, a request to AWS is answered or fails, an attach
\* succeeds or fails, a child being closed dies, and settled promises resume
\* the code awaiting them.  Callers, idleness and AWS's own TTL owe nothing.
Fairness ==
  /\ \A s \in Sessions : WF_allVars(~exited /\ TtlFires(s) /\ UNCHANGED serverVars)
  /\ \A g \in Generations :
       /\ WF_allVars(~exited /\ (StartReturns(g) \/ StartFails(g)) /\ UNCHANGED serverVars)
       /\ WF_allVars(~exited /\ (AttachSucceeds(g) \/ AttachFails(g)) /\ UNCHANGED serverVars)
       /\ WF_allVars(~exited /\ g \in closing /\ ChildExits(g) /\ UNCHANGED serverVars)
       /\ WF_allVars(~exited /\ CloseSettles(g))
       /\ WF_allVars(~exited /\ StopSettles(g))

FairSpec == ServerSpec /\ Fairness

-----------------------------------------------------------------------------
(***************************************************************************)
(* What the code keeps.                                                    *)
(***************************************************************************)

\* The server only ever drives its browser sessions through the steps of
\* BrowserSession, so what is proved there holds of the process.
SessionsImplemented == Spec

\* A browser attached to a registered session when the signal came has been sent
\* to be stopped before the process exits, whatever teardown, child death or
\* re-activation its session was in the middle of: "All live sessions released
\* before exit" (DESIGN.md 192), of the sessions that were attached.
AttachedReleasedBeforeExit == exited => atSignal \subseteq stopSent

\* A session leaves the table exactly when it is closed, so no browser can be
\* minted for a conversation nobody can reach or tear down any more.
UnregisteredIsClosed ==
  \A s \in Sessions :
    /\ closed[s] <=> entry[s] = "gone"
    /\ entry[s] = "none" => AtRest(s) /\ ~holdsSlot[s]

\* shutdown() always reaches process.exit: nothing it awaits waits for a call,
\* a timer or an activation in flight.
ShutdownExits == shuttingDown ~> exited

\* A closed session comes to rest even when close() ran under an activation:
\* the browser that attached afterwards is released and its slot is given back.
ClosedComesToRest ==
  \A s \in Sessions : closed[s] ~> [](exited \/ (client[s] = None /\ ~holdsSlot[s]))

\* A child that died is let go, also when onclose ignored its death because
\* another teardown was under way or the session was closed.
DeadChildIsReleased ==
  \A s \in Sessions, g \in Generations :
    client[s] = g /\ child[g] = "dead" ~> exited \/ client[s] # g

(***************************************************************************)
(* What the proofs add to IInv.                                            *)
(***************************************************************************)

\* The id of an attached browser is forgotten only by sending it to be stopped.
AttachedRemembered ==
  \A s \in Sessions :
    client[s] # None => browserSessionId[s] = client[s] \/ client[s] \in stopSent

\* A browser whose close the shutdown awaits belongs to a closed session with no
\* activation that could overwrite its id, so resuming the teardown stops it.
Held(g) ==
  /\ owner[g] \in Sessions
  /\ phase[g] = "attached"
  /\ closed[owner[g]]
  /\ activating[owner[g]] = None
  /\ browserSessionId[owner[g]] = g \/ g \in stopSent

DrainWired ==
  /\ awaitedCloses \subseteq closing
  /\ \A g \in awaitedCloses : Held(g)
  /\ atSignal \subseteq stopSent \union awaitedCloses
  /\ exited => awaitedCloses = {}

ServerInv == IInv /\ AttachedRemembered /\ DrainWired

-----------------------------------------------------------------------------
(***************************************************************************)
(* What the documentation says of the code and the code does not keep.     *)
(***************************************************************************)

\* "Rollouts and scale-downs do not leak sessions" (DESIGN.md 50): at the exit
\* AWS runs no session that the process never asked it to stop.
ExitLeaksNothing == exited => \A g \in Generations : aws[g] = "live" => g \in stopSent
=============================================================================
