-------------------------- MODULE InterpreterServer --------------------------
(***************************************************************************)
(* The code-interpreter-mcp process                                        *)
(* (src/applications/code-interpreter-mcp/src/server.js): the table of MCP *)
(* sessions, the background initialisation, what closes a session, and the *)
(* shutdown on SIGTERM, over the sessions of InterpreterSession.           *)
(***************************************************************************)
EXTENDS InterpreterSession

VARIABLES
  ready,         \* initState.ready
  entry,         \* the `sessions` table: "none", "open" or "gone" (deleted)
  shuttingDown,
  awaited,       \* generations whose stopSession() shutdown() awaits
  exited         \* process.exit has run

serverVars == <<ready, entry, shuttingDown, awaited, exited>>
allVars    == <<vars, serverVars>>

ServerTypeOK ==
  /\ TypeOK
  /\ ready \in BOOLEAN
  /\ entry \in [Sessions -> {"none", "open", "gone"}]
  /\ shuttingDown \in BOOLEAN
  /\ awaited \subseteq stopping
  /\ exited \in BOOLEAN

ServerInit ==
  /\ Init
  /\ ready = FALSE
  /\ entry = [s \in Sessions |-> "none"]
  /\ shuttingDown = FALSE
  /\ awaited = {}
  /\ exited = FALSE

\* initLoop resolves the interpreter; a cycle that fails is retried for ever.
Initialised ==
  /\ ~ready
  /\ ready' = TRUE
  /\ UNCHANGED <<vars, entry, shuttingDown, awaited, exited>>

\* A request without a session id registers a new session.
Initialise(s) ==
  /\ entry[s] = "none"
  /\ entry' = [entry EXCEPT ![s] = "open"]
  /\ UNCHANGED <<vars, ready, shuttingDown, awaited, exited>>

\* A tools/call of a known tool on a registered session.  Also after the signal:
\* shutdown() leaves the sessions in the table and the listener open meanwhile.
CallTool(c, s) ==
  /\ ready
  /\ entry[s] = "open"
  /\ CallArrives(c, s)
  /\ UNCHANGED serverVars

\* DELETE, or the reaper: the session leaves the table and is closed.
Teardown(s) ==
  /\ entry[s] = "open"
  /\ entry' = [entry EXCEPT ![s] = "gone"]
  /\ CloseAll({s})
  /\ UNCHANGED <<ready, shuttingDown, awaited, exited>>

OpenSessions == {s \in Sessions : entry[s] = "open"}

\* shutdown() up to its await: every registered session is closed.
Shutdown ==
  /\ ~shuttingDown
  /\ shuttingDown' = TRUE
  /\ awaited' = Remembered(OpenSessions)
  /\ CloseAll(OpenSessions)
  /\ UNCHANGED <<ready, entry, exited>>

\* Mutant: a stop that settles does not settle the close awaiting it.
StopSettlesUnnoticed(g) ==
  /\ StopReturns(g)
  /\ UNCHANGED serverVars

StopSettles(g) ==
  /\ StopReturns(g)
  /\ awaited' = awaited \ {g}
  /\ UNCHANGED <<ready, entry, shuttingDown, exited>>

\* The closes have settled: the process exits when its connections are done, or
\* ten seconds later.
Exit ==
  /\ shuttingDown
  /\ awaited = {}
  /\ exited' = TRUE
  /\ UNCHANGED <<vars, ready, entry, shuttingDown, awaited>>

ProcessStep ==
  \/ Initialised
  \/ Shutdown
  \/ Exit
  \/ \E s \in Sessions : Initialise(s) \/ Teardown(s)
  \/ \E c \in Calls, s \in Sessions : CallTool(c, s)
  \/ \E g \in Generations : StopSettles(g)

\* The other steps of the sessions, which the server takes no part in.
SessionStep ==
  /\ \/ \E c \in Calls : CallFinishes(c)
     \/ \E s \in Sessions : IdleFires(s) \/ TtlFires(s)
     \/ \E g \in Generations : StartReturns(g) \/ StartFails(g)
  /\ UNCHANGED serverVars

ServerNext ==
  \/ ~exited /\ (ProcessStep \/ SessionStep)
  \/ AwsStep /\ UNCHANGED serverVars

ServerSpec == ServerInit /\ [][ServerNext]_allVars

\* What the event loop and AWS owe while the process runs: an armed TTL timer
\* fires, a request that starts or stops a session is answered or fails, and the
\* exit follows the closes.  Callers, idleness and tool calls owe nothing.
Fairness ==
  /\ WF_allVars(~exited /\ Exit)
  /\ \A s \in Sessions : WF_allVars(~exited /\ TtlFires(s) /\ UNCHANGED serverVars)
  /\ \A g \in Generations :
       /\ WF_allVars(~exited /\ (StartReturns(g) \/ StartFails(g)) /\ UNCHANGED serverVars)
       /\ WF_allVars(~exited /\ StopSettles(g))

FairSpec == ServerSpec /\ Fairness

-----------------------------------------------------------------------------
(***************************************************************************)
(* What the code keeps.                                                    *)
(***************************************************************************)

\* Open tasks and calls that never end only ever postpone idle eviction: an
\* AgentCore session in use is given up in the end, so it never stays for the
\* service's own TTL to end it mid-call (session.js 62-63).
SessionsAreReleased ==
  \A s \in Sessions, g \in Generations : sessionId[s] = g ~> exited \/ sessionId[s] # g

\* A closed session comes to rest, also when close() ran under an activation: the
\* session that started afterwards is stopped and its slot given back.
ClosedComesToRest ==
  \A s \in Sessions : closed[s] ~> [](exited \/ (sessionId[s] = None /\ ~holdsSlot[s]))

\* shutdown() always reaches process.exit, whatever calls are in flight.
ShutdownExits == shuttingDown ~> exited
=============================================================================
