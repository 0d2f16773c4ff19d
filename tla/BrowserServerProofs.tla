------------------------ MODULE BrowserServerProofs -------------------------
(***************************************************************************)
(* TLAPS proofs about BrowserServer: the server implements BrowserSession, *)
(* and no browser attached when the signal came is left behind by the exit.*)
(***************************************************************************)
EXTENDS BrowserServer, BrowserSessionProofs

-----------------------------------------------------------------------------
(***************************************************************************)
(* The server takes only steps of its sessions.                            *)
(***************************************************************************)

\* Every step of the server is a step of the sessions or leaves them alone.
LEMMA ServerStepIsSessionStep == [ServerNext]_allVars => [Next]_vars
<1>. SUFFICES ASSUME ServerNext \/ UNCHANGED allVars PROVE Next \/ UNCHANGED vars
  OBVIOUS
<1>1. ASSUME NEW s \in Sessions, Initialise(s) \/ CallTool(s) \/ Teardown(s) \/ TimerStep(s)
      PROVE  Next \/ UNCHANGED vars
  <2>1. CASE Initialise(s)
    BY <2>1 DEF Initialise
  <2>2. CASE CallTool(s)
    BY <2>2 DEF CallTool, Next, SessionStep
  <2>3. CASE TimerStep(s)
    BY <2>3 DEF TimerStep, Next, SessionStep
  <2>4. CASE Teardown(s)
    <3>1. CloseAll({s}) /\ {s} \in SUBSET Sessions
      BY <2>4 DEF Teardown
    <3>. QED
      BY <3>1 DEF Next
  <2>. QED
    BY <1>1, <2>1, <2>2, <2>3, <2>4
<1>2. ASSUME NEW g \in Generations,
             ActivationStep(g) \/ CloseSettles(g) \/ StopSettles(g) \/ AwsStep(g)
      PROVE  Next
  BY <1>2 DEF ActivationStep, CloseSettles, StopSettles, AwsStep, Next, GenerationStep
<1>3. CASE Shutdown
  <2>1. CloseAll(OpenSessions) /\ OpenSessions \in SUBSET Sessions
    BY <1>3 DEF Shutdown, OpenSessions
  <2>. QED
    BY <2>1 DEF Next
<1>4. CASE Initialised
  BY <1>4 DEF Initialised
<1>5. CASE UNCHANGED allVars
  BY <1>5 DEF allVars
<1>. QED
  BY <1>1, <1>2, <1>3, <1>4, <1>5 DEF ServerNext, ProcessStep

\* The server implements its sessions' specification.
THEOREM ServerImplementsSessions == ServerSpec => SessionsImplemented
<1>1. ServerInit => Init
  BY DEF ServerInit
<1>. QED
  BY <1>1, ServerStepIsSessionStep, PTL DEF ServerSpec, SessionsImplemented, Spec

-----------------------------------------------------------------------------
(***************************************************************************)
(* What each step of a session does to the browsers the exit waits for.    *)
(***************************************************************************)

\* Requests to stop a session are never taken back, and the coroutine awaiting a
\* client.close() goes on only when that close settles.
LEMMA StopsOnlyGrow ==
  ASSUME Next
  PROVE  /\ stopSent \subseteq stopSent'
         /\ \/ closing \subseteq closing'
            \/ \E g \in Generations : CloseReturns(g)
<1>1. ASSUME NEW S \in SUBSET Sessions, DeactivateAll(S)
      PROVE  stopSent \subseteq stopSent' /\ closing \subseteq closing'
  BY <1>1 DEF DeactivateAll, StopBrowserSessions
<1>2. ASSUME NEW s \in Sessions, SessionStep(s)
      PROVE  stopSent \subseteq stopSent' /\ closing \subseteq closing'
  <2>1. CASE BeginActivation(s) \/ ForwardCall(s)
    BY <2>1 DEF BeginActivation, ForwardCall
  <2>2. CASE IdleFires(s) \/ TtlFires(s)
    BY <2>2, <1>1 DEF IdleFires, TtlFires, Deactivate
  <2>. QED
    BY <1>2, <2>1, <2>2 DEF SessionStep
<1>3. ASSUME NEW S \in SUBSET Sessions, CloseAll(S)
      PROVE  stopSent \subseteq stopSent' /\ closing \subseteq closing'
  BY <1>1, <1>3 DEF CloseAll
<1>4. ASSUME NEW g \in Generations, GenerationStep(g), ~CloseReturns(g)
      PROVE  stopSent \subseteq stopSent' /\ closing \subseteq closing'
  <2>1. CASE StartReturns(g) \/ StartFails(g) \/ AttachSucceeds(g) \/ AwsStarts(g) \/ AwsExpires(g)
    BY <2>1 DEF StartReturns, StartFails, AttachSucceeds, AwsStarts, AwsExpires
  <2>2. CASE AttachFails(g)
    BY <2>2 DEF AttachFails, StopBrowserSessions
  <2>3. CASE StopReturns(g)
    BY <2>3 DEF StopReturns
  <2>4. CASE ChildExits(g)
    <3>1. CASE tearingDown[owner[g]] \/ closed[owner[g]]
      BY <2>4, <3>1 DEF ChildExits
    <3>2. CASE ~(tearingDown[owner[g]] \/ closed[owner[g]])
      BY <2>4, <3>2 DEF ChildExits, Deactivate, DeactivateAll, StopBrowserSessions
    <3>. QED
      BY <3>1, <3>2
  <2>. QED
    BY <1>4, <2>1, <2>2, <2>3, <2>4 DEF GenerationStep
<1>5. ASSUME NEW g \in Generations, CloseReturns(g)
      PROVE  stopSent \subseteq stopSent'
  BY <1>5 DEF CloseReturns, StopBrowserSessions
<1>. QED
  BY <1>2, <1>3, <1>4, <1>5 DEF Next

\* An id leaves a session by being sent to be stopped, or is overwritten by the
\* activation in flight there.
LEMMA IdsAreStoppedOrOverwritten ==
  ASSUME IInv, Next, NEW s \in Sessions, activating[s] = None
  PROVE  browserSessionId[s] # None =>
           browserSessionId'[s] = browserSessionId[s] \/ browserSessionId[s] \in stopSent'
<1>. DEFINE Kept == browserSessionId[s] # None =>
              browserSessionId'[s] = browserSessionId[s] \/ browserSessionId[s] \in stopSent'
<1>1. ASSUME NEW S \in SUBSET Sessions, StopBrowserSessions(S)
      PROVE  Kept
  BY <1>1 DEF StopBrowserSessions, Assign, Remembered
<1>2. ASSUME NEW S \in SUBSET Sessions, DeactivateAll(S)
      PROVE  Kept
  <2>1. {r \in S : client[r] = None} \in SUBSET Sessions
    OBVIOUS
  <2>2. StopBrowserSessions({r \in S : client[r] = None})
    BY <1>2 DEF DeactivateAll
  <2>. QED
    BY <2>1, <2>2, <1>1
<1>3. ASSUME NEW r \in Sessions, SessionStep(r)
      PROVE  Kept
  <2>1. CASE BeginActivation(r) \/ ForwardCall(r)
    BY <2>1 DEF BeginActivation, ForwardCall
  <2>2. CASE IdleFires(r) \/ TtlFires(r)
    BY <2>2, <1>2 DEF IdleFires, TtlFires, Deactivate
  <2>. QED
    BY <1>3, <2>1, <2>2 DEF SessionStep
<1>4. ASSUME NEW S \in SUBSET Sessions, CloseAll(S)
      PROVE  Kept
  BY <1>2, <1>4 DEF CloseAll
<1>5. ASSUME NEW g \in Generations, GenerationStep(g)
      PROVE  Kept
  <2>1. CASE StartFails(g) \/ AttachSucceeds(g) \/ AwsStarts(g) \/ AwsExpires(g) \/ StopReturns(g)
    BY <2>1 DEF StartFails, AttachSucceeds, AwsStarts, AwsExpires, StopReturns
  <2>2. CASE StartReturns(g)
    <3>1. activating[owner[g]] = g /\ g # None
      BY <2>2, GenerationsAssumption DEF StartReturns, IInv, SingleFlight, InFlight
    <3>2. owner[g] # s
      BY <3>1
    <3>3. browserSessionId' = [browserSessionId EXCEPT ![owner[g]] = g]
      BY <2>2 DEF StartReturns
    <3>. QED
      BY <3>2, <3>3 DEF IInv, TypeOK
  <2>3. CASE AttachFails(g) \/ CloseReturns(g)
    <3>1. phase[g] # "unused"
      BY <2>3 DEF AttachFails, CloseReturns, IInv, Wired, CoroutinesWired
    <3>2. {owner[g]} \in SUBSET Sessions
      BY <3>1 DEF IInv, Wired, OwnersWired
    <3>. QED
      BY <2>3, <3>2, <1>1 DEF AttachFails, CloseReturns
  <2>4. CASE ChildExits(g)
    <3>1. owner[g] \in Sessions
      BY <2>4 DEF ChildExits, IInv, Wired, CoroutinesWired, OwnersWired
    <3>2. CASE tearingDown[owner[g]] \/ closed[owner[g]]
      BY <2>4, <3>2 DEF ChildExits
    <3>3. CASE ~(tearingDown[owner[g]] \/ closed[owner[g]])
      <4>1. DeactivateAll({owner[g]}) /\ {owner[g]} \in SUBSET Sessions
        BY <2>4, <3>1, <3>3 DEF ChildExits, Deactivate
      <4>. QED
        BY <4>1, <1>2
    <3>. QED
      BY <3>2, <3>3
  <2>. QED
    BY <1>5, <2>1, <2>2, <2>3, <2>4 DEF GenerationStep
<1>. QED
  BY <1>3, <1>4, <1>5 DEF Next

\* The id of an attached browser stays with its session until it is sent.
LEMMA AttachedRememberedKept ==
  ASSUME IInv, AttachedRemembered, Next
  PROVE  AttachedRemembered'
<1>. SUFFICES ASSUME NEW s \in Sessions, client'[s] # None
              PROVE  browserSessionId'[s] = client'[s] \/ client'[s] \in stopSent'
  BY DEF AttachedRemembered
<1>1. ASSUME client'[s] = client[s]
      PROVE  browserSessionId'[s] = client'[s] \/ client'[s] \in stopSent'
  <2>1. client[s] # None /\ activating[s] = None
    BY <1>1 DEF IInv, SingleFlight
  <2>2. browserSessionId[s] = client[s] \/ client[s] \in stopSent
    BY <2>1 DEF AttachedRemembered
  <2>. QED
    BY <1>1, <2>1, <2>2, StopsOnlyGrow, IdsAreStoppedOrOverwritten
<1>2. ASSUME NEW g \in Generations, AttachSucceeds(g), owner[g] = s
      PROVE  browserSessionId'[s] = client'[s] \/ client'[s] \in stopSent'
  <2>1. /\ phase[g] = "attaching"
        /\ client' = [client EXCEPT ![s] = g]
        /\ UNCHANGED <<browserSessionId, stopSent>>
    BY <1>2 DEF AttachSucceeds
  <2>2. browserSessionId[s] = g \/ g \in stopSent
    BY <1>2, <2>1 DEF IInv, Wired, AttachingRemembered
  <2>. QED
    BY <2>1, <2>2 DEF IInv, TypeOK
<1>3. client'[s] = client[s] \/ \E g \in Generations : AttachSucceeds(g) /\ owner[g] = s
  <2>1. ASSUME NEW S \in SUBSET Sessions, DeactivateAll(S)
        PROVE  client'[s] = client[s]
    BY <2>1 DEF DeactivateAll, Assign
  <2>2. ASSUME NEW r \in Sessions, SessionStep(r)
        PROVE  client'[s] = client[s]
    <3>1. CASE BeginActivation(r) \/ ForwardCall(r)
      BY <3>1 DEF BeginActivation, ForwardCall
    <3>2. CASE IdleFires(r) \/ TtlFires(r)
      BY <3>2, <2>1 DEF IdleFires, TtlFires, Deactivate
    <3>. QED
      BY <2>2, <3>1, <3>2 DEF SessionStep
  <2>3. ASSUME NEW S \in SUBSET Sessions, CloseAll(S)
        PROVE  client'[s] = client[s]
    BY <2>1, <2>3 DEF CloseAll
  <2>4. ASSUME NEW g \in Generations, GenerationStep(g),
               ~(AttachSucceeds(g) /\ owner[g] = s)
        PROVE  client'[s] = client[s]
    <3>1. CASE StartReturns(g) \/ StartFails(g) \/ AttachFails(g) \/ CloseReturns(g)
               \/ StopReturns(g) \/ AwsStarts(g) \/ AwsExpires(g)
      BY <3>1 DEF StartReturns, StartFails, AttachFails, CloseReturns, StopReturns,
                  AwsStarts, AwsExpires
    <3>2. CASE AttachSucceeds(g)
      <4>1. client' = [client EXCEPT ![owner[g]] = g] /\ owner[g] # s
        BY <2>4, <3>2 DEF AttachSucceeds
      <4>. QED
        BY <4>1 DEF IInv, TypeOK
    <3>3. CASE ChildExits(g)
      <4>1. owner[g] \in Sessions
        BY <3>3 DEF ChildExits, IInv, Wired, CoroutinesWired, OwnersWired
      <4>2. CASE tearingDown[owner[g]] \/ closed[owner[g]]
        BY <3>3, <4>2 DEF ChildExits
      <4>3. CASE ~(tearingDown[owner[g]] \/ closed[owner[g]])
        <5>1. DeactivateAll({owner[g]}) /\ {owner[g]} \in SUBSET Sessions
          BY <3>3, <4>1, <4>3 DEF ChildExits, Deactivate
        <5>. QED
          BY <5>1, <2>1
      <4>. QED
        BY <4>2, <4>3
    <3>. QED
      BY <2>4, <3>1, <3>2, <3>3 DEF GenerationStep
  <2>. QED
    BY <2>2, <2>3, <2>4 DEF Next
<1>. QED
  BY <1>1, <1>2, <1>3

\* A browser the shutdown waits for stays under the same session, which stays
\* closed, so no activation starts there.
LEMMA HeldKept ==
  ASSUME IInv, Next, NEW g \in Generations, Held(g)
  PROVE  Held(g)'
<1>1. /\ owner'[g] = owner[g]
      /\ phase'[g] = "attached"
      /\ closed'[owner[g]]
      /\ activating'[owner[g]] = None
  <2>. DEFINE Still == /\ owner'[g] = owner[g]
                       /\ phase'[g] = "attached"
                       /\ closed'[owner[g]]
                       /\ activating'[owner[g]] = None
  <2>1. ASSUME NEW s \in Sessions, SessionStep(s) PROVE Still
    <3>1. CASE BeginActivation(s)
      <4>1. s # owner[g] /\ NextGeneration # g
        <5>1. ~closed[s] /\ Unused # {}
          BY <3>1 DEF BeginActivation
        <5>2. NextGeneration \in Unused
          BY <5>1 DEF NextGeneration
        <5>. QED
          BY <5>1, <5>2 DEF Held, Unused
      <4>2. /\ owner' = [owner EXCEPT ![NextGeneration] = s]
            /\ phase' = [phase EXCEPT ![NextGeneration] = "starting"]
            /\ activating' = [activating EXCEPT ![s] = NextGeneration]
            /\ UNCHANGED closed
        BY <3>1 DEF BeginActivation
      <4>. QED
        BY <4>1, <4>2 DEF Held, IInv, TypeOK
    <3>2. CASE ForwardCall(s) \/ IdleFires(s) \/ TtlFires(s)
      BY <3>2 DEF ForwardCall, IdleFires, TtlFires, Held
    <3>. QED
      BY <2>1, <3>1, <3>2 DEF SessionStep
  <2>2. ASSUME NEW S \in SUBSET Sessions, CloseAll(S) PROVE Still
    BY <2>2 DEF CloseAll, Assign, Held
  <2>3. ASSUME NEW h \in Generations, GenerationStep(h) PROVE Still
    <3>1. CASE ChildExits(h) \/ CloseReturns(h) \/ AwsStarts(h) \/ AwsExpires(h)
      BY <3>1 DEF ChildExits, CloseReturns, AwsStarts, AwsExpires, Held
    <3>2. CASE phase[h] \in InFlight
      <4>1. h # g /\ activating[owner[h]] = h /\ owner[h] # owner[g]
        BY <3>2, GenerationsAssumption DEF Held, IInv, SingleFlight, InFlight
      <4>2. /\ UNCHANGED <<owner, closed>>
            /\ \/ UNCHANGED phase
               \/ \E p \in Phases : phase' = [phase EXCEPT ![h] = p]
            /\ \/ UNCHANGED activating
               \/ activating' = [activating EXCEPT ![owner[h]] = None]
        BY <2>3, <3>2 DEF GenerationStep, StartReturns, StartFails, AttachSucceeds,
             AttachFails, ChildExits, CloseReturns, StopReturns, AwsStarts, AwsExpires,
             Settle, InFlight, Phases
      <4>. QED
        BY <4>1, <4>2 DEF Held, IInv, TypeOK
    <3>3. CASE StopReturns(h) /\ phase[h] \notin InFlight
      BY <3>3 DEF StopReturns, InFlight, Held
    <3>. QED
      BY <2>3, <3>1, <3>2, <3>3 DEF GenerationStep, StartReturns, StartFails,
         AttachSucceeds, AttachFails, InFlight
  <2>. QED
    BY <2>1, <2>2, <2>3 DEF Next
<1>2. browserSessionId'[owner[g]] = g \/ g \in stopSent'
  BY StopsOnlyGrow, IdsAreStoppedOrOverwritten, GenerationsAssumption DEF Held
<1>. QED
  BY <1>1, <1>2 DEF Held

-----------------------------------------------------------------------------
(***************************************************************************)
(* The exit.                                                               *)
(***************************************************************************)

\* When the signal comes every browser attached to an open session is held.
LEMMA ShutdownHolds ==
  ASSUME IInv, IInv', AttachedRemembered, Shutdown
  PROVE  /\ awaitedCloses' \subseteq closing'
         /\ \A g \in awaitedCloses' : Held(g)'
         /\ atSignal' = awaitedCloses'
<1>1. /\ awaitedCloses' = Attached(OpenSessions)
      /\ atSignal' = Attached(OpenSessions)
      /\ CloseAll(OpenSessions)
  BY DEF Shutdown
<1>2. /\ closing' = closing \union Attached(OpenSessions)
      /\ closed' = Assign(closed, OpenSessions, TRUE)
      /\ UNCHANGED <<activating, owner, phase>>
      /\ StopBrowserSessions({s \in OpenSessions : client[s] = None})
  BY <1>1 DEF CloseAll, DeactivateAll
<1>3. ASSUME NEW g \in awaitedCloses' PROVE Held(g)'
  <2>1. PICK s \in OpenSessions : client[s] = g /\ g # None
    BY <1>1, <1>3 DEF Attached
  <2>2. /\ s \in Sessions
        /\ owner[g] = s
        /\ phase[g] = "attached"
        /\ activating[s] = None
        /\ browserSessionId[s] = g \/ g \in stopSent
    BY <2>1 DEF OpenSessions, AttachedRemembered, IInv, Wired, ClientsWired, SingleFlight
  <2>3. closed'[s]
    BY <1>2, <2>1, <2>2 DEF Assign
  <2>4. browserSessionId'[s] = browserSessionId[s] /\ stopSent \subseteq stopSent'
    BY <1>2, <2>1, <2>2 DEF StopBrowserSessions, Assign
  <2>. QED
    BY <1>2, <2>2, <2>3, <2>4 DEF Held
<1>. QED
  BY <1>1, <1>2, <1>3

\* A teardown that resumes has sent its browser to be stopped.
LEMMA CloseSettlesStops ==
  ASSUME IInv, NEW g \in Generations, CloseSettles(g), Held(g)
  PROVE  g \in stopSent'
<1>1. stopSent' = stopSent \union Remembered({owner[g]})
  BY DEF CloseSettles, CloseReturns, StopBrowserSessions
<1>2. browserSessionId[owner[g]] = g => g \in Remembered({owner[g]})
  BY GenerationsAssumption DEF Remembered
<1>. QED
  BY <1>1, <1>2 DEF Held

\* The wiring of the drain is kept by every step of the server.
LEMMA DrainWiredKept ==
  ASSUME ServerInv, IInv', [ServerNext]_allVars
  PROVE  DrainWired'
<1>1. CASE UNCHANGED allVars
  BY <1>1 DEF allVars, vars, serverVars, drain, ServerInv, DrainWired, Held
<1>2. CASE ServerNext /\ ~(~exited /\ ProcessStep)
  <2>1. PICK g \in Generations : AwsStep(g)
    BY <1>2 DEF ServerNext
  <2>. QED
    BY <2>1 DEF AwsStep, AwsStarts, AwsExpires, serverVars, drain, ServerInv,
                DrainWired, Held
<1>3. CASE ~exited /\ ProcessStep
  <2>. USE DEF ServerInv
  <2>1. Next \/ UNCHANGED vars
    BY <1>3, ServerStepIsSessionStep DEF ServerNext
  <2>2. ASSUME NEW g \in awaitedCloses PROVE Held(g)'
    <3>1. g \in Generations /\ Held(g)
      BY <2>2 DEF DrainWired, IInv, TypeOK
    <3>2. CASE Next
      BY <3>1, <3>2, HeldKept
    <3>3. CASE UNCHANGED vars
      BY <3>1, <3>3 DEF vars, Held
    <3>. QED
      BY <2>1, <3>2, <3>3
  <2>3. stopSent \subseteq stopSent'
    BY <2>1, StopsOnlyGrow DEF vars
  <2>4. CASE Shutdown
    <3>1. /\ awaitedCloses' \subseteq closing'
          /\ \A g \in awaitedCloses' : Held(g)'
          /\ atSignal' = awaitedCloses'
      BY <2>4, ShutdownHolds
    <3>2. exited' => awaitedCloses' = {}
      BY <2>4 DEF Shutdown, ExitWhenDrained
    <3>. QED
      BY <3>1, <3>2 DEF DrainWired
  <2>5. ASSUME NEW g \in Generations, CloseSettles(g) PROVE DrainWired'
    <3>1. /\ awaitedCloses' = awaitedCloses \ {g}
          /\ atSignal' = atSignal
          /\ closing' = closing \ {g}
          /\ exited' => awaitedCloses' = {}
      BY <2>5 DEF CloseSettles, CloseReturns, ExitWhenDrained
    <3>2. g \in awaitedCloses => g \in stopSent'
      BY <2>5, CloseSettlesStops DEF DrainWired
    <3>. QED
      BY <2>2, <2>3, <3>1, <3>2 DEF DrainWired
  <2>6. ASSUME NEW g \in Generations, StopSettles(g) PROVE DrainWired'
    <3>1. /\ UNCHANGED <<awaitedCloses, atSignal, closing>>
          /\ exited' => awaitedCloses' = {}
      BY <2>6 DEF StopSettles, StopReturns, ExitWhenDrained
    <3>. QED
      BY <2>2, <2>3, <3>1 DEF DrainWired
  <2>7. ASSUME UNCHANGED <<awaitedCloses, atSignal, exited>>, closing \subseteq closing'
        PROVE  DrainWired'
    BY <1>3, <2>2, <2>3, <2>7 DEF DrainWired
  <2>8. ASSUME NEW S \in SUBSET Sessions, DeactivateAll(S) PROVE closing \subseteq closing'
    BY <2>8 DEF DeactivateAll
  <2>9. ASSUME NEW s \in Sessions, Initialise(s) \/ CallTool(s) \/ Teardown(s) \/ TimerStep(s)
        PROVE  DrainWired'
    <3>1. UNCHANGED <<awaitedCloses, atSignal, exited>>
      BY <2>9 DEF Initialise, CallTool, Teardown, TimerStep, serverVars, drain
    <3>2. CASE Initialise(s)
      BY <3>1, <3>2, <2>7 DEF Initialise, vars
    <3>3. CASE CallTool(s)
      BY <3>1, <3>3, <2>7 DEF CallTool, BeginActivation, ForwardCall
    <3>4. CASE Teardown(s)
      BY <3>1, <3>4, <2>7, <2>8 DEF Teardown, CloseAll
    <3>5. CASE TimerStep(s)
      BY <3>1, <3>5, <2>7, <2>8 DEF TimerStep, IdleFires, TtlFires, Deactivate
    <3>. QED
      BY <2>9, <3>2, <3>3, <3>4, <3>5
  <2>10. ASSUME NEW g \in Generations, ActivationStep(g) PROVE DrainWired'
    <3>1. UNCHANGED <<awaitedCloses, atSignal, exited>>
      BY <2>10 DEF ActivationStep, serverVars, drain
    <3>2. closing \subseteq closing'
      <4>1. CASE StartReturns(g) \/ StartFails(g) \/ AttachSucceeds(g) \/ AttachFails(g)
        BY <4>1 DEF StartReturns, StartFails, AttachSucceeds, AttachFails
      <4>2. CASE ChildExits(g)
        BY <4>2 DEF ChildExits, Deactivate, DeactivateAll
      <4>. QED
        BY <2>10, <4>1, <4>2 DEF ActivationStep
    <3>. QED
      BY <3>1, <3>2, <2>7
  <2>11. CASE Initialised
    BY <2>11, <2>7 DEF Initialised, vars, drain
  <2>. QED
    BY <1>3, <2>4, <2>5, <2>6, <2>9, <2>10, <2>11 DEF ProcessStep
<1>. QED
  BY <1>1, <1>2, <1>3

\* The strengthened invariant holds of every behaviour of the server.
THEOREM ServerInvariance == ServerSpec => []ServerInv
<1>1. ServerInit => ServerInv
  <2>. SUFFICES ASSUME ServerInit PROVE ServerInv
    OBVIOUS
  <2>1. IInv
    BY InitIInv DEF ServerInit
  <2>2. AttachedRemembered /\ DrainWired
    BY DEF ServerInit, Init, AttachedRemembered, DrainWired
  <2>. QED
    BY <2>1, <2>2 DEF ServerInv
<1>2. ServerInv /\ [ServerNext]_allVars => ServerInv'
  <2>. SUFFICES ASSUME ServerInv, [ServerNext]_allVars PROVE ServerInv'
    OBVIOUS
  <2>1. [Next]_vars
    BY ServerStepIsSessionStep
  <2>2. IInv'
    BY <2>1, NextIInv DEF ServerInv
  <2>3. AttachedRemembered'
    BY <2>1, AttachedRememberedKept DEF ServerInv, AttachedRemembered, vars
  <2>4. DrainWired'
    BY <2>2, DrainWiredKept
  <2>. QED
    BY <2>2, <2>3, <2>4 DEF ServerInv
<1>. QED
  BY <1>1, <1>2, PTL DEF ServerSpec

\* Every browser attached to a registered session when the signal came has been
\* sent to be stopped when the process exits, for any number of sessions.
THEOREM AttachedAreReleased == ServerSpec => []AttachedReleasedBeforeExit
<1>1. ServerInv => AttachedReleasedBeforeExit
  BY DEF ServerInv, DrainWired, AttachedReleasedBeforeExit
<1>. QED
  BY <1>1, ServerInvariance, PTL

-----------------------------------------------------------------------------
(***************************************************************************)
(* The table of MCP sessions.                                              *)
(***************************************************************************)

\* Nothing has ever been done for a session that was not registered.
Untouched(s) ==
  /\ client[s] = None
  /\ activating[s] = None
  /\ browserSessionId[s] = None
  /\ ~holdsSlot[s]
  /\ \A g \in Generations : owner[g] # s

Registered ==
  \A s \in Sessions :
    /\ closed[s] <=> entry[s] = "gone"
    /\ entry[s] = "none" => Untouched(s)

ServerTyped ==
  /\ ready \in BOOLEAN
  /\ entry \in [Sessions -> {"none", "open", "gone"}]
  /\ shuttingDown \in BOOLEAN
  /\ awaitedStops \subseteq stopping
  /\ exited \in BOOLEAN
  /\ atSignal \subseteq Generations

\* Deactivating other sessions does not touch this one.
LEMMA DeactivationIsLocal ==
  ASSUME NEW S \in SUBSET Sessions, DeactivateAll(S), NEW s \in Sessions \ S
  PROVE  /\ client'[s] = client[s]
         /\ browserSessionId'[s] = browserSessionId[s]
         /\ holdsSlot'[s] = holdsSlot[s]
  BY DEF DeactivateAll, StopBrowserSessions, ReleaseSlots, Assign

\* A step of another session does not touch this one.
LEMMA SessionStepIsLocal ==
  ASSUME IInv, NEW r \in Sessions, SessionStep(r), NEW s \in Sessions \ {r}, Untouched(s)
  PROVE  Untouched(s)' /\ UNCHANGED closed
<1>1. CASE BeginActivation(r)
  BY <1>1 DEF BeginActivation, Untouched, IInv, TypeOK
<1>2. CASE ForwardCall(r)
  BY <1>2 DEF ForwardCall, slots, Untouched
<1>3. CASE IdleFires(r) \/ TtlFires(r)
  <2>1. DeactivateAll({r}) /\ UNCHANGED <<activating, closed, owner>>
    BY <1>3 DEF IdleFires, TtlFires, Deactivate
  <2>2. {r} \in SUBSET Sessions /\ s \in Sessions \ {r}
    OBVIOUS
  <2>. QED
    BY <2>1, <2>2, DeactivationIsLocal DEF Untouched
<1>. QED
  BY <1>1, <1>2, <1>3 DEF SessionStep

\* A generation works only for the session that owns it.
LEMMA GenerationStepIsLocal ==
  ASSUME IInv, NEW g \in Generations, GenerationStep(g), NEW s \in Sessions, Untouched(s)
  PROVE  Untouched(s)' /\ UNCHANGED closed
<1>1. owner[g] # s
  BY DEF Untouched
<1>2. CASE StartReturns(g) \/ AttachSucceeds(g)
  BY <1>1, <1>2 DEF StartReturns, AttachSucceeds, Settle, slots, Untouched, IInv, TypeOK
<1>3. CASE StartFails(g)
  BY <1>1, <1>3 DEF StartFails, ReleaseSlots, Assign, Settle, Untouched, IInv, TypeOK
<1>4. CASE AttachFails(g)
  BY <1>1, <1>4 DEF AttachFails, StopBrowserSessions, ReleaseSlots, Assign, Settle,
                    Untouched, IInv, TypeOK
<1>5. CASE CloseReturns(g)
  BY <1>1, <1>5 DEF CloseReturns, StopBrowserSessions, ReleaseSlots, Assign, Untouched
<1>6. CASE StopReturns(g)
  BY <1>1, <1>6 DEF StopReturns, ReleaseSlots, Assign, Settle, Untouched, IInv, TypeOK
<1>7. CASE AwsStarts(g) \/ AwsExpires(g)
  BY <1>7 DEF AwsStarts, AwsExpires, slots, Untouched
<1>8. CASE ChildExits(g)
  <2>1. UNCHANGED <<activating, closed, owner>>
    BY <1>8 DEF ChildExits
  <2>2. CASE tearingDown[owner[g]] \/ closed[owner[g]]
    BY <1>8, <2>1, <2>2 DEF ChildExits, slots, Untouched
  <2>3. CASE ~(tearingDown[owner[g]] \/ closed[owner[g]])
    <3>1. owner[g] \in Sessions
      BY <1>8 DEF ChildExits, IInv, Wired, CoroutinesWired, OwnersWired
    <3>2. DeactivateAll({owner[g]}) /\ {owner[g]} \in SUBSET Sessions
      BY <1>8, <2>3, <3>1 DEF ChildExits, Deactivate
    <3>. QED
      BY <1>1, <2>1, <3>2, DeactivationIsLocal DEF Untouched
  <2>. QED
    BY <2>2, <2>3
<1>. QED
  BY <1>2, <1>3, <1>4, <1>5, <1>6, <1>7, <1>8 DEF GenerationStep

\* Only closing a session changes whether it is closed.
LEMMA ClosedUnchanged ==
  ASSUME (\E r \in Sessions : SessionStep(r)) \/ (\E g \in Generations : GenerationStep(g))
  PROVE  UNCHANGED closed
BY DEF SessionStep, BeginActivation, ForwardCall, IdleFires, TtlFires, GenerationStep,
       StartReturns, StartFails, AttachSucceeds, AttachFails, ChildExits, CloseReturns,
       StopReturns, AwsStarts, AwsExpires

\* Closing the sessions that leave the table keeps the table and the flags alike.
LEMMA ClosingKeepsRegistered ==
  ASSUME Registered, ServerTyped, IInv, NEW S \in SUBSET OpenSessions, CloseAll(S),
         entry' = [s \in Sessions |-> IF s \in S THEN "gone" ELSE entry[s]]
  PROVE  Registered'
<1>. SUFFICES ASSUME NEW s \in Sessions
              PROVE  /\ closed'[s] <=> entry'[s] = "gone"
                     /\ entry'[s] = "none" => Untouched(s)'
  BY DEF Registered
<1>1. S \in SUBSET Sessions
  BY DEF OpenSessions
<1>2. closed'[s] <=> entry'[s] = "gone"
  BY DEF CloseAll, Assign, Registered
<1>3. ASSUME entry'[s] = "none" PROVE Untouched(s)'
  <2>1. s \notin S /\ entry[s] = "none"
    BY <1>3
  <2>2. Untouched(s) /\ DeactivateAll(S) /\ UNCHANGED <<activating, owner>>
    BY <2>1 DEF Registered, CloseAll
  <2>. QED
    BY <1>1, <2>1, <2>2, DeactivationIsLocal DEF Untouched
<1>. QED
  BY <1>2, <1>3

\* The table and the sessions agree after every step of the server.
LEMMA RegisteredKept ==
  ASSUME ServerInv, ServerTyped, Registered, [ServerNext]_allVars
  PROVE  Registered'
<1>. USE DEF ServerInv
<1>1. ASSUME UNCHANGED entry, UNCHANGED closed,
             \A s \in Sessions : entry[s] = "none" => Untouched(s)'
      PROVE  Registered'
  BY <1>1 DEF Registered
<1>2. ASSUME NEW g \in Generations, GenerationStep(g), UNCHANGED entry
      PROVE  Registered'
  BY <1>1, <1>2, ClosedUnchanged, GenerationStepIsLocal DEF Registered
<1>3. ASSUME NEW r \in Sessions, SessionStep(r), entry[r] # "none", UNCHANGED entry
      PROVE  Registered'
  BY <1>1, <1>3, ClosedUnchanged, SessionStepIsLocal DEF Registered
<1>4. ASSUME NEW r \in Sessions, Initialise(r) PROVE Registered'
  BY <1>4 DEF Initialise, vars, slots, Registered, ServerTyped, Untouched
<1>5. ASSUME NEW r \in Sessions, CallTool(r) PROVE Registered'
  BY <1>3, <1>5 DEF CallTool, SessionStep, serverVars
<1>6. ASSUME NEW r \in Sessions, TimerStep(r) PROVE Registered'
  <2>1. SessionStep(r) /\ UNCHANGED entry
    BY <1>6 DEF TimerStep, SessionStep, serverVars
  <2>2. client[r] # None
    BY <1>6 DEF TimerStep, IdleFires, TtlFires, IInv, TimersGuardTheBrowser
  <2>. QED
    BY <1>3, <2>1, <2>2 DEF Registered, Untouched
<1>7. ASSUME NEW r \in Sessions, Teardown(r) PROVE Registered'
  <2>1. {r} \in SUBSET OpenSessions /\ CloseAll({r})
    BY <1>7 DEF Teardown, OpenSessions
  <2>2. entry' = [s \in Sessions |-> IF s \in {r} THEN "gone" ELSE entry[s]]
    BY <1>7 DEF Teardown, ServerTyped
  <2>. QED
    BY <2>1, <2>2, ClosingKeepsRegistered
<1>8. CASE Shutdown
  <2>1. CloseAll(OpenSessions)
    BY <1>8 DEF Shutdown
  <2>2. entry' = [s \in Sessions |-> IF s \in OpenSessions THEN "gone" ELSE entry[s]]
    BY <1>8 DEF Shutdown
  <2>. QED
    BY <2>1, <2>2, ClosingKeepsRegistered
<1>9. ASSUME NEW g \in Generations,
             ActivationStep(g) \/ CloseSettles(g) \/ StopSettles(g) \/ AwsStep(g)
      PROVE  Registered'
  <2>1. GenerationStep(g) /\ UNCHANGED entry
    BY <1>9 DEF ActivationStep, CloseSettles, StopSettles, AwsStep, GenerationStep, serverVars
  <2>. QED
    BY <1>2, <2>1
<1>10. CASE Initialised \/ UNCHANGED allVars
  BY <1>10 DEF Initialised, allVars, serverVars, vars, slots, Registered, Untouched
<1>. QED
  BY <1>4, <1>5, <1>6, <1>7, <1>8, <1>9, <1>10 DEF ServerNext, ProcessStep

\* A stop that is awaited is still to settle; the other variables keep their types.
LEMMA ServerTypedKept ==
  ASSUME ServerInv, IInv', ServerTyped, [ServerNext]_allVars
  PROVE  ServerTyped'
<1>. USE DEF ServerInv
<1>1. ASSUME UNCHANGED serverVars, stopping \subseteq stopping'
      PROVE  ServerTyped'
  BY <1>1 DEF serverVars, drain, ServerTyped
<1>2. ASSUME NEW S \in SUBSET Sessions, DeactivateAll(S)
      PROVE  stopping' = stopping \union Remembered({s \in S : client[s] = None})
  BY <1>2 DEF DeactivateAll, StopBrowserSessions
<1>3. ASSUME NEW r \in Sessions, CallTool(r) \/ TimerStep(r) PROVE ServerTyped'
  <2>1. UNCHANGED serverVars
    BY <1>3 DEF CallTool, TimerStep
  <2>2. stopping \subseteq stopping'
    BY <1>2, <1>3 DEF CallTool, TimerStep, BeginActivation, ForwardCall, IdleFires, TtlFires,
                      Deactivate
  <2>. QED
    BY <1>1, <2>1, <2>2
<1>4. ASSUME NEW r \in Sessions, Initialise(r) PROVE ServerTyped'
  BY <1>4 DEF Initialise, vars, drain, ServerTyped
<1>5. ASSUME NEW r \in Sessions, Teardown(r) PROVE ServerTyped'
  <2>1. stopping \subseteq stopping'
    BY <1>2, <1>5 DEF Teardown, CloseAll
  <2>. QED
    BY <1>5, <2>1 DEF Teardown, drain, ServerTyped
<1>6. CASE Shutdown
  <2>1. OpenSessions \in SUBSET Sessions /\ DeactivateAll(OpenSessions)
    BY <1>6 DEF OpenSessions, Shutdown, CloseAll
  <2>2. awaitedStops' \subseteq stopping'
    BY <1>2, <1>6, <2>1 DEF Shutdown
  <2>3. atSignal' \subseteq Generations
    BY <1>6, <2>1 DEF Shutdown, Attached, IInv, TypeOK
  <2>4. exited' \in BOOLEAN /\ shuttingDown' \in BOOLEAN /\ ready' \in BOOLEAN
    BY <1>6 DEF Shutdown, ExitWhenDrained, ServerTyped
  <2>5. entry' \in [Sessions -> {"none", "open", "gone"}]
    BY <1>6 DEF Shutdown, ServerTyped
  <2>. QED
    BY <2>2, <2>3, <2>4, <2>5 DEF ServerTyped
<1>7. ASSUME NEW g \in Generations, CloseSettles(g) PROVE ServerTyped'
  <2>1. stopping' = stopping \union Remembered({owner[g]})
    BY <1>7 DEF CloseSettles, CloseReturns, StopBrowserSessions
  <2>2. awaitedStops' \subseteq stopping'
    BY <1>7, <2>1 DEF CloseSettles, ServerTyped
  <2>3. exited' \in BOOLEAN /\ UNCHANGED <<ready, entry, shuttingDown, atSignal>>
    BY <1>7 DEF CloseSettles, ExitWhenDrained
  <2>. QED
    BY <2>2, <2>3 DEF ServerTyped
<1>8. ASSUME NEW g \in Generations, StopSettles(g) PROVE ServerTyped'
  <2>1. awaitedStops' \subseteq stopping'
    BY <1>8 DEF StopSettles, StopReturns, ServerTyped
  <2>2. exited' \in BOOLEAN /\ UNCHANGED <<ready, entry, shuttingDown, atSignal>>
    BY <1>8 DEF StopSettles, ExitWhenDrained
  <2>. QED
    BY <2>1, <2>2 DEF ServerTyped
<1>9. ASSUME NEW g \in Generations, ActivationStep(g) \/ AwsStep(g) PROVE ServerTyped'
  <2>1. UNCHANGED serverVars
    BY <1>9 DEF ActivationStep, AwsStep
  <2>2. stopping \subseteq stopping'
    <3>1. CASE ChildExits(g)
      <4>1. owner[g] \in Sessions
        BY <3>1 DEF ChildExits, IInv, Wired, CoroutinesWired, OwnersWired
      <4>. QED
        BY <1>2, <3>1, <4>1 DEF ChildExits, Deactivate
    <3>2. CASE StartReturns(g) \/ StartFails(g) \/ AttachSucceeds(g) \/ AttachFails(g)
               \/ AwsStarts(g) \/ AwsExpires(g)
      BY <3>2 DEF StartReturns, StartFails, AttachSucceeds, AttachFails, StopBrowserSessions,
                  AwsStarts, AwsExpires
    <3>. QED
      BY <1>9, <3>1, <3>2 DEF ActivationStep, AwsStep
  <2>. QED
    BY <1>1, <2>1, <2>2
<1>10. CASE Initialised \/ UNCHANGED allVars
  BY <1>10 DEF Initialised, allVars, serverVars, drain, vars, ServerTyped
<1>. QED
  BY <1>3, <1>4, <1>5, <1>6, <1>7, <1>8, <1>9, <1>10 DEF ServerNext, ProcessStep

\* The table, the sessions and the types, of every behaviour of the server.
THEOREM TableInvariance == ServerSpec => [](ServerInv /\ ServerTyped /\ Registered)
<1>1. ServerInit => ServerTyped /\ Registered
  <2>1. ASSUME ServerInit PROVE ServerTyped
    BY <2>1 DEF ServerInit, ServerTyped
  <2>2. ASSUME ServerInit PROVE Registered
    BY <2>2, SessionsAssumption DEF ServerInit, Init, Registered, Untouched
  <2>. QED
    BY <2>1, <2>2
<1>2. ServerInv /\ ServerInv' /\ ServerTyped /\ Registered /\ [ServerNext]_allVars
        => ServerTyped' /\ Registered'
  BY RegisteredKept, ServerTypedKept DEF ServerInv
<1>. QED
  BY <1>1, <1>2, ServerInvariance, PTL DEF ServerSpec

\* Every variable of the server and of its sessions has its type.
THEOREM ServerTypeCorrect == ServerSpec => []ServerTypeOK
<1>1. ServerInv /\ ServerTyped => ServerTypeOK
  BY DEF ServerInv, DrainWired, IInv, ServerTyped, ServerTypeOK
<1>. QED
  BY <1>1, TableInvariance, PTL

\* A session leaves the table exactly when it is closed, and nothing is held for
\* one that was never registered.
THEOREM UnregisteredAreClosed == ServerSpec => []UnregisteredIsClosed
<1>1. ServerInv /\ Registered => UnregisteredIsClosed
  BY DEF ServerInv, IInv, TypeOK, Registered, Untouched, UnregisteredIsClosed, AtRest
<1>. QED
  BY <1>1, TableInvariance, PTL
=============================================================================
