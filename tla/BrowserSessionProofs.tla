------------------------ MODULE BrowserSessionProofs ------------------------
(***************************************************************************)
(* TLAPS proofs about BrowserSession.  IInv is inductive: InitIInv and     *)
(* NextIInv; the safety properties follow.  The limiter is the delicate    *)
(* part, so the two lemmas that count come first, then one lemma per group *)
(* of shared steps, then one per action.                                   *)
(***************************************************************************)
EXTENDS BrowserSession, FiniteSetTheorems, TLAPS

USE SessionsAssumption, GenerationsAssumption, MaxSessionsAssumption, IdleEvictionAssumption

-----------------------------------------------------------------------------
(***************************************************************************)
(* Counting slots.                                                         *)
(***************************************************************************)

\* The sessions of any subset that hold a slot are finitely many, and no more
\* than all the sessions that do.
LEMMA HoldingFinite ==
  ASSUME NEW S \in SUBSET Sessions
  PROVE  /\ IsFiniteSet(Holding(S))
         /\ Cardinality(Holding(S)) \in Nat
<1>1. Holding(S) \in SUBSET Sessions
  BY DEF Holding
<1>2. IsFiniteSet(Holding(S))
  BY <1>1, FS_Subset
<1>. QED
  BY <1>2, FS_CardinalityType

\* Giving back the slots of S lowers the number of holders by exactly the
\* amount it lowers the counter.
LEMMA HoldersAfterRelease ==
  ASSUME TypeOK, NEW S \in SUBSET Sessions, holdsSlot' = Assign(holdsSlot, S, FALSE)
  PROVE  Cardinality(Holding(Sessions)')
           = Cardinality(Holding(Sessions)) - Cardinality(Holding(S))
<1>. DEFINE Before == Holding(Sessions)
            Given  == Holding(S)
            After  == Holding(Sessions)'
<1>1. /\ IsFiniteSet(Before) /\ IsFiniteSet(Given)
      /\ Cardinality(Before) \in Nat /\ Cardinality(Given) \in Nat
  BY HoldingFinite
<1>2. /\ After = Before \ Given
      /\ Before = After \union Given
      /\ After \intersect Given = {}
      /\ After \in SUBSET Before
  BY DEF Holding, Assign, TypeOK
<1>3. IsFiniteSet(After) /\ Cardinality(After) \in Nat
  BY <1>1, <1>2, FS_Subset, FS_CardinalityType
<1>4. Cardinality(After \union Given)
        = Cardinality(After) + Cardinality(Given) - Cardinality(After \intersect Given)
  BY <1>1, <1>3, FS_Union
<1>5. Cardinality(After \intersect Given) = 0
  BY <1>2, FS_EmptySet
<1>6. Cardinality(Before) = Cardinality(After \union Given)
  BY <1>2, Zenon
<1>. HIDE DEF Before, Given, After
<1>7. Cardinality(After) = Cardinality(Before) - Cardinality(Given)
  BY <1>1, <1>3, <1>4, <1>5, <1>6
<1>. QED
  BY <1>7 DEF Before, Given, After

\* #releaseSlot, of any set of sessions, keeps the counter an upper bound of
\* the holders: its guard makes release() run once per acquire().
LEMMA ReleaseKeepsAccounting ==
  ASSUME TypeOK, SlotAccounting, NEW S \in SUBSET Sessions, ReleaseSlots(S)
  PROVE  /\ holdsSlot' \in [Sessions -> BOOLEAN]
         /\ live' \in Nat
         /\ SlotAccounting'
<1>. DEFINE held == Cardinality(Holding(Sessions))
            given == Cardinality(Holding(S))
            after == Cardinality(Holding(Sessions)')
<1>1. held \in Nat /\ given \in Nat
  BY HoldingFinite
<1>2. after = held - given
  BY HoldersAfterRelease DEF ReleaseSlots
<1>3. /\ live \in Nat /\ held <= live /\ live <= MaxSessions
      /\ live' = IF live > given THEN live - given ELSE 0
  BY DEF TypeOK, SlotAccounting, ReleaseSlots
<1>4. holdsSlot' \in [Sessions -> BOOLEAN]
  BY DEF ReleaseSlots, Assign, TypeOK
<1>. HIDE DEF held, given, after
<1>5. live' \in Nat /\ after <= live' /\ live' <= MaxSessions
  BY <1>1, <1>2, <1>3
<1>. QED
  BY <1>4, <1>5 DEF SlotAccounting, after

\* A step that leaves the limiter alone leaves the accounting alone.
LEMMA AccountingUnchanged ==
  ASSUME SlotAccounting, UNCHANGED slots
  PROVE  SlotAccounting'
  BY DEF SlotAccounting, Holding, slots

-----------------------------------------------------------------------------
(***************************************************************************)
(* The steps handlers share.                                               *)
(***************************************************************************)

\* What #stopBrowserSession takes out of the sessions of S: ids of their own
\* generations, attached or attaching, never sent to be stopped before.
LEMMA RememberedFacts ==
  ASSUME IInv, NEW S \in SUBSET Sessions
  PROVE  /\ Remembered(S) \subseteq Generations
         /\ \A g \in Remembered(S) :
              /\ owner[g] \in S
              /\ browserSessionId[owner[g]] = g
              /\ phase[g] \in {"attaching", "attached"}
              /\ g \notin stopSent
  BY DEF IInv, TypeOK, Wired, IdsWired, StoppedOnce, Remembered

\* #stopBrowserSession, of any set of sessions, keeps types, the accounting of
\* the slots, and the rule that a remembered id was never sent.
LEMMA StopFacts ==
  ASSUME IInv, NEW S \in SUBSET Sessions, StopBrowserSessions(S)
  PROVE  /\ browserSessionId' \in [Sessions -> Generations \union {None}]
         /\ \A s \in Sessions :
              browserSessionId'[s] = IF s \in S THEN None ELSE browserSessionId[s]
         /\ stopping' = stopping \union Remembered(S)
         /\ stopSent' = stopSent \union Remembered(S)
         /\ stopping' \subseteq Generations /\ stopSent' \subseteq Generations
         /\ holdsSlot' \in [Sessions -> BOOLEAN]
         /\ live' \in Nat
         /\ SlotAccounting'
         /\ StoppedOnce'
<1>1. /\ browserSessionId' = Assign(browserSessionId, S, None)
      /\ stopping' = stopping \union Remembered(S)
      /\ stopSent' = stopSent \union Remembered(S)
      /\ ReleaseSlots({s \in S : browserSessionId[s] = None})
  BY DEF StopBrowserSessions
<1>2. /\ holdsSlot' \in [Sessions -> BOOLEAN]
      /\ live' \in Nat
      /\ SlotAccounting'
  <2>. {s \in S : browserSessionId[s] = None} \in SUBSET Sessions
    OBVIOUS
  <2>. QED
    BY <1>1, ReleaseKeepsAccounting DEF IInv
<1>3. stopping' \subseteq Generations /\ stopSent' \subseteq Generations
  BY <1>1, RememberedFacts DEF IInv, TypeOK
<1>4. /\ browserSessionId' \in [Sessions -> Generations \union {None}]
      /\ \A s \in Sessions :
           browserSessionId'[s] = IF s \in S THEN None ELSE browserSessionId[s]
  BY <1>1 DEF Assign, IInv, TypeOK
<1>5. StoppedOnce'
  <2>. SUFFICES ASSUME NEW s \in Sessions PROVE browserSessionId'[s] \notin stopSent'
    BY DEF StoppedOnce
  <2>1. CASE s \in S
    <3>1. None \notin stopSent'
      BY <1>3
    <3>. QED
      BY <2>1, <3>1, <1>4
  <2>2. CASE s \notin S
    <3>1. browserSessionId'[s] = browserSessionId[s] /\ browserSessionId[s] \notin stopSent
      BY <2>2, <1>4 DEF IInv, StoppedOnce
    <3>2. browserSessionId[s] \notin Remembered(S)
      <4>. SUFFICES ASSUME browserSessionId[s] \in Remembered(S) PROVE FALSE
        OBVIOUS
      <4>1. owner[browserSessionId[s]] \in S /\ browserSessionId[s] # None
        BY RememberedFacts
      <4>2. owner[browserSessionId[s]] = s
        BY <4>1 DEF IInv, Wired, IdsWired
      <4>. QED
        BY <4>1, <4>2, <2>2
    <3>. QED
      BY <3>1, <3>2, <1>1
  <2>. QED
    BY <2>1, <2>2
<1>. QED
  BY <1>1, <1>2, <1>3, <1>4, <1>5

\* deactivate() up to its first await, whatever set of sessions runs it and
\* whether or not close() or a dying child is what called it.
LEMMA DeactivateKeepsIInv ==
  ASSUME IInv, NEW S \in SUBSET Sessions, DeactivateAll(S),
         closed' \in [Sessions -> BOOLEAN],
         child' \in [Generations -> {"none", "running", "dead"}],
         \A g \in Generations : child'[g] = "running" => child[g] = "running",
         UNCHANGED <<activating, owner, phase, aws>>
  PROVE  IInv'
<1>. DEFINE Quiet == {s \in S : client[s] = None}
<1>0. Quiet \in SUBSET Sessions /\ StopBrowserSessions(Quiet)
  BY DEF DeactivateAll
<1>1. /\ browserSessionId' \in [Sessions -> Generations \union {None}]
      /\ \A s \in Sessions :
           browserSessionId'[s] = IF s \in Quiet THEN None ELSE browserSessionId[s]
      /\ stopping' = stopping \union Remembered(Quiet)
      /\ stopSent' = stopSent \union Remembered(Quiet)
      /\ stopping' \subseteq Generations /\ stopSent' \subseteq Generations
      /\ holdsSlot' \in [Sessions -> BOOLEAN]
      /\ live' \in Nat
      /\ SlotAccounting'
      /\ StoppedOnce'
  BY <1>0, StopFacts
<1>2. /\ Remembered(Quiet) \subseteq Generations
      /\ \A g \in Remembered(Quiet) :
           /\ owner[g] \in Quiet
           /\ browserSessionId[owner[g]] = g
           /\ phase[g] \in {"attaching", "attached"}
           /\ g \notin stopSent
  BY <1>0, RememberedFacts
<1>. HIDE DEF Quiet
<1>3. /\ Attached(S) \subseteq Generations
      /\ \A g \in Attached(S) : phase[g] = "attached"
  BY DEF Attached, IInv, TypeOK, Wired, ClientsWired
<1>4. /\ client' \in [Sessions -> Generations \union {None}]
      /\ idleTimer' \in [Sessions -> BOOLEAN]
      /\ ttlTimer' \in [Sessions -> BOOLEAN]
      /\ tearingDown' \in [Sessions -> BOOLEAN]
      /\ closing' \subseteq Generations
      /\ closing' = closing \union Attached(S)
      /\ \A s \in Sessions :
           /\ client'[s] = IF s \in S THEN None ELSE client[s]
           /\ idleTimer'[s] = IF s \in S THEN FALSE ELSE idleTimer[s]
           /\ ttlTimer'[s] = IF s \in S THEN FALSE ELSE ttlTimer[s]
  BY <1>3 DEF DeactivateAll, Assign, IInv, TypeOK
<1>5. TypeOK'
  BY <1>1, <1>4 DEF IInv, TypeOK
<1>6. OwnersWired' /\ ClientsWired'
  BY <1>4 DEF IInv, Wired, OwnersWired, ClientsWired
<1>7. IdsWired'
  BY <1>1 DEF IInv, Wired, IdsWired
<1>8. CoroutinesWired'
  BY <1>1, <1>2, <1>3, <1>4 DEF IInv, Wired, CoroutinesWired
<1>9. AttachingRemembered'
  <2>. SUFFICES ASSUME NEW g \in Generations, phase[g] = "attaching"
                PROVE  browserSessionId'[owner[g]] = g \/ g \in stopSent'
    BY DEF AttachingRemembered
  <2>1. owner[g] \in Sessions /\ (browserSessionId[owner[g]] = g \/ g \in stopSent)
    BY DEF IInv, Wired, OwnersWired, AttachingRemembered
  <2>2. CASE browserSessionId[owner[g]] = g /\ owner[g] \in Quiet
    <3>1. g \in Remembered(Quiet)
      BY <2>2 DEF Remembered
    <3>. QED
      BY <3>1, <1>1
  <2>. QED
    BY <2>1, <2>2, <1>1
<1>10. SingleFlight' /\ TimersGuardTheBrowser'
  BY <1>4 DEF IInv, SingleFlight, TimersGuardTheBrowser
<1>11. FailedAttachIsStopped'
  BY <1>1 DEF IInv, FailedAttachIsStopped
<1>. QED
  BY <1>1, <1>5, <1>6, <1>7, <1>8, <1>9, <1>10, <1>11 DEF IInv, Wired

-----------------------------------------------------------------------------
(***************************************************************************)
(* One lemma per action.                                                   *)
(***************************************************************************)

\* #activate takes a slot for a session that holds none: counter and holders grow together.
LEMMA BeginActivationKeepsIInv ==
  ASSUME IInv, NEW s \in Sessions, BeginActivation(s)
  PROVE  IInv'
<1>. DEFINE g == NextGeneration
<1>1. g \in Generations /\ phase[g] = "unused"
  BY DEF BeginActivation, NextGeneration, Unused
<1>2. /\ client[s] = None /\ activating[s] = None /\ live < MaxSessions
      /\ live' = live + 1
      /\ holdsSlot' = [holdsSlot EXCEPT ![s] = TRUE]
      /\ owner' = [owner EXCEPT ![g] = s]
      /\ phase' = [phase EXCEPT ![g] = "starting"]
      /\ activating' = [activating EXCEPT ![s] = g]
      /\ UNCHANGED <<client, browserSessionId, closed, tearingDown, idleTimer, ttlTimer,
                     closing, stopping, aws, child, stopSent>>
  BY DEF BeginActivation, timers, external
<1>. HIDE DEF g
<1>3. TypeOK'
  BY <1>1, <1>2 DEF IInv, TypeOK, Phases
<1>4. Wired'
  <2>1. OwnersWired' /\ ClientsWired' /\ IdsWired' /\ CoroutinesWired'
    BY <1>1, <1>2 DEF IInv, TypeOK, Wired, OwnersWired, ClientsWired, IdsWired, CoroutinesWired
  <2>2. AttachingRemembered'
    BY <1>1, <1>2 DEF IInv, TypeOK, Wired, AttachingRemembered
  <2>. QED
    BY <2>1, <2>2 DEF Wired
<1>5. SlotAccounting'
  <2>1. Holding(Sessions)' = Holding(Sessions) \union {s}
    BY <1>2 DEF Holding, IInv, TypeOK
  <2>2. IsFiniteSet(Holding(Sessions)) /\ Cardinality(Holding(Sessions)) \in Nat
    BY HoldingFinite
  <2>3. Cardinality(Holding(Sessions) \union {s})
          = IF s \in Holding(Sessions) THEN Cardinality(Holding(Sessions))
            ELSE Cardinality(Holding(Sessions)) + 1
    BY <2>2, FS_AddElement
  <2>4. /\ live \in Nat /\ Cardinality(Holding(Sessions)) <= live
        /\ live < MaxSessions /\ live' = live + 1
    BY <1>2 DEF IInv, TypeOK, SlotAccounting
  <2>5. Cardinality(Holding(Sessions)') = Cardinality(Holding(Sessions) \union {s})
    BY <2>1, Zenon
  <2>6. Cardinality(Holding(Sessions)') <= live' /\ live' <= MaxSessions
    BY <2>2, <2>3, <2>4, <2>5
  <2>. QED
    BY <2>6 DEF SlotAccounting
<1>6. SingleFlight'
  <2>1. ASSUME NEW h \in Generations, phase'[h] \in InFlight
        PROVE  activating'[owner'[h]] = h
    <3>1. CASE h = g
      BY <3>1, <1>1, <1>2 DEF IInv, TypeOK
    <3>2. CASE h # g
      <4>1. phase[h] \in InFlight /\ owner'[h] = owner[h] /\ owner[h] \in Sessions
        BY <3>2, <2>1, <1>1, <1>2 DEF IInv, TypeOK, Wired, OwnersWired, InFlight
      <4>2. activating[owner[h]] = h /\ h # None
        BY <4>1 DEF IInv, SingleFlight
      <4>. QED
        BY <4>1, <4>2, <1>2 DEF IInv, TypeOK
    <3>. QED
      BY <3>1, <3>2
  <2>2. \A r \in Sessions : client'[r] # None => activating'[r] = None
    BY <1>2 DEF IInv, TypeOK, SingleFlight
  <2>. QED
    BY <2>1, <2>2 DEF SingleFlight
<1>7. TimersGuardTheBrowser' /\ StoppedOnce' /\ FailedAttachIsStopped'
  BY <1>1, <1>2 DEF IInv, TypeOK, TimersGuardTheBrowser, StoppedOnce, FailedAttachIsStopped
<1>. QED
  BY <1>3, <1>4, <1>5, <1>6, <1>7 DEF IInv

\* A call on an attached browser only re-arms its idle timer.
LEMMA ForwardCallKeepsIInv ==
  ASSUME IInv, NEW s \in Sessions, ForwardCall(s)
  PROVE  IInv'
<1>1. /\ client[s] # None
      /\ idleTimer' = [idleTimer EXCEPT ![s] = IdleEviction]
      /\ UNCHANGED <<client, browserSessionId, activating, closed, holdsSlot, live,
                     tearingDown, ttlTimer, owner, phase, closing, stopping,
                     aws, child, stopSent>>
  BY DEF ForwardCall, slots, external
<1>2. TypeOK'
  BY <1>1 DEF IInv, TypeOK
<1>3. Wired' /\ SingleFlight' /\ StoppedOnce' /\ FailedAttachIsStopped'
  BY <1>1 DEF IInv, Wired, OwnersWired, ClientsWired, IdsWired, CoroutinesWired,
              AttachingRemembered, SingleFlight, StoppedOnce, FailedAttachIsStopped
<1>4. TimersGuardTheBrowser'
  BY <1>1 DEF IInv, TypeOK, TimersGuardTheBrowser
<1>5. SlotAccounting'
  BY <1>1, AccountingUnchanged DEF IInv, slots
<1>. QED
  BY <1>2, <1>3, <1>4, <1>5 DEF IInv

\* What AWS does to its sessions is nothing the process keeps track of.
LEMMA AwsKeepsIInv ==
  ASSUME IInv, NEW g \in Generations, AwsStarts(g) \/ AwsExpires(g)
  PROVE  IInv'
<1>1. /\ aws' \in [Generations -> {"absent", "live", "ended"}]
      /\ UNCHANGED <<client, browserSessionId, activating, closed, holdsSlot, live,
                     tearingDown, idleTimer, ttlTimer, owner, phase, closing, stopping,
                     child, stopSent>>
  BY DEF AwsStarts, AwsExpires, slots, timers, IInv, TypeOK
<1>2. TypeOK'
  BY <1>1 DEF IInv, TypeOK
<1>3. Wired' /\ SingleFlight' /\ StoppedOnce' /\ FailedAttachIsStopped'
  BY <1>1 DEF IInv, Wired, OwnersWired, ClientsWired, IdsWired, CoroutinesWired,
              AttachingRemembered, SingleFlight, StoppedOnce, FailedAttachIsStopped
<1>4. TimersGuardTheBrowser'
  BY <1>1 DEF IInv, TimersGuardTheBrowser
<1>5. SlotAccounting'
  BY <1>1, AccountingUnchanged DEF IInv, slots
<1>. QED
  BY <1>2, <1>3, <1>4, <1>5 DEF IInv

\* The new id replaces whatever id the session still remembered.
LEMMA StartReturnsKeepsIInv ==
  ASSUME IInv, NEW g \in Generations, StartReturns(g)
  PROVE  IInv'
<1>1. /\ phase[g] = "starting"
      /\ phase' = [phase EXCEPT ![g] = "attaching"]
      /\ browserSessionId' = [browserSessionId EXCEPT ![owner[g]] = g]
      /\ UNCHANGED <<client, activating, closed, holdsSlot, live, tearingDown,
                     idleTimer, ttlTimer, owner, closing, stopping, aws, child, stopSent>>
  BY DEF StartReturns, slots, timers, external
<1>2. owner[g] \in Sessions /\ activating[owner[g]] = g
  BY <1>1 DEF IInv, Wired, OwnersWired, SingleFlight, InFlight
<1>3. TypeOK'
  BY <1>1, <1>2 DEF IInv, TypeOK, Phases
<1>4. OwnersWired' /\ ClientsWired' /\ IdsWired' /\ CoroutinesWired'
  BY <1>1, <1>2 DEF IInv, TypeOK, Wired, OwnersWired, ClientsWired, IdsWired, CoroutinesWired
<1>5. AttachingRemembered'
  <2>. SUFFICES ASSUME NEW h \in Generations, phase'[h] = "attaching", h # g
                PROVE  browserSessionId'[owner[h]] = h \/ h \in stopSent
    BY <1>1, <1>2 DEF AttachingRemembered, IInv, TypeOK
  <2>1. phase[h] = "attaching"
    BY <1>1 DEF IInv, TypeOK
  <2>2. owner[h] \in Sessions /\ activating[owner[h]] = h
    BY <2>1 DEF IInv, Wired, OwnersWired, SingleFlight, InFlight
  <2>3. browserSessionId[owner[h]] = h \/ h \in stopSent
    BY <2>1 DEF IInv, Wired, AttachingRemembered
  <2>. QED
    BY <1>1, <1>2, <2>2, <2>3 DEF IInv, TypeOK
<1>6. SingleFlight'
  BY <1>1, <1>2 DEF IInv, TypeOK, SingleFlight, InFlight
<1>7. TimersGuardTheBrowser' /\ FailedAttachIsStopped'
  BY <1>1 DEF IInv, TypeOK, TimersGuardTheBrowser, FailedAttachIsStopped
<1>8. StoppedOnce'
  BY <1>1, <1>2 DEF IInv, TypeOK, Wired, CoroutinesWired, StoppedOnce
<1>9. SlotAccounting'
  BY <1>1, AccountingUnchanged DEF IInv, slots
<1>. QED
  BY <1>3, <1>4, <1>5, <1>6, <1>7, <1>8, <1>9 DEF IInv, Wired

\* A refused startSession gives its slot back and settles its activation.
LEMMA StartFailsKeepsIInv ==
  ASSUME IInv, NEW g \in Generations, StartFails(g)
  PROVE  IInv'
<1>1. /\ phase[g] = "starting"
      /\ ReleaseSlots({owner[g]})
      /\ phase' = [phase EXCEPT ![g] = "refused"]
      /\ activating' = [activating EXCEPT ![owner[g]] = None]
      /\ UNCHANGED <<client, browserSessionId, closed, tearingDown, idleTimer, ttlTimer,
                     owner, closing, stopping, aws, child, stopSent>>
  BY DEF StartFails, Settle, timers, external
<1>2. owner[g] \in Sessions /\ activating[owner[g]] = g
  BY <1>1 DEF IInv, Wired, OwnersWired, SingleFlight, InFlight
<1>3. holdsSlot' \in [Sessions -> BOOLEAN] /\ live' \in Nat /\ SlotAccounting'
  BY <1>1, <1>2, ReleaseKeepsAccounting DEF IInv
<1>4. TypeOK'
  BY <1>1, <1>2, <1>3 DEF IInv, TypeOK, Phases
<1>5. Wired'
  BY <1>1 DEF IInv, TypeOK, Wired, OwnersWired, ClientsWired, IdsWired, CoroutinesWired,
              AttachingRemembered
<1>6. SingleFlight'
  BY <1>1, <1>2 DEF IInv, TypeOK, SingleFlight, InFlight
<1>7. TimersGuardTheBrowser' /\ StoppedOnce' /\ FailedAttachIsStopped'
  BY <1>1 DEF IInv, TypeOK, TimersGuardTheBrowser, StoppedOnce, FailedAttachIsStopped
<1>. QED
  BY <1>3, <1>4, <1>5, <1>6, <1>7 DEF IInv

\* The browser is attached and its timers armed in one step.
LEMMA AttachSucceedsKeepsIInv ==
  ASSUME IInv, NEW g \in Generations, AttachSucceeds(g)
  PROVE  IInv'
<1>1. /\ phase[g] = "attaching"
      /\ client' = [client EXCEPT ![owner[g]] = g]
      /\ child' = [child EXCEPT ![g] = "running"]
      /\ ttlTimer' = [ttlTimer EXCEPT ![owner[g]] = TRUE]
      /\ idleTimer' = [idleTimer EXCEPT ![owner[g]] = IdleEviction]
      /\ phase' = [phase EXCEPT ![g] = "attached"]
      /\ activating' = [activating EXCEPT ![owner[g]] = None]
      /\ UNCHANGED <<browserSessionId, closed, holdsSlot, live, tearingDown, owner,
                     closing, stopping, aws, stopSent>>
  BY DEF AttachSucceeds, Settle, slots
<1>2. owner[g] \in Sessions /\ activating[owner[g]] = g /\ g # None
  BY <1>1 DEF IInv, Wired, OwnersWired, SingleFlight, InFlight
<1>3. TypeOK'
  BY <1>1, <1>2 DEF IInv, TypeOK, Phases
<1>4. Wired'
  BY <1>1, <1>2 DEF IInv, TypeOK, Wired, OwnersWired, ClientsWired, IdsWired,
                    CoroutinesWired, AttachingRemembered
<1>5. SingleFlight'
  BY <1>1, <1>2 DEF IInv, TypeOK, SingleFlight, InFlight
<1>6. TimersGuardTheBrowser'
  BY <1>1, <1>2 DEF IInv, TypeOK, TimersGuardTheBrowser
<1>7. StoppedOnce' /\ FailedAttachIsStopped'
  BY <1>1 DEF IInv, TypeOK, StoppedOnce, FailedAttachIsStopped
<1>8. SlotAccounting'
  BY <1>1, AccountingUnchanged DEF IInv, slots
<1>. QED
  BY <1>3, <1>4, <1>5, <1>6, <1>7, <1>8 DEF IInv

\* What a step that runs #stopBrowserSession for one session does to the facts
\* about remembered ids and attaching generations.
LEMMA StopKeepsRemembering ==
  ASSUME IInv, NEW s \in Sessions, StopBrowserSessions({s}), UNCHANGED owner,
         \A g \in Generations : phase'[g] = "attaching" => phase[g] = "attaching"
  PROVE  AttachingRemembered'
<1>. SUFFICES ASSUME NEW g \in Generations, phase'[g] = "attaching"
              PROVE  browserSessionId'[owner[g]] = g \/ g \in stopSent'
  BY DEF AttachingRemembered
<1>1. /\ \A r \in Sessions :
           browserSessionId'[r] = IF r \in {s} THEN None ELSE browserSessionId[r]
      /\ stopSent' = stopSent \union Remembered({s})
  BY StopFacts
<1>2. phase[g] = "attaching"
  OBVIOUS
<1>3. owner[g] \in Sessions /\ (browserSessionId[owner[g]] = g \/ g \in stopSent)
  BY <1>2 DEF IInv, Wired, OwnersWired, AttachingRemembered
<1>4. browserSessionId[s] = g => g \in Remembered({s})
  BY DEF Remembered
<1>. QED
  BY <1>1, <1>3, <1>4

\* A failed attach stops its session unless a deactivation already did.
LEMMA AttachFailsKeepsIInv ==
  ASSUME IInv, NEW g \in Generations, AttachFails(g)
  PROVE  IInv'
<1>0. owner[g] \in Sessions /\ activating[owner[g]] = g
  BY DEF AttachFails, IInv, Wired, OwnersWired, SingleFlight, InFlight
<1>. PICK s \in Sessions : s = owner[g]
  BY <1>0
<1>1. /\ phase[g] = "attaching"
      /\ StopBrowserSessions({s})
      /\ \/ /\ browserSessionId[s] = None
            /\ phase' = [phase EXCEPT ![g] = "aborted"]
            /\ activating' = [activating EXCEPT ![s] = None]
         \/ /\ browserSessionId[s] # None
            /\ phase' = [phase EXCEPT ![g] = "cleanup"]
            /\ UNCHANGED activating
      /\ UNCHANGED <<client, closed, tearingDown, idleTimer, ttlTimer, owner, closing,
                     aws, child>>
  BY DEF AttachFails, Settle, timers, external
<1>2. activating[s] = g
  BY <1>0
<1>3. /\ browserSessionId' \in [Sessions -> Generations \union {None}]
      /\ \A r \in Sessions :
           browserSessionId'[r] = IF r \in {s} THEN None ELSE browserSessionId[r]
      /\ stopping' = stopping \union Remembered({s})
      /\ stopSent' = stopSent \union Remembered({s})
      /\ stopping' \subseteq Generations /\ stopSent' \subseteq Generations
      /\ holdsSlot' \in [Sessions -> BOOLEAN]
      /\ live' \in Nat
      /\ SlotAccounting'
      /\ StoppedOnce'
  BY <1>1, <1>2, StopFacts
<1>4. \A h \in Remembered({s}) : phase[h] \in {"attaching", "attached"}
  BY <1>2, RememberedFacts
<1>5. phase' = [phase EXCEPT ![g] = "aborted"] \/ phase' = [phase EXCEPT ![g] = "cleanup"]
  BY <1>1
<1>6. TypeOK'
  <2>1. activating' \in [Sessions -> Generations \union {None}]
    BY <1>1 DEF IInv, TypeOK
  <2>2. phase' \in [Generations -> Phases]
    BY <1>5 DEF IInv, TypeOK, Phases
  <2>. QED
    BY <1>1, <1>3, <2>1, <2>2 DEF IInv, TypeOK
<1>7. OwnersWired' /\ ClientsWired' /\ CoroutinesWired'
  <2>1. \A h \in Generations : phase'[h] = phase[h] \/ (h = g /\ phase'[h] \in {"aborted", "cleanup"})
    BY <1>5 DEF IInv, TypeOK
  <2>2. OwnersWired'
    BY <1>1, <2>1 DEF IInv, Wired, OwnersWired
  <2>3. ClientsWired'
    BY <1>1, <2>1 DEF IInv, TypeOK, Wired, ClientsWired
  <2>4. CoroutinesWired'
    BY <1>1, <1>3, <1>4, <2>1 DEF IInv, Wired, CoroutinesWired
  <2>. QED
    BY <2>2, <2>3, <2>4
<1>8. IdsWired'
  <2>. SUFFICES ASSUME NEW r \in Sessions, browserSessionId'[r] # None
                PROVE  /\ owner[browserSessionId'[r]] = r
                       /\ phase'[browserSessionId'[r]] \in {"attaching", "attached"}
    BY <1>1 DEF IdsWired
  <2>1. r # s /\ browserSessionId'[r] = browserSessionId[r]
    BY <1>3
  <2>2. /\ owner[browserSessionId[r]] = r
        /\ phase[browserSessionId[r]] \in {"attaching", "attached"}
    BY <2>1 DEF IInv, Wired, IdsWired
  <2>3. browserSessionId[r] # g
    BY <2>1, <2>2
  <2>. QED
    BY <1>5, <2>1, <2>2, <2>3 DEF IInv, TypeOK
<1>9. AttachingRemembered'
  <2>1. \A h \in Generations : phase'[h] = "attaching" => phase[h] = "attaching"
    BY <1>5 DEF IInv, TypeOK
  <2>. QED
    BY <1>1, <1>2, <2>1, StopKeepsRemembering
<1>10. SingleFlight'
  <2>1. CASE activating' = [activating EXCEPT ![s] = None] /\ phase' = [phase EXCEPT ![g] = "aborted"]
    BY <1>1, <1>2, <2>1 DEF IInv, TypeOK, SingleFlight, InFlight
  <2>2. CASE UNCHANGED activating /\ phase' = [phase EXCEPT ![g] = "cleanup"]
    BY <1>1, <1>2, <2>2 DEF IInv, TypeOK, SingleFlight, InFlight
  <2>. QED
    BY <1>1, <2>1, <2>2
<1>11. TimersGuardTheBrowser'
  BY <1>1 DEF IInv, TimersGuardTheBrowser
<1>12. FailedAttachIsStopped'
  <2>1. g \in stopSent'
    <3>1. browserSessionId[s] = g \/ g \in stopSent
      BY <1>1 DEF IInv, Wired, AttachingRemembered
    <3>2. browserSessionId[s] = g => g \in Remembered({s})
      BY DEF Remembered
    <3>. QED
      BY <1>3, <3>1, <3>2
  <2>. QED
    BY <2>1, <1>3, <1>5 DEF IInv, TypeOK, FailedAttachIsStopped
<1>. QED
  BY <1>3, <1>6, <1>7, <1>8, <1>9, <1>10, <1>11, <1>12 DEF IInv, Wired

\* A teardown resumes and stops the id the session remembers by then.
LEMMA CloseReturnsKeepsIInv ==
  ASSUME IInv, NEW g \in Generations, CloseReturns(g)
  PROVE  IInv'
<1>0. owner[g] \in Sessions
  BY DEF CloseReturns, IInv, Wired, OwnersWired, CoroutinesWired
<1>. PICK s \in Sessions : s = owner[g]
  BY <1>0
<1>1. /\ closing' = closing \ {g}
      /\ tearingDown' = [tearingDown EXCEPT ![s] = FALSE]
      /\ StopBrowserSessions({s})
      /\ UNCHANGED <<client, activating, closed, idleTimer, ttlTimer, owner, phase,
                     aws, child>>
  BY DEF CloseReturns, timers, external
<1>2. /\ browserSessionId' \in [Sessions -> Generations \union {None}]
      /\ \A r \in Sessions :
           browserSessionId'[r] = IF r \in {s} THEN None ELSE browserSessionId[r]
      /\ stopping' = stopping \union Remembered({s})
      /\ stopSent' = stopSent \union Remembered({s})
      /\ stopping' \subseteq Generations /\ stopSent' \subseteq Generations
      /\ holdsSlot' \in [Sessions -> BOOLEAN]
      /\ live' \in Nat
      /\ SlotAccounting'
      /\ StoppedOnce'
  BY <1>1, StopFacts
<1>3. \A h \in Remembered({s}) : phase[h] \in {"attaching", "attached"}
  BY RememberedFacts
<1>4. TypeOK'
  BY <1>1, <1>2 DEF IInv, TypeOK
<1>5. OwnersWired' /\ ClientsWired' /\ IdsWired'
  BY <1>1, <1>2 DEF IInv, Wired, OwnersWired, ClientsWired, IdsWired
<1>6. CoroutinesWired'
  BY <1>1, <1>2, <1>3 DEF IInv, Wired, CoroutinesWired
<1>7. AttachingRemembered'
  BY <1>1, StopKeepsRemembering
<1>8. SingleFlight' /\ TimersGuardTheBrowser' /\ FailedAttachIsStopped'
  BY <1>1, <1>2 DEF IInv, SingleFlight, TimersGuardTheBrowser, FailedAttachIsStopped
<1>. QED
  BY <1>2, <1>4, <1>5, <1>6, <1>7, <1>8 DEF IInv, Wired

\* A stop settles; an activation that awaited it is over.
LEMMA StopReturnsKeepsIInv ==
  ASSUME IInv, NEW g \in Generations, StopReturns(g)
  PROVE  IInv'
<1>0. owner[g] \in Sessions
  BY DEF StopReturns, IInv, Wired, OwnersWired, CoroutinesWired
<1>. PICK s \in Sessions : s = owner[g]
  BY <1>0
<1>1. /\ stopping' = stopping \ {g}
      /\ aws' \in {aws, [aws EXCEPT ![g] = "ended"]}
      /\ ReleaseSlots({s})
      /\ UNCHANGED <<client, browserSessionId, closed, tearingDown, idleTimer, ttlTimer,
                     owner, closing, child, stopSent>>
  BY DEF StopReturns, timers
<1>2. \/ /\ phase[g] = "cleanup"
         /\ phase' = [phase EXCEPT ![g] = "aborted"]
         /\ activating' = [activating EXCEPT ![s] = None]
      \/ UNCHANGED <<phase, activating>>
  BY DEF StopReturns, Settle
<1>3. holdsSlot' \in [Sessions -> BOOLEAN] /\ live' \in Nat /\ SlotAccounting'
  BY <1>1, ReleaseKeepsAccounting DEF IInv
<1>4. TypeOK'
  <2>1. /\ activating' \in [Sessions -> Generations \union {None}]
        /\ phase' \in [Generations -> Phases]
    BY <1>2 DEF IInv, TypeOK, Phases
  <2>2. aws' \in [Generations -> {"absent", "live", "ended"}]
    BY <1>1 DEF IInv, TypeOK
  <2>. QED
    BY <1>1, <1>3, <2>1, <2>2 DEF IInv, TypeOK
<1>5. \A h \in Generations :
        phase'[h] = phase[h] \/ (h = g /\ phase[g] = "cleanup" /\ phase'[g] = "aborted")
  BY <1>2 DEF IInv, TypeOK
<1>6. OwnersWired' /\ AttachingRemembered' /\ FailedAttachIsStopped'
  BY <1>1, <1>5 DEF IInv, Wired, OwnersWired, AttachingRemembered, FailedAttachIsStopped
<1>7. ClientsWired' /\ IdsWired'
  BY <1>1, <1>5 DEF IInv, TypeOK, Wired, ClientsWired, IdsWired
<1>8. CoroutinesWired'
  BY <1>1, <1>5 DEF IInv, Wired, CoroutinesWired
<1>9. SingleFlight'
  <2>1. CASE /\ phase[g] = "cleanup"
             /\ phase' = [phase EXCEPT ![g] = "aborted"]
             /\ activating' = [activating EXCEPT ![s] = None]
    <3>1. activating[s] = g
      BY <2>1 DEF IInv, SingleFlight, InFlight
    <3>. QED
      BY <1>1, <2>1, <3>1 DEF IInv, TypeOK, SingleFlight, InFlight
  <2>2. CASE UNCHANGED <<phase, activating>>
    BY <1>1, <2>2 DEF IInv, SingleFlight
  <2>. QED
    BY <1>2, <2>1, <2>2
<1>10. TimersGuardTheBrowser' /\ StoppedOnce'
  BY <1>1 DEF IInv, TimersGuardTheBrowser, StoppedOnce
<1>. QED
  BY <1>3, <1>4, <1>6, <1>7, <1>8, <1>9, <1>10 DEF IInv, Wired

\* onclose deactivates or ignores the death of a child.
LEMMA ChildExitsKeepsIInv ==
  ASSUME IInv, NEW g \in Generations, ChildExits(g)
  PROVE  IInv'
<1>0. owner[g] \in Sessions
  BY DEF ChildExits, IInv, Wired, OwnersWired, CoroutinesWired
<1>1. /\ child[g] = "running"
      /\ child' = [child EXCEPT ![g] = "dead"]
      /\ UNCHANGED <<activating, closed, owner, phase, aws>>
      /\ \/ UNCHANGED <<client, browserSessionId, holdsSlot, live, tearingDown, idleTimer,
                        ttlTimer, closing, stopping, stopSent>>
         \/ DeactivateAll({owner[g]})
  BY DEF ChildExits, Deactivate, slots, timers
<1>2. /\ child' \in [Generations -> {"none", "running", "dead"}]
      /\ \A h \in Generations : child'[h] = "running" => child[h] = "running"
  BY <1>1 DEF IInv, TypeOK
<1>3. CASE DeactivateAll({owner[g]})
  <2>1. {owner[g]} \in SUBSET Sessions /\ closed' \in [Sessions -> BOOLEAN]
    BY <1>0, <1>1 DEF IInv, TypeOK
  <2>. QED
    BY <1>1, <1>2, <1>3, <2>1, DeactivateKeepsIInv
<1>4. CASE UNCHANGED <<client, browserSessionId, holdsSlot, live, tearingDown, idleTimer,
                       ttlTimer, closing, stopping, stopSent>>
  <2>1. TypeOK'
    BY <1>1, <1>2, <1>4 DEF IInv, TypeOK
  <2>2. Wired' /\ SingleFlight' /\ StoppedOnce' /\ FailedAttachIsStopped'
    BY <1>1, <1>2, <1>4 DEF IInv, Wired, OwnersWired, ClientsWired, IdsWired,
         CoroutinesWired, AttachingRemembered, SingleFlight, StoppedOnce, FailedAttachIsStopped
  <2>3. TimersGuardTheBrowser'
    BY <1>4 DEF IInv, TimersGuardTheBrowser
  <2>4. SlotAccounting'
    BY <1>4, AccountingUnchanged DEF IInv, slots
  <2>. QED
    BY <2>1, <2>2, <2>3, <2>4 DEF IInv
<1>. QED
  BY <1>1, <1>3, <1>4

\* close(), of one session or of all that shutdown() tears down.
LEMMA CloseAllKeepsIInv ==
  ASSUME IInv, NEW S \in SUBSET Sessions, CloseAll(S)
  PROVE  IInv'
<1>1. closed' \in [Sessions -> BOOLEAN]
  BY DEF CloseAll, Assign, IInv, TypeOK
<1>2. DeactivateAll(S) /\ UNCHANGED <<activating, owner, phase, aws, child>>
  BY DEF CloseAll, external
<1>3. child' \in [Generations -> {"none", "running", "dead"}]
  BY <1>2 DEF IInv, TypeOK
<1>. QED
  BY <1>1, <1>2, <1>3, DeactivateKeepsIInv

\* An idle or TTL timer deactivates its session.
LEMMA TimerKeepsIInv ==
  ASSUME IInv, NEW s \in Sessions, IdleFires(s) \/ TtlFires(s)
  PROVE  IInv'
<1>1. DeactivateAll({s}) /\ UNCHANGED <<activating, closed, owner, phase, aws, child>>
  BY DEF IdleFires, TtlFires, Deactivate, external
<1>2. /\ closed' \in [Sessions -> BOOLEAN]
      /\ child' \in [Generations -> {"none", "running", "dead"}]
      /\ {s} \in SUBSET Sessions
  BY <1>1 DEF IInv, TypeOK
<1>. QED
  BY <1>1, <1>2, DeactivateKeepsIInv

-----------------------------------------------------------------------------
(***************************************************************************)
(* The invariant and what follows from it.                                 *)
(***************************************************************************)

\* Nothing has been started.
LEMMA InitIInv == Init => IInv
<1>. SUFFICES ASSUME Init PROVE IInv
  OBVIOUS
<1>1. TypeOK
  BY DEF Init, TypeOK, Phases
<1>2. Wired
  BY DEF Init, Wired, OwnersWired, ClientsWired, IdsWired, CoroutinesWired, AttachingRemembered
<1>3. SlotAccounting
  <2>1. Holding(Sessions) = {}
    BY DEF Init, Holding
  <2>2. Cardinality(Holding(Sessions)) = 0
    BY <2>1, FS_EmptySet, Zenon
  <2>. QED
    BY <2>2 DEF Init, SlotAccounting
<1>4. SingleFlight /\ TimersGuardTheBrowser /\ StoppedOnce /\ FailedAttachIsStopped
  BY DEF Init, SingleFlight, InFlight, TimersGuardTheBrowser, StoppedOnce, FailedAttachIsStopped
<1>. QED
  BY <1>1, <1>2, <1>3, <1>4 DEF IInv

\* The invariant is about the variables of the module only.
LEMMA StutterKeepsIInv == IInv /\ UNCHANGED vars => IInv'
<1>. SUFFICES ASSUME IInv, UNCHANGED vars PROVE IInv'
  OBVIOUS
<1>1. SlotAccounting'
  BY AccountingUnchanged DEF IInv, slots, vars
<1>2. TypeOK' /\ Wired'
  BY DEF vars, IInv, TypeOK, Wired, OwnersWired, ClientsWired, IdsWired, CoroutinesWired,
         AttachingRemembered
<1>3. SingleFlight' /\ TimersGuardTheBrowser' /\ StoppedOnce' /\ FailedAttachIsStopped'
  BY DEF vars, IInv, SingleFlight, TimersGuardTheBrowser, StoppedOnce, FailedAttachIsStopped
<1>. QED
  BY <1>1, <1>2, <1>3 DEF IInv

\* IInv is inductive.
LEMMA NextIInv == IInv /\ [Next]_vars => IInv'
<1>. SUFFICES ASSUME IInv, [Next]_vars PROVE IInv'
  OBVIOUS
<1>1. ASSUME NEW s \in Sessions, SessionStep(s) PROVE IInv'
  <2>1. CASE BeginActivation(s)
    BY <2>1, BeginActivationKeepsIInv
  <2>2. CASE ForwardCall(s)
    BY <2>2, ForwardCallKeepsIInv
  <2>3. CASE IdleFires(s) \/ TtlFires(s)
    BY <2>3, TimerKeepsIInv
  <2>. QED
    BY <1>1, <2>1, <2>2, <2>3 DEF SessionStep
<1>2. ASSUME NEW g \in Generations, GenerationStep(g) PROVE IInv'
  <2>1. CASE StartReturns(g)
    BY <2>1, StartReturnsKeepsIInv
  <2>2. CASE StartFails(g)
    BY <2>2, StartFailsKeepsIInv
  <2>3. CASE AttachSucceeds(g)
    BY <2>3, AttachSucceedsKeepsIInv
  <2>4. CASE AttachFails(g)
    BY <2>4, AttachFailsKeepsIInv
  <2>5. CASE ChildExits(g)
    BY <2>5, ChildExitsKeepsIInv
  <2>6. CASE CloseReturns(g)
    BY <2>6, CloseReturnsKeepsIInv
  <2>7. CASE StopReturns(g)
    BY <2>7, StopReturnsKeepsIInv
  <2>8. CASE AwsStarts(g) \/ AwsExpires(g)
    BY <2>8, AwsKeepsIInv
  <2>. QED
    BY <1>2, <2>1, <2>2, <2>3, <2>4, <2>5, <2>6, <2>7, <2>8 DEF GenerationStep
<1>3. ASSUME NEW S \in SUBSET Sessions, CloseAll(S) PROVE IInv'
  BY <1>3, CloseAllKeepsIInv
<1>4. CASE UNCHANGED vars
  BY <1>4, StutterKeepsIInv
<1>. QED
  BY <1>1, <1>2, <1>3, <1>4 DEF Next

\* The inductive invariant holds of every behaviour.
THEOREM Invariance == Spec => []IInv
  BY InitIInv, NextIInv, PTL DEF Spec

\* Every variable keeps its type, for any sets of sessions and generations.
THEOREM TypeCorrect == Spec => []TypeOK
<1>1. IInv => TypeOK
  BY DEF IInv
<1>. QED
  BY <1>1, Invariance, PTL

\* The limiter counts every slot that is held and never exceeds its cap: no
\* interleaving of close, timers, child deaths and failing activations gives
\* one slot back twice.
THEOREM SlotsAreAccountedFor == Spec => []SlotAccounting
<1>1. IInv => SlotAccounting
  BY DEF IInv
<1>. QED
  BY <1>1, Invariance, PTL

\* First calls are serialised: one activation per session, none beside a browser.
THEOREM ActivationIsSingleFlight == Spec => []SingleFlight
<1>1. IInv => SingleFlight
  BY DEF IInv
<1>. QED
  BY <1>1, Invariance, PTL

\* Timers are armed for the attached browser and for no other.
THEOREM TimersGuard == Spec => []TimersGuardTheBrowser
<1>1. IInv => TimersGuardTheBrowser
  BY DEF IInv
<1>. QED
  BY <1>1, Invariance, PTL

\* No AgentCore session is stopped twice.
THEOREM StopsAreIssuedOnce == Spec => []StoppedOnce
<1>1. IInv => StoppedOnce
  BY DEF IInv
<1>. QED
  BY <1>1, Invariance, PTL

\* No AgentCore session whose browser could not be attached is left running.
THEOREM FailedAttachesAreStopped == Spec => []FailedAttachIsStopped
<1>1. IInv => FailedAttachIsStopped
  BY DEF IInv
<1>. QED
  BY <1>1, Invariance, PTL

=============================================================================
