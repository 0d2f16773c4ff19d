--------------------------- MODULE InterpreterProofs ---------------------------
(***************************************************************************)
(* TLAPS proofs about InterpreterSession and InterpreterServer.  IInv is   *)
(* inductive for the sessions: InitIInv and NextIInv; their safety         *)
(* properties follow.  The server takes only steps of its sessions, so     *)
(* what is shown of them holds of the process, and what its shutdown waits *)
(* for is always still to settle.                                          *)
(***************************************************************************)
EXTENDS InterpreterServer, FiniteSetTheorems, TLAPS

USE SessionsAssumption, GenerationsAssumption, TasksAssumption, MaxSessionsAssumption,
    IdleEvictionAssumption

-----------------------------------------------------------------------------
(***************************************************************************)
(* Counting slots.                                                         *)
(***************************************************************************)

\* The sessions of any subset that hold a slot are finitely many.
LEMMA HoldingFinite ==
  ASSUME NEW S \in SUBSET Sessions
  PROVE  IsFiniteSet(Holding(S)) /\ Cardinality(Holding(S)) \in Nat
<1>1. Holding(S) \in SUBSET Sessions
  BY DEF Holding
<1>. QED
  BY <1>1, FS_Subset, FS_CardinalityType

\* #releaseSlot, of any set of sessions, lowers the counter by as much as the
\* number of holders, so it stays an upper bound of the holders.
LEMMA ReleaseKeepsAccounting ==
  ASSUME TypeOK, SlotAccounting, NEW S \in SUBSET Sessions, ReleaseSlots(S)
  PROVE  /\ holdsSlot' \in [Sessions -> BOOLEAN]
         /\ live' \in Nat
         /\ SlotAccounting'
<1>. DEFINE Before == Holding(Sessions)
            Given  == Holding(S)
            After  == Holding(Sessions)'
<1>1. /\ IsFiniteSet(Before) /\ Cardinality(Before) \in Nat
      /\ IsFiniteSet(Given) /\ Cardinality(Given) \in Nat
  BY HoldingFinite
<1>2. holdsSlot' \in [Sessions -> BOOLEAN]
  BY DEF ReleaseSlots, Assign, TypeOK
<1>3. After = Before \ Given /\ Given \in SUBSET Before
  BY DEF ReleaseSlots, Holding, Assign, TypeOK
<1>4. Before \intersect Given = Given
  BY <1>3
<1>5. Cardinality(Before \ Given) = Cardinality(Before) - Cardinality(Before \intersect Given)
  BY <1>1, FS_Difference
<1>6. Cardinality(After) = Cardinality(Before) - Cardinality(Given)
  BY <1>3, <1>4, <1>5, Zenon
<1>7. /\ live \in Nat /\ Cardinality(Before) <= live /\ live <= MaxSessions
      /\ live' = IF live > Cardinality(Given) THEN live - Cardinality(Given) ELSE 0
  BY DEF TypeOK, SlotAccounting, ReleaseSlots
<1>. HIDE DEF Before, Given, After
<1>8. live' \in Nat /\ Cardinality(After) <= live' /\ live' <= MaxSessions
  BY <1>1, <1>6, <1>7
<1>. QED
  BY <1>2, <1>8 DEF SlotAccounting, After

\* A step that leaves the limiter alone leaves the accounting alone.
LEMMA AccountingUnchanged ==
  ASSUME SlotAccounting, UNCHANGED slots
  PROVE  SlotAccounting'
  BY DEF SlotAccounting, Holding, slots

-----------------------------------------------------------------------------
(***************************************************************************)
(* The steps handlers share.                                               *)
(***************************************************************************)

\* deactivate() for any reason but idleness, and on idleness when no task is
\* open, whatever set of sessions runs it.
LEMMA DeactivateKeepsIInv ==
  ASSUME IInv, NEW S \in SUBSET Sessions, DeactivateAll(S),
         closed' \in [Sessions -> BOOLEAN],
         UNCHANGED <<activating, owner, phase, calls, aws, tasks, reported>>
  PROVE  IInv'
<1>. USE DEF IInv
<1>1. {s \in S : sessionId[s] = None} \in SUBSET Sessions
  OBVIOUS
<1>2. /\ holdsSlot' \in [Sessions -> BOOLEAN]
      /\ live' \in Nat
      /\ SlotAccounting'
  BY <1>1, ReleaseKeepsAccounting DEF DeactivateAll, StopSessions
<1>3. Remembered(S) \subseteq Generations
  BY DEF Remembered, TypeOK
<1>. DEFINE Set(f, v) == [s \in Sessions |-> IF s \in S THEN v ELSE f[s]]
<1>4. /\ sessionId' = Set(sessionId, None)
      /\ idleTimer' = Set(idleTimer, FALSE)
      /\ ttlTimer' = Set(ttlTimer, FALSE)
      /\ openTasks' = Set(openTasks, {})
      /\ stopping' = stopping \union Remembered(S)
  BY DEF DeactivateAll, StopSessions, Assign
<1>5. /\ sessionId' \in [Sessions -> Generations \union {None}]
      /\ idleTimer' \in [Sessions -> BOOLEAN]
      /\ ttlTimer' \in [Sessions -> BOOLEAN]
      /\ openTasks' \in [Sessions -> SUBSET Tasks]
      /\ stopping' \subseteq Generations
  BY <1>3, <1>4 DEF TypeOK
<1>6. \A s \in Sessions :
        /\ sessionId'[s] = IF s \in S THEN None ELSE sessionId[s]
        /\ idleTimer'[s] = IF s \in S THEN FALSE ELSE idleTimer[s]
        /\ ttlTimer'[s] = IF s \in S THEN FALSE ELSE ttlTimer[s]
        /\ openTasks'[s] = IF s \in S THEN {} ELSE openTasks[s]
  BY <1>4
<1>7. TypeOK'
  BY <1>2, <1>5 DEF TypeOK, calls, tasks
<1>8. Wired'
  <2>1. \A g \in Remembered(S) : phase[g] = "over"
    BY DEF Remembered, Wired, IdsWired
  <2>2. StopsWired'
    BY <1>4, <2>1 DEF Wired, StopsWired
  <2>. QED
    BY <1>6, <2>2, ZenonT(60) DEF Wired, OwnersWired, IdsWired, CallsWired, ReportedWired, calls, tasks
<1>9. TtlGuardsSession' /\ TasksSuspendIdleTimer'
  BY <1>6 DEF TtlGuardsSession, TasksSuspendIdleTimer
<1>10. ReportedTasksTracked'
  <2>. SUFFICES ASSUME NEW t \in reported, Running(t),
                       sessionId'[owner[taskIn[t]]] = taskIn[t]
                PROVE  t \in openTasks'[owner[taskIn[t]]]
    BY DEF ReportedTasksTracked, Running, tasks
  <2>1. taskIn[t] # None /\ owner[taskIn[t]] \in Sessions
    BY DEF Wired, OwnersWired, ReportedWired, TypeOK
  <2>2. owner[taskIn[t]] \notin S /\ sessionId[owner[taskIn[t]]] = taskIn[t]
    BY <1>6, <2>1
  <2>. QED
    BY <1>6, <2>1, <2>2 DEF ReportedTasksTracked
<1>. QED
  BY <1>2, <1>7, <1>8, <1>9, <1>10

-----------------------------------------------------------------------------
(***************************************************************************)
(* Calls that arrive, and the activations they begin.                      *)
(***************************************************************************)

\* An arriving call invokes an activated session of its own, or none yet, and
\* carries a task only to poll it.
LEMMA ArrivesFacts ==
  ASSUME IInv, NEW c \in Calls, NEW s \in Sessions, NEW g \in Generations \union {None},
         Arrives(c, s, g), g # None => owner[g] = s /\ phase[g] = "over"
  PROVE  /\ caller' \in [Calls -> Sessions \union {None}]
         /\ tool' \in [Calls -> Tools]
         /\ target' \in [Calls -> Generations \union {None}]
         /\ subject' \in [Calls -> Tasks \union {None}]
         /\ \A d \in Calls :
              /\ target'[d] # None =>
                   /\ caller'[d] \in Sessions
                   /\ owner[target'[d]] = caller'[d]
                   /\ phase[target'[d]] = "over"
              /\ tool'[d] = "start" /\ subject'[d] # None =>
                   target'[d] # None /\ taskIn[subject'[d]] = target'[d]
<1>. USE DEF IInv
<1>1. PICK k \in Tools, t \in Known(s) \union {None} :
        /\ k = "poll" <=> t # None
        /\ tool' = [tool EXCEPT ![c] = k]
        /\ subject' = [subject EXCEPT ![c] = t]
  BY DEF Arrives
<1>2. t \in Tasks \union {None} /\ ~(k = "start" /\ t # None)
  BY <1>1 DEF Known, TypeOK
<1>3. /\ caller' = [caller EXCEPT ![c] = s]
      /\ target' = [target EXCEPT ![c] = g]
  BY DEF Arrives
<1>. QED
  BY <1>1, <1>2, <1>3 DEF TypeOK, Wired, CallsWired

\* A call that only joins what is there disturbs nothing but the calls.
LEMMA ArrivalKeepsIInv ==
  ASSUME IInv, NEW c \in Calls, NEW s \in Sessions, InvokeTool(c, s) \/ JoinActivation(c, s)
  PROVE  IInv'
<1>. USE DEF IInv
<1>1. PICK g \in Generations \union {None} :
        Arrives(c, s, g) /\ (g # None => owner[g] = s /\ phase[g] = "over")
  <2>1. CASE InvokeTool(c, s)
    BY <2>1 DEF InvokeTool, Wired, IdsWired, TypeOK
  <2>2. CASE JoinActivation(c, s)
    BY <2>2 DEF JoinActivation
  <2>. QED
    BY <2>1, <2>2
<1>2. UNCHANGED <<sessionId, activating, closed, slots, timers, openTasks, owner, phase,
                  stopping, aws, tasks, reported>>
  BY DEF InvokeTool, JoinActivation
<1>3. TypeOK'
  BY <1>1, <1>2, ArrivesFacts DEF TypeOK, slots, timers, tasks
<1>4. CallsWired'
  BY <1>1, <1>2, ArrivesFacts DEF CallsWired, tasks
<1>5. OwnersWired' /\ IdsWired' /\ ReportedWired' /\ StopsWired'
  BY <1>2 DEF Wired, OwnersWired, IdsWired, ReportedWired, StopsWired, tasks
<1>6. SlotAccounting'
  BY <1>2, AccountingUnchanged
<1>7. TtlGuardsSession' /\ TasksSuspendIdleTimer' /\ ReportedTasksTracked'
  BY <1>2 DEF TtlGuardsSession, TasksSuspendIdleTimer, ReportedTasksTracked, Running, timers, tasks
<1>. QED
  BY <1>3, <1>4, <1>5, <1>6, <1>7 DEF Wired

\* #activate takes a slot under the cap; the generation it begins is nobody's.
LEMMA BeginActivationKeepsIInv ==
  ASSUME IInv, NEW c \in Calls, NEW s \in Sessions, BeginActivation(c, s)
  PROVE  IInv'
<1>. USE DEF IInv
<1>. DEFINE n == NextGeneration
<1>1. n \in Generations /\ phase[n] = "unused"
  <2>1. n \in Unused
    BY DEF BeginActivation, NextGeneration
  <2>. QED
    BY <2>1 DEF Unused
<1>2. /\ sessionId[s] = None
      /\ live < MaxSessions
      /\ Arrives(c, s, None)
      /\ live' = live + 1
      /\ holdsSlot' = [holdsSlot EXCEPT ![s] = TRUE]
      /\ owner' = [owner EXCEPT ![n] = s]
      /\ phase' = [phase EXCEPT ![n] = "starting"]
      /\ activating' = [activating EXCEPT ![s] = n]
      /\ UNCHANGED <<sessionId, closed, timers, openTasks, stopping, aws, tasks, reported>>
  BY DEF BeginActivation
<1>. HIDE DEF n
<1>3. /\ caller' \in [Calls -> Sessions \union {None}]
      /\ tool' \in [Calls -> Tools]
      /\ target' \in [Calls -> Generations \union {None}]
      /\ subject' \in [Calls -> Tasks \union {None}]
      /\ \A d \in Calls :
           /\ target'[d] # None =>
                /\ caller'[d] \in Sessions
                /\ owner[target'[d]] = caller'[d]
                /\ phase[target'[d]] = "over"
           /\ tool'[d] = "start" /\ subject'[d] # None =>
                target'[d] # None /\ taskIn[subject'[d]] = target'[d]
  BY <1>2, ArrivesFacts
<1>4. TypeOK'
  BY <1>1, <1>2, <1>3 DEF TypeOK, timers, tasks
<1>5. \A g \in Generations : phase[g] = "over" => owner'[g] = owner[g] /\ phase'[g] = "over"
  BY <1>1, <1>2 DEF TypeOK
<1>6. OwnersWired' /\ StopsWired'
  BY <1>1, <1>2 DEF Wired, OwnersWired, StopsWired, TypeOK
<1>7. IdsWired'
  BY <1>2, <1>5 DEF Wired, IdsWired, TypeOK
<1>8. CallsWired'
  BY <1>2, <1>3, <1>5 DEF CallsWired, tasks
<1>9. ReportedWired'
  BY <1>2, <1>5 DEF Wired, ReportedWired, TypeOK, tasks
<1>10. SlotAccounting'
  <2>. DEFINE Before == Holding(Sessions)
              After  == Holding(Sessions)'
  <2>1. IsFiniteSet(Before) /\ Cardinality(Before) \in Nat
    BY HoldingFinite
  <2>2. After = Before \union {s}
    BY <1>2 DEF Holding, TypeOK
  <2>3. Cardinality(Before) <= live
    BY DEF SlotAccounting
  <2>. HIDE DEF Before, After
  <2>4. Cardinality(After) = Cardinality(Before) \/ Cardinality(After) = Cardinality(Before) + 1
    BY <2>1, <2>2, FS_AddElement
  <2>5. Cardinality(After) <= live'
    BY <1>2, <2>1, <2>3, <2>4 DEF TypeOK
  <2>. QED
    BY <1>2, <2>5 DEF SlotAccounting, TypeOK, After
<1>11. TtlGuardsSession' /\ TasksSuspendIdleTimer'
  BY <1>2 DEF TtlGuardsSession, TasksSuspendIdleTimer, timers
<1>12. ReportedTasksTracked'
  <2>. SUFFICES ASSUME NEW t \in reported, Running(t),
                       sessionId[owner'[taskIn[t]]] = taskIn[t]
                PROVE  t \in openTasks[owner'[taskIn[t]]]
    BY <1>2 DEF ReportedTasksTracked, Running, tasks
  <2>1. owner'[taskIn[t]] = owner[taskIn[t]]
    BY <1>5 DEF Wired, ReportedWired, TypeOK
  <2>. QED
    BY <2>1 DEF ReportedTasksTracked
<1>. QED
  BY <1>4, <1>6, <1>7, <1>8, <1>9, <1>10, <1>11, <1>12 DEF Wired

-----------------------------------------------------------------------------
(***************************************************************************)
(* How an activation ends.                                                 *)
(***************************************************************************)

\* startSession resolves: the session is fresh, so no task reported so far runs in it.
LEMMA StartReturnsKeepsIInv ==
  ASSUME IInv, NEW g \in Generations, StartReturns(g)
  PROVE  IInv'
<1>. USE DEF IInv
<1>. DEFINE o == owner[g]
<1>1. o \in Sessions /\ phase[g] = "starting"
  BY DEF StartReturns, Wired, OwnersWired
<1>2. /\ phase' = [phase EXCEPT ![g] = "over"]
      /\ activating' = [activating EXCEPT ![o] = None]
      /\ sessionId' = [sessionId EXCEPT ![o] = g]
      /\ ttlTimer' = [ttlTimer EXCEPT ![o] = TRUE]
      /\ target' = [c \in Calls |-> IF c \in Waiting(o) THEN g ELSE target[c]]
      /\ UNCHANGED <<closed, slots, idleTimer, openTasks, owner, stopping, caller, tool,
                     subject, aws, tasks, reported>>
  BY DEF StartReturns
<1>3. \A c \in Calls : c \in Waiting(o) => caller[c] = o /\ target[c] = None
  BY DEF Waiting
<1>. HIDE DEF o
<1>4. TypeOK'
  BY <1>1, <1>2 DEF TypeOK, slots, tasks
<1>5. OwnersWired' /\ StopsWired'
  BY <1>1, <1>2 DEF Wired, OwnersWired, StopsWired, TypeOK, o
<1>6. IdsWired'
  BY <1>1, <1>2 DEF Wired, IdsWired, TypeOK, o
<1>7. CallsWired'
  <2>. SUFFICES ASSUME NEW c \in Calls
                PROVE  /\ target'[c] # None =>
                            /\ caller[c] \in Sessions
                            /\ owner[target'[c]] = caller[c]
                            /\ phase'[target'[c]] = "over"
                       /\ tool[c] = "start" /\ subject[c] # None =>
                            target'[c] # None /\ taskIn[subject[c]] = target'[c]
    BY <1>2 DEF CallsWired, tasks
  <2>1. CASE c \in Waiting(o)
    BY <2>1, <1>1, <1>2, <1>3 DEF Wired, CallsWired, TypeOK, o
  <2>2. CASE c \notin Waiting(o)
    BY <2>2, <1>2 DEF Wired, CallsWired, TypeOK
  <2>. QED
    BY <2>1, <2>2
<1>8. ReportedWired'
  BY <1>2 DEF Wired, ReportedWired, TypeOK, tasks
<1>9. SlotAccounting'
  BY <1>2, AccountingUnchanged
<1>10. TtlGuardsSession' /\ TasksSuspendIdleTimer'
  BY <1>1, <1>2 DEF TtlGuardsSession, TasksSuspendIdleTimer, TypeOK
<1>11. ReportedTasksTracked'
  <2>. SUFFICES ASSUME NEW t \in reported, Running(t),
                       sessionId'[owner[taskIn[t]]] = taskIn[t]
                PROVE  t \in openTasks[owner[taskIn[t]]]
    BY <1>2 DEF ReportedTasksTracked, Running, tasks
  <2>1. taskIn[t] # g /\ owner[taskIn[t]] \in Sessions
    BY <1>1 DEF Wired, OwnersWired, ReportedWired, TypeOK
  <2>2. sessionId[owner[taskIn[t]]] = taskIn[t]
    BY <2>1, <1>2 DEF TypeOK
  <2>. QED
    BY <2>2 DEF ReportedTasksTracked
<1>. QED
  BY <1>4, <1>5, <1>6, <1>7, <1>8, <1>9, <1>10, <1>11 DEF Wired

\* Calls that are over leave nothing that could be out of line.
LEMMA ForgetFacts ==
  ASSUME IInv, NEW C \in SUBSET Calls, Forget(C)
  PROVE  /\ caller' \in [Calls -> Sessions \union {None}]
         /\ tool' \in [Calls -> Tools]
         /\ target' \in [Calls -> Generations \union {None}]
         /\ subject' \in [Calls -> Tasks \union {None}]
         /\ \A d \in Calls :
              /\ target'[d] # None =>
                   /\ caller'[d] \in Sessions
                   /\ owner[target'[d]] = caller'[d]
                   /\ phase[target'[d]] = "over"
              /\ tool'[d] = "start" /\ subject'[d] # None =>
                   target'[d] # None /\ taskIn[subject'[d]] = target'[d]
<1>1. "other" \in Tools
  BY DEF Tools
<1>. QED
  BY <1>1 DEF IInv, TypeOK, Wired, CallsWired, Forget

\* startSession rejects: the slot goes back, the waiting calls throw.
LEMMA StartFailsKeepsIInv ==
  ASSUME IInv, NEW g \in Generations, StartFails(g)
  PROVE  IInv'
<1>. USE DEF IInv
<1>1. owner[g] \in Sessions /\ phase[g] = "starting"
  BY DEF StartFails, Wired, OwnersWired
<1>2. /\ ReleaseSlots({owner[g]})
      /\ phase' = [phase EXCEPT ![g] = "over"]
      /\ activating' = [activating EXCEPT ![owner[g]] = None]
      /\ Forget(Waiting(owner[g]))
      /\ UNCHANGED <<sessionId, closed, timers, openTasks, owner, stopping, aws, tasks, reported>>
  BY DEF StartFails
<1>3. /\ holdsSlot' \in [Sessions -> BOOLEAN]
      /\ live' \in Nat
      /\ SlotAccounting'
  BY <1>1, <1>2, ReleaseKeepsAccounting
<1>4. Waiting(owner[g]) \in SUBSET Calls
  BY DEF Waiting
<1>5. /\ caller' \in [Calls -> Sessions \union {None}]
      /\ tool' \in [Calls -> Tools]
      /\ target' \in [Calls -> Generations \union {None}]
      /\ subject' \in [Calls -> Tasks \union {None}]
      /\ \A d \in Calls :
           /\ target'[d] # None =>
                /\ caller'[d] \in Sessions
                /\ owner[target'[d]] = caller'[d]
                /\ phase[target'[d]] = "over"
           /\ tool'[d] = "start" /\ subject'[d] # None =>
                target'[d] # None /\ taskIn[subject'[d]] = target'[d]
  BY <1>2, <1>4, ForgetFacts
<1>6. TypeOK'
  BY <1>1, <1>2, <1>3, <1>5 DEF TypeOK, timers, tasks
<1>7. \A h \in Generations : phase[h] = "over" => phase'[h] = "over"
  BY <1>2 DEF TypeOK
<1>8. OwnersWired' /\ IdsWired' /\ StopsWired'
  BY <1>1, <1>2 DEF Wired, OwnersWired, IdsWired, StopsWired, TypeOK
<1>9. CallsWired'
  BY <1>2, <1>5, <1>7 DEF CallsWired, tasks
<1>10. ReportedWired'
  BY <1>2, <1>7 DEF Wired, ReportedWired, TypeOK, tasks
<1>11. TtlGuardsSession' /\ TasksSuspendIdleTimer' /\ ReportedTasksTracked'
  BY <1>2 DEF TtlGuardsSession, TasksSuspendIdleTimer, ReportedTasksTracked, Running, timers, tasks
<1>. QED
  BY <1>3, <1>6, <1>8, <1>9, <1>10, <1>11 DEF Wired

-----------------------------------------------------------------------------
(***************************************************************************)
(* How a call ends.                                                        *)
(***************************************************************************)

\* An answer that leaves these tasks open keeps the invariant, provided no running
\* task of the caller's session goes untracked and what is reported was started.
LEMMA AnsweredKeepsIInv ==
  ASSUME IInv, NEW c \in Calls, NEW open \in SUBSET Tasks, Answered(c, open),
         reported' \subseteq Tasks,
         \A t \in reported' : taskIn[t] # None /\ phase[taskIn[t]] = "over",
         \A t \in reported' :
           Running(t) /\ sessionId[owner[taskIn[t]]] = taskIn[t] =>
             t \in (IF owner[taskIn[t]] = caller[c] THEN open ELSE openTasks[owner[taskIn[t]]])
  PROVE  IInv'
<1>. USE DEF IInv
<1>1. /\ target[c] # None
      /\ openTasks' = [openTasks EXCEPT ![caller[c]] = open]
      /\ idleTimer' = [idleTimer EXCEPT ![caller[c]] = IdleEviction /\ open = {}]
      /\ Forget({c})
      /\ UNCHANGED <<sessionId, activating, closed, slots, ttlTimer, owner, phase, stopping,
                     aws, tasks>>
  BY DEF Answered, ResetIdleTimer
<1>2. caller[c] \in Sessions
  BY <1>1 DEF Wired, CallsWired
<1>3. (IdleEviction /\ open = {}) \in BOOLEAN
  OBVIOUS
<1>4. idleTimer' \in [Sessions -> BOOLEAN]
  BY <1>1, <1>3 DEF TypeOK
<1>5. {c} \in SUBSET Calls
  OBVIOUS
<1>6. /\ caller' \in [Calls -> Sessions \union {None}]
      /\ tool' \in [Calls -> Tools]
      /\ target' \in [Calls -> Generations \union {None}]
      /\ subject' \in [Calls -> Tasks \union {None}]
      /\ \A d \in Calls :
           /\ target'[d] # None =>
                /\ caller'[d] \in Sessions
                /\ owner[target'[d]] = caller'[d]
                /\ phase[target'[d]] = "over"
           /\ tool'[d] = "start" /\ subject'[d] # None =>
                target'[d] # None /\ taskIn[subject'[d]] = target'[d]
  BY <1>1, <1>5, ForgetFacts
<1>7. TypeOK'
  BY <1>1, <1>2, <1>4, <1>6 DEF TypeOK, slots, tasks
<1>8. Wired'
  BY <1>1, <1>6 DEF Wired, OwnersWired, IdsWired, CallsWired, ReportedWired, StopsWired, tasks
<1>9. SlotAccounting'
  BY <1>1, AccountingUnchanged
<1>10. TtlGuardsSession'
  BY <1>1 DEF TtlGuardsSession
<1>11. TasksSuspendIdleTimer'
  <2>. SUFFICES ASSUME NEW s \in Sessions, openTasks'[s] # {} PROVE ~idleTimer'[s]
    BY DEF TasksSuspendIdleTimer
  <2>1. CASE s = caller[c]
    <3>1. open # {} /\ idleTimer'[s] = (IdleEviction /\ open = {})
      BY <2>1, <1>1 DEF TypeOK
    <3>. QED
      BY <3>1
  <2>2. CASE s # caller[c]
    BY <2>2, <1>1 DEF TypeOK, TasksSuspendIdleTimer
  <2>. QED
    BY <2>1, <2>2
<1>12. ReportedTasksTracked'
  <2>. SUFFICES ASSUME NEW t \in reported', Running(t),
                       sessionId[owner[taskIn[t]]] = taskIn[t]
                PROVE  t \in openTasks'[owner[taskIn[t]]]
    BY <1>1 DEF ReportedTasksTracked, Running, tasks
  <2>1. owner[taskIn[t]] \in Sessions
    BY DEF Wired, OwnersWired, TypeOK
  <2>. QED
    BY <2>1, <1>1, <1>2 DEF TypeOK
<1>. QED
  BY <1>7, <1>8, <1>9, <1>10, <1>11, <1>12 DEF Wired

\* Whichever way a call ends, the tasks that are running and known stay open.
LEMMA CallFinishesKeepsIInv ==
  ASSUME IInv, NEW c \in Calls, CallFinishes(c)
  PROVE  IInv'
<1>. USE DEF IInv
<1>1. CASE StartAnswers(c)
  <2>. DEFINE open == openTasks[caller[c]] \union {subject[c]}
  <2>1. /\ subject[c] # None /\ tool[c] = "start"
        /\ Answered(c, open)
        /\ reported' = reported \union {subject[c]}
    BY <1>1 DEF StartAnswers
  <2>2. /\ target[c] # None /\ taskIn[subject[c]] = target[c]
        /\ caller[c] \in Sessions /\ owner[target[c]] = caller[c] /\ phase[target[c]] = "over"
    BY <2>1 DEF Wired, CallsWired
  <2>3. open \in SUBSET Tasks /\ reported' \subseteq Tasks
    BY <2>1, <2>2 DEF TypeOK
  <2>4. \A t \in reported' : taskIn[t] # None /\ phase[taskIn[t]] = "over"
    BY <2>1, <2>2 DEF Wired, ReportedWired
  <2>5. \A t \in reported' :
          Running(t) /\ sessionId[owner[taskIn[t]]] = taskIn[t] =>
            t \in (IF owner[taskIn[t]] = caller[c] THEN open ELSE openTasks[owner[taskIn[t]]])
    BY <2>1, <2>2 DEF ReportedTasksTracked
  <2>. HIDE DEF open
  <2>. QED
    BY <2>1, <2>3, <2>4, <2>5, AnsweredKeepsIInv
<1>2. CASE PollAnswers(c)
  <2>. DEFINE open == openTasks[caller[c]] \ {subject[c]}
  <2>1. taskDone[subject[c]] /\ Answered(c, open) /\ reported' = reported
    BY <1>2 DEF PollAnswers
  <2>2. target[c] # None
    BY <2>1 DEF Answered
  <2>3. caller[c] \in Sessions
    BY <2>2 DEF Wired, CallsWired
  <2>4. open \in SUBSET Tasks
    BY <2>3 DEF TypeOK
  <2>5. reported' \subseteq Tasks /\ \A t \in reported' : taskIn[t] # None /\ phase[taskIn[t]] = "over"
    BY <2>1 DEF TypeOK, Wired, ReportedWired
  <2>6. \A t \in reported' :
          Running(t) /\ sessionId[owner[taskIn[t]]] = taskIn[t] =>
            t \in (IF owner[taskIn[t]] = caller[c] THEN open ELSE openTasks[owner[taskIn[t]]])
    BY <2>1 DEF ReportedTasksTracked, Running
  <2>. HIDE DEF open
  <2>. QED
    BY <2>1, <2>4, <2>5, <2>6, AnsweredKeepsIInv
<1>3. CASE CallEnds(c)
  <2>. DEFINE open == openTasks[caller[c]]
  <2>1. Answered(c, open) /\ reported' = reported
    BY <1>3 DEF CallEnds
  <2>2. target[c] # None
    BY <2>1 DEF Answered
  <2>3. caller[c] \in Sessions
    BY <2>2 DEF Wired, CallsWired
  <2>4. open \in SUBSET Tasks
    BY <2>3 DEF TypeOK
  <2>5. reported' \subseteq Tasks /\ \A t \in reported' : taskIn[t] # None /\ phase[taskIn[t]] = "over"
    BY <2>1 DEF TypeOK, Wired, ReportedWired
  <2>6. \A t \in reported' :
          Running(t) /\ sessionId[owner[taskIn[t]]] = taskIn[t] =>
            t \in (IF owner[taskIn[t]] = caller[c] THEN open ELSE openTasks[owner[taskIn[t]]])
    BY <2>1 DEF ReportedTasksTracked
  <2>. HIDE DEF open
  <2>. QED
    BY <2>1, <2>4, <2>5, <2>6, AnsweredKeepsIInv
<1>. QED
  BY <1>1, <1>2, <1>3 DEF CallFinishes

-----------------------------------------------------------------------------
(***************************************************************************)
(* Timers, closes, stops, and AWS.                                         *)
(***************************************************************************)

\* deactivate('idle') never takes its defensive branch, so it is a deactivation
\* like the others.
LEMMA TimerKeepsIInv ==
  ASSUME IInv, NEW s \in Sessions, IdleFires(s) \/ TtlFires(s)
  PROVE  IInv'
<1>1. {s} \in SUBSET Sessions
  OBVIOUS
<1>2. IdleFires(s) => openTasks[s] = {}
  BY DEF IdleFires, IInv, TasksSuspendIdleTimer
<1>3. DeactivateAll({s})
  BY <1>2 DEF IdleFires, TtlFires
<1>4. UNCHANGED <<activating, closed, owner, phase, calls, aws, tasks, reported>>
  BY DEF IdleFires, TtlFires
<1>5. closed' \in [Sessions -> BOOLEAN]
  BY <1>4 DEF IInv, TypeOK
<1>. QED
  BY <1>1, <1>3, <1>4, <1>5, DeactivateKeepsIInv

\* close(), of any set of sessions.
LEMMA CloseAllKeepsIInv ==
  ASSUME IInv, NEW S \in SUBSET Sessions, CloseAll(S)
  PROVE  IInv'
<1>1. closed' \in [Sessions -> BOOLEAN]
  BY DEF CloseAll, Assign, IInv, TypeOK
<1>2. /\ DeactivateAll(S)
      /\ UNCHANGED <<activating, owner, phase, calls, aws, tasks, reported>>
  BY DEF CloseAll
<1>. QED
  BY <1>1, <1>2, DeactivateKeepsIInv

\* stopSession settles: a slot goes back.
LEMMA StopReturnsKeepsIInv ==
  ASSUME IInv, NEW g \in Generations, StopReturns(g)
  PROVE  IInv'
<1>. USE DEF IInv
<1>1. /\ stopping' = stopping \ {g}
      /\ ReleaseSlots({owner[g]})
      /\ UNCHANGED <<sessionId, activating, closed, timers, openTasks, owner, phase, calls,
                     aws, tasks, reported>>
  BY DEF StopReturns
<1>2. owner[g] \in Sessions
  BY DEF StopReturns, Wired, OwnersWired, StopsWired
<1>3. /\ holdsSlot' \in [Sessions -> BOOLEAN]
      /\ live' \in Nat
      /\ SlotAccounting'
  BY <1>1, <1>2, ReleaseKeepsAccounting
<1>4. TypeOK'
  BY <1>1, <1>3 DEF TypeOK, timers, calls, tasks
<1>5. Wired'
  BY <1>1 DEF Wired, OwnersWired, IdsWired, CallsWired, ReportedWired, StopsWired, calls, tasks
<1>6. TtlGuardsSession' /\ TasksSuspendIdleTimer' /\ ReportedTasksTracked'
  BY <1>1 DEF TtlGuardsSession, TasksSuspendIdleTimer, ReportedTasksTracked, Running, timers, tasks
<1>. QED
  BY <1>3, <1>4, <1>5, <1>6

\* What AWS does to sessions and tasks only ever ends a task, or starts one that
\* the process has not been told of.
LEMMA AwsKeepsIInv ==
  ASSUME IInv, AwsStep
  PROVE  IInv'
<1>. USE DEF IInv
<1>1. /\ UNCHANGED <<sessionId, activating, closed, slots, timers, openTasks, owner, phase,
                     stopping, caller, tool, target, reported>>
      /\ SlotAccounting'
  <2>1. UNCHANGED <<sessionId, activating, closed, slots, timers, openTasks, owner, phase,
                    stopping, caller, tool, target, reported>>
    BY DEF AwsStep, AwsStarts, AwsEnds, TaskBegins, TaskEnds, calls
  <2>. QED
    BY <2>1, AccountingUnchanged
<1>2. ASSUME NEW g \in Generations, AwsStarts(g) \/ AwsEnds(g)
      PROVE  TypeOK' /\ CallsWired' /\ ReportedWired' /\ ReportedTasksTracked'
  <2>1. UNCHANGED <<calls, tasks>>
    BY <1>2 DEF AwsStarts, AwsEnds
  <2>2. aws' \in [Generations -> {"absent", "live", "ended"}]
    BY <1>2 DEF AwsStarts, AwsEnds, TypeOK
  <2>3. TypeOK' /\ CallsWired' /\ ReportedWired'
    BY <1>1, <2>1, <2>2 DEF TypeOK, Wired, CallsWired, ReportedWired, slots, timers, calls, tasks
  <2>4. ASSUME NEW t \in reported, aws'[taskIn[t]] = "live" PROVE aws[taskIn[t]] = "live"
    <3>1. taskIn[t] \in Generations /\ phase[taskIn[t]] = "over"
      BY DEF Wired, ReportedWired, TypeOK
    <3>. QED
      BY <1>2, <2>4, <3>1 DEF AwsStarts, AwsEnds, TypeOK
  <2>5. ReportedTasksTracked'
    BY <1>1, <2>1, <2>4 DEF ReportedTasksTracked, Running, calls, tasks
  <2>. QED
    BY <2>3, <2>5
<1>3. ASSUME NEW c \in Calls, NEW t \in Tasks, TaskBegins(c, t)
      PROVE  TypeOK' /\ CallsWired' /\ ReportedWired' /\ ReportedTasksTracked'
  <2>1. /\ tool[c] = "start" /\ target[c] # None /\ taskIn[t] = None
        /\ taskIn' = [taskIn EXCEPT ![t] = target[c]]
        /\ subject' = [subject EXCEPT ![c] = t]
        /\ UNCHANGED <<aws, taskDone>>
    BY <1>3 DEF TaskBegins
  <2>2. TypeOK'
    BY <1>1, <2>1 DEF TypeOK, slots, timers
  <2>3. t \notin reported
    BY <2>1 DEF Wired, ReportedWired
  <2>4. \A u \in reported : taskIn'[u] = taskIn[u]
    BY <2>1, <2>3 DEF TypeOK
  <2>5. CallsWired'
    <3>. SUFFICES ASSUME NEW d \in Calls, tool[d] = "start", subject'[d] # None
                  PROVE  target[d] # None /\ taskIn'[subject'[d]] = target[d]
      BY <1>1 DEF Wired, CallsWired
    <3>1. CASE d = c
      BY <3>1, <2>1 DEF TypeOK
    <3>2. CASE d # c
      <4>1. subject'[d] = subject[d] /\ taskIn[subject[d]] = target[d] /\ target[d] # None
        BY <3>2, <2>1 DEF Wired, CallsWired, TypeOK
      <4>2. subject[d] # t
        BY <4>1, <2>1
      <4>. QED
        BY <4>1, <4>2, <2>1 DEF TypeOK
    <3>. QED
      BY <3>1, <3>2
  <2>6. ReportedWired' /\ ReportedTasksTracked'
    BY <1>1, <2>1, <2>4 DEF Wired, ReportedWired, ReportedTasksTracked, Running
  <2>. QED
    BY <2>2, <2>5, <2>6
<1>4. ASSUME NEW t \in Tasks, TaskEnds(t)
      PROVE  TypeOK' /\ CallsWired' /\ ReportedWired' /\ ReportedTasksTracked'
  <2>1. taskDone' = [taskDone EXCEPT ![t] = TRUE] /\ UNCHANGED <<calls, aws, taskIn>>
    BY <1>4 DEF TaskEnds
  <2>2. TypeOK' /\ CallsWired' /\ ReportedWired'
    BY <1>1, <2>1 DEF TypeOK, Wired, CallsWired, ReportedWired, slots, timers, calls
  <2>3. \A u \in Tasks : ~taskDone'[u] => ~taskDone[u]
    BY <2>1 DEF TypeOK
  <2>4. ReportedTasksTracked'
    BY <1>1, <2>1, <2>3 DEF ReportedTasksTracked, Running, TypeOK
  <2>. QED
    BY <2>2, <2>4
<1>5. TypeOK' /\ CallsWired' /\ ReportedWired' /\ ReportedTasksTracked'
  BY <1>2, <1>3, <1>4 DEF AwsStep
<1>6. OwnersWired' /\ IdsWired' /\ StopsWired'
  BY <1>1 DEF Wired, OwnersWired, IdsWired, StopsWired
<1>7. TtlGuardsSession' /\ TasksSuspendIdleTimer'
  BY <1>1 DEF TtlGuardsSession, TasksSuspendIdleTimer, timers
<1>. QED
  BY <1>1, <1>5, <1>6, <1>7 DEF Wired

-----------------------------------------------------------------------------
(***************************************************************************)
(* The invariant and what follows from it.                                 *)
(***************************************************************************)

\* A fresh process: no session, no call, every counter zero.
LEMMA InitIInv == Init => IInv
<1>. SUFFICES ASSUME Init PROVE IInv
  OBVIOUS
<1>1. TypeOK
  BY DEF Init, TypeOK, Tools
<1>2. Wired /\ TtlGuardsSession /\ TasksSuspendIdleTimer /\ ReportedTasksTracked
  BY DEF Init, Wired, OwnersWired, IdsWired, CallsWired, ReportedWired, StopsWired, TtlGuardsSession,
         TasksSuspendIdleTimer, ReportedTasksTracked
<1>3. SlotAccounting
  <2>1. Holding(Sessions) = {}
    BY DEF Init, Holding
  <2>2. Cardinality(Holding(Sessions)) = 0
    BY <2>1, FS_EmptySet
  <2>. QED
    BY <2>2 DEF Init, SlotAccounting
<1>. QED
  BY <1>1, <1>2, <1>3 DEF IInv

\* Nothing changes: nothing breaks.
LEMMA StutterKeepsIInv == IInv /\ UNCHANGED vars => IInv'
<1>. SUFFICES ASSUME IInv, UNCHANGED vars PROVE IInv'
  OBVIOUS
<1>1. TypeOK'
  BY DEF IInv, TypeOK, vars, slots, timers, calls, tasks
<1>2. Wired'
  BY DEF IInv, Wired, OwnersWired, IdsWired, CallsWired, ReportedWired, StopsWired, vars, calls, tasks
<1>3. SlotAccounting'
  BY AccountingUnchanged DEF IInv, vars
<1>4. TtlGuardsSession' /\ TasksSuspendIdleTimer' /\ ReportedTasksTracked'
  BY DEF IInv, TtlGuardsSession, TasksSuspendIdleTimer, ReportedTasksTracked, Running, vars,
         timers, tasks
<1>. QED
  BY <1>1, <1>2, <1>3, <1>4 DEF IInv

\* Every step keeps the invariant.
LEMMA NextIInv == IInv /\ [Next]_vars => IInv'
<1>. SUFFICES ASSUME IInv, [Next]_vars PROVE IInv'
  OBVIOUS
<1>1. ASSUME NEW c \in Calls, NEW s \in Sessions, CallArrives(c, s) PROVE IInv'
  BY <1>1, ArrivalKeepsIInv, BeginActivationKeepsIInv DEF CallArrives
<1>2. ASSUME NEW c \in Calls, CallFinishes(c) PROVE IInv'
  BY <1>2, CallFinishesKeepsIInv
<1>3. ASSUME NEW s \in Sessions, IdleFires(s) \/ TtlFires(s) PROVE IInv'
  BY <1>3, TimerKeepsIInv
<1>4. ASSUME NEW S \in SUBSET Sessions, CloseAll(S) PROVE IInv'
  BY <1>4, CloseAllKeepsIInv
<1>5. ASSUME NEW g \in Generations, StartReturns(g) \/ StartFails(g) \/ StopReturns(g) PROVE IInv'
  BY <1>5, StartReturnsKeepsIInv, StartFailsKeepsIInv, StopReturnsKeepsIInv
<1>6. CASE AwsStep
  BY <1>6, AwsKeepsIInv
<1>7. CASE UNCHANGED vars
  BY <1>7, StutterKeepsIInv
<1>. QED
  BY <1>1, <1>2, <1>3, <1>4, <1>5, <1>6, <1>7 DEF Next

\* The inductive invariant holds throughout.
THEOREM Invariance == Spec => []IInv
<1>. QED
  BY InitIInv, NextIInv, PTL DEF Spec

\* The limiter's counter covers the held slots and stays within the cap, for any
\* number of sessions, calls and tasks: no interleaving releases a slot twice.
THEOREM SlotsAreAccountedFor == Spec => []SlotAccounting
<1>1. IInv => SlotAccounting
  BY DEF IInv
<1>. QED
  BY <1>1, Invariance, PTL

\* Every active session is guarded by its TTL timer.
THEOREM TimersGuard == Spec => []TtlGuardsSession
<1>1. IInv => TtlGuardsSession
  BY DEF IInv
<1>. QED
  BY <1>1, Invariance, PTL

\* No idle timer runs while a task is open, so the defensive branch of
\* deactivate('idle'), which would lose the TTL timer, is never taken.
THEOREM TasksSuspendTheTimer == Spec => []TasksSuspendIdleTimer
<1>1. IInv => TasksSuspendIdleTimer
  BY DEF IInv
<1>. QED
  BY <1>1, Invariance, PTL

\* A running task whose start was answered stays open as long as its session is
\* in use, so with the theorem above idle eviction never kills it.
THEOREM ReportedTasksAreTracked == Spec => []ReportedTasksTracked
<1>1. IInv => ReportedTasksTracked
  BY DEF IInv
<1>. QED
  BY <1>1, Invariance, PTL

-----------------------------------------------------------------------------
(***************************************************************************)
(* The server.                                                             *)
(***************************************************************************)

\* Every step of the server is a step of the sessions or leaves them alone.
LEMMA ServerStepIsSessionStep == [ServerNext]_allVars => [Next]_vars
<1>. SUFFICES ASSUME ServerNext \/ UNCHANGED allVars PROVE Next \/ UNCHANGED vars
  OBVIOUS
<1>1. ASSUME NEW s \in Sessions, Initialise(s) \/ Teardown(s)
      PROVE  Next \/ UNCHANGED vars
  <2>1. CASE Initialise(s)
    BY <2>1 DEF Initialise
  <2>2. CASE Teardown(s)
    <3>1. CloseAll({s}) /\ {s} \in SUBSET Sessions
      BY <2>2 DEF Teardown
    <3>. QED
      BY <3>1 DEF Next
  <2>. QED
    BY <1>1, <2>1, <2>2
<1>2. ASSUME NEW c \in Calls, NEW s \in Sessions, CallTool(c, s)
      PROVE  Next
  BY <1>2 DEF CallTool, Next
<1>3. ASSUME NEW g \in Generations, StopSettles(g)
      PROVE  Next
  BY <1>3 DEF StopSettles, Next
<1>4. CASE Shutdown
  <2>1. CloseAll(OpenSessions) /\ OpenSessions \in SUBSET Sessions
    BY <1>4 DEF Shutdown, OpenSessions
  <2>. QED
    BY <2>1 DEF Next
<1>5. CASE SessionStep \/ AwsStep
  BY <1>5 DEF SessionStep, Next
<1>6. CASE Initialised \/ Exit \/ UNCHANGED allVars
  BY <1>6 DEF Initialised, Exit, allVars
<1>. QED
  BY <1>1, <1>2, <1>3, <1>4, <1>5, <1>6 DEF ServerNext, ProcessStep

\* The server implements its sessions' specification.
THEOREM ServerImplementsSessions == ServerSpec => Spec
<1>1. ServerInit => Init
  BY DEF ServerInit
<1>. QED
  BY <1>1, ServerStepIsSessionStep, PTL DEF ServerSpec, Spec

-----------------------------------------------------------------------------
(***************************************************************************)
(* The types of the server's own variables.  A stop the shutdown awaits is *)
(* still to settle.                                                        *)
(***************************************************************************)

ServerTyped ==
  /\ ready \in BOOLEAN
  /\ entry \in [Sessions -> {"none", "open", "gone"}]
  /\ shuttingDown \in BOOLEAN
  /\ awaited \subseteq stopping
  /\ exited \in BOOLEAN

\* A deactivation adds the ids it finds to the stops that are to settle.
LEMMA DeactivationStops ==
  ASSUME NEW S, DeactivateAll(S)
  PROVE  stopping' = stopping \union Remembered(S)
  BY DEF DeactivateAll, StopSessions

\* Every step of the server keeps the types.
LEMMA ServerTypedKept ==
  ASSUME ServerTyped, [ServerNext]_allVars
  PROVE  ServerTyped'
<1>1. ASSUME UNCHANGED serverVars, stopping \subseteq stopping'
      PROVE  ServerTyped'
  BY <1>1 DEF serverVars, ServerTyped
<1>2. ASSUME NEW s \in Sessions, Initialise(s) PROVE ServerTyped'
  BY <1>2 DEF Initialise, vars, ServerTyped
<1>3. ASSUME NEW s \in Sessions, Teardown(s) PROVE ServerTyped'
  <2>1. stopping \subseteq stopping'
    BY <1>3, DeactivationStops DEF Teardown, CloseAll
  <2>. QED
    BY <1>3, <2>1 DEF Teardown, ServerTyped
<1>4. ASSUME NEW c \in Calls, NEW s \in Sessions, CallTool(c, s) PROVE ServerTyped'
  <2>1. UNCHANGED serverVars /\ UNCHANGED stopping
    BY <1>4 DEF CallTool, CallArrives, InvokeTool, JoinActivation, BeginActivation
  <2>. QED
    BY <1>1, <2>1
<1>5. ASSUME NEW g \in Generations, StopSettles(g) PROVE ServerTyped'
  BY <1>5 DEF StopSettles, StopReturns, ServerTyped
<1>6. CASE Shutdown
  <2>1. stopping' = stopping \union Remembered(OpenSessions)
    BY <1>6, DeactivationStops DEF Shutdown, CloseAll
  <2>. QED
    BY <1>6, <2>1 DEF Shutdown, ServerTyped
<1>7. CASE SessionStep
  <2>1. UNCHANGED serverVars
    BY <1>7 DEF SessionStep
  <2>2. ASSUME NEW c \in Calls, CallFinishes(c) PROVE UNCHANGED stopping
    BY <2>2 DEF CallFinishes, StartAnswers, PollAnswers, CallEnds, Answered
  <2>3. ASSUME NEW s \in Sessions, IdleFires(s) \/ TtlFires(s)
        PROVE  stopping \subseteq stopping'
    BY <2>3, DeactivationStops DEF IdleFires, TtlFires
  <2>4. ASSUME NEW g \in Generations, StartReturns(g) \/ StartFails(g)
        PROVE  UNCHANGED stopping
    BY <2>4 DEF StartReturns, StartFails
  <2>5. stopping \subseteq stopping'
    BY <1>7, <2>2, <2>3, <2>4 DEF SessionStep
  <2>. QED
    BY <1>1, <2>1, <2>5
<1>8. CASE AwsStep /\ UNCHANGED serverVars
  <2>1. UNCHANGED stopping
    BY <1>8 DEF AwsStep, AwsStarts, AwsEnds, TaskBegins, TaskEnds
  <2>. QED
    BY <1>1, <1>8, <2>1
<1>9. CASE Initialised \/ Exit \/ UNCHANGED allVars
  BY <1>9 DEF Initialised, Exit, allVars, serverVars, vars, ServerTyped
<1>. QED
  BY <1>2, <1>3, <1>4, <1>5, <1>6, <1>7, <1>8, <1>9 DEF ServerNext, ProcessStep

\* Every variable of the server and of its sessions has its type, and what the
\* shutdown awaits is still to settle.
THEOREM ServerTypeCorrect == ServerSpec => []ServerTypeOK
<1>1. ServerInit => ServerTyped
  BY DEF ServerInit, ServerTyped
<1>2. ServerTyped /\ [ServerNext]_allVars => ServerTyped'
  BY ServerTypedKept
<1>3. IInv /\ ServerTyped => ServerTypeOK
  BY DEF IInv, ServerTyped, ServerTypeOK
<1>. QED
  BY <1>1, <1>2, <1>3, ServerImplementsSessions, Invariance, PTL DEF ServerSpec
=============================================================================
