--------------------------- MODULE CallerIsolation ---------------------------
(***************************************************************************)
(* What the agent runtime promises its callers                             *)
(* (src/applications/strands-agent-base/app/identity.py, a2a_isolation.py):*)
(* a turn is served by an agent that was built for the same caller in the  *)
(* same conversation, with that caller's memory, over connections opened   *)
(* with the credential this very request may use.  When an agent is kept,  *)
(* when it is forgotten and what it is looked up by is not said here.      *)
(***************************************************************************)
CONSTANTS
  Routes,    \* the two caches of agents: /chat and the A2A contexts
  Requests,  \* records of the fields sub, tok and ctx
  Workload,  \* the credential of the agent itself
  None

VARIABLES
  propagate,  \* PROPAGATE_CALLER_TOKEN, read once when the process starts
  kept,       \* for each route, the requests whose agents could be used again
  turn        \* the turn served last

\* Forward the caller's bearer token if one arrived, otherwise use the agent's own.
Credential(r) == IF propagate /\ r.tok # None THEN r.tok ELSE Workload

Identified(r) == r.sub # None \/ r.tok # None

\* Two requests of one caller: the same subject or, without one, the same token.
SameCaller(r, s) ==
  /\ r.sub = s.sub
  /\ r.sub = None => r.tok = s.tok /\ r.tok # None

Turn == [by : Requests, for : Requests, cred : {Credential(r) : r \in Requests}, memory : {r.sub : r \in Requests}]

Served(r, s) == [by |-> r, for |-> s, cred |-> Credential(r), memory |-> r.sub]

Init ==
  /\ propagate \in BOOLEAN
  /\ kept = [route \in Routes |-> {}]
  /\ turn = None

Resume(route, r) ==
  \E s \in kept[route] :
    /\ SameCaller(r, s) /\ r.ctx = s.ctx /\ Credential(r) = Credential(s)
    /\ turn' = Served(r, s)
    /\ kept' = kept

\* The agents of other requests may be forgotten to make room for this one's.
Begin(route, r) ==
  /\ turn' = Served(r, r)
  /\ \E left \in SUBSET kept[route], more \in SUBSET {s \in {r} : Identified(s)} :
       kept' = [kept EXCEPT ![route] = left \union more]

Forget(route) ==
  /\ \E left \in SUBSET kept[route] : kept' = [kept EXCEPT ![route] = left]
  /\ turn' = turn

Next ==
  /\ propagate' = propagate
  /\ \E route \in Routes :
       \/ \E r \in Requests : Resume(route, r) \/ Begin(route, r)
       \/ Forget(route)

vars == <<propagate, kept, turn>>

Spec == Init /\ [][Next]_vars
=============================================================================
