----------------------------- MODULE DarkFactory -----------------------------
(***************************************************************************)
(* One issue of the dark factory, from its first run to the merge of its   *)
(* pull request (src/gitops/addons/charts/dark-factory, and the coder and  *)
(* its hook server in src/examples/dark-factory).                          *)
(*                                                                         *)
(* Nothing here shares memory: workflows, the coder in its VM, the agents' *)
(* bots and people meet in GitHub, through the head of one branch, the     *)
(* statuses and reviews of its commits and the labels of the pull request. *)
(* A step is what one of them does between two requests that matter.       *)
(*                                                                         *)
(* Followed is one pull request: a run that starts after its merge ends at *)
(* once, and a merge takes the VMs with it.  Rounds come from comments     *)
(* only: the auto-fix of status.js ships off (values.yaml:190).            *)
(***************************************************************************)
EXTENDS Integers, Sequences, FiniteSets, FiniteSetsExt

CONSTANTS
  MaxIterations,  \* iterate.maxIterations
  Worlds          \* what an issue may meet: see World

Gates == {"holdout", "security", "devops"}

\* The substrate the label of the issue chose, how many comments people write on the
\* pull request, what its commits may deserve, what the security bot posts and what fails.
World == [substrate : {"kata", "lambda"}, comments : Nat, defects : SUBSET SUBSET Gates,
          forms : SUBSET {"ack", "review", "comment"},
          faults : SUBSET {"deadline", "coder_failure", "vm_lost", "no_change",
                           "security_timeout", "security_error", "devops_timeout"}]

ASSUME RoundsAssumption == MaxIterations \in Nat
ASSUME WorldsAssumption == Worlds \subseteq World

\* Names of workflows: 0 is the first run, df-run-<issue>, and n the round df-run-<issue>-i<n>.
First == 0
Runs  == 0..MaxIterations

VARIABLES
  world,     \* the world of this issue, which never changes
  pr,        \* the pull request
  head,      \* the head of df/issue-<n>; 0 while there is no branch
  commits,   \* every commit coders made, oldest first, with what is posted on it
  timely,    \* the commits whose bot verdict is not older than the bot's last ack
  wf,        \* the df-run workflows
  coder,     \* the coder of each run
  labels,    \* n of the df-iterations/<n> labels
  reviser,   \* iterate.js by comment
  approved,  \* heads with a df-merge-<sha> workflow
  answered,  \* those whose workflow has ended
  merge,     \* the df-merge-teardown that holds the mutex, and what merge.js read
  merged,    \* the commit that was merged
  tree       \* the commit checked out in the MicroVM; 0 when there is no checkout

factoryVars == <<world, pr, head, commits, timely, wf, coder, labels, reviser, approved, answered, merge, merged, tree>>

\* by and on are the run and the head it was built on; known is how many commits
\* existed when the bot posted its comment, that is, their dates against the comment's.
Commit == [by : Runs, on : Nat, defects : SUBSET Gates, pushed : BOOLEAN,
           impl : {"none", "success", "failure"},
           holdout : {"none", "success", "failure"},
           security : {"none", "pending", "success", "failure"},
           devops : {"none", "success", "failure"},
           acked : BOOLEAN, review : {"none", "review", "comment"}, known : Nat,
           verdict : {"none", "success", "failure", "pending"}]

NoRun == [at |-> "none", start |-> 0, sha |-> 0, todo |-> {}, cloned |-> 0, awaited |-> 0]
Ended == [NoRun EXCEPT !.at = "ended"]
NoMerge == [of |-> 0, sha |-> 0, at |-> "none"]
Idle  == [at |-> "none", cur |-> {}, next |-> 0]

\* The comments of people, in the order they are written.
Comments == 1..world.comments

Init ==
  /\ world \in Worlds
  /\ pr = "none" /\ head = 0 /\ commits = <<>> /\ timely = {} /\ labels = {}
  /\ wf = [r \in Runs |-> IF r = First THEN [NoRun EXCEPT !.at = "queued"] ELSE NoRun]
  /\ coder = [r \in Runs |-> [at |-> "none", on |-> 0]]
  /\ reviser = [v \in Comments |-> Idle]
  /\ approved = {} /\ answered = {} /\ merge = NoMerge /\ merged = 0 /\ tree = 0

-----------------------------------------------------------------------------
(***************************************************************************)
(* Runs: the mutex, the VM and the wait for the coder.                     *)
(***************************************************************************)

OnLambda == world.substrate = "lambda"

IsFix(r) == r # First

\* df-issue-<issue-id> and df-issue-<issue-number>: the sensor passes the id of the
\* issue, the fix rounds pass its number as the id, and the lambda template uses the number.
MutexKey(r) == IF r = First /\ ~OnLambda THEN "id" ELSE "number"

Running(r) == wf[r].at \notin {"none", "queued", "ended"}

Acquire(r) ==
  /\ wf[r].at = "queued"
  /\ \A q \in Runs : Running(q) => MutexKey(q) # MutexKey(r)
  /\ wf' = [wf EXCEPT ![r] = IF pr = "merged" THEN Ended ELSE [@ EXCEPT !.at = "started"]]
  /\ UNCHANGED <<world, pr, head, commits, timely, coder, labels, reviser, approved, answered, merge, merged, tree>>

Alive(r) == coder[r].at \notin {"none", "satisfied", "gone"}

InVm == {r \in Runs : OnLambda /\ Alive(r)}

\* Mutant: a round starts afresh from the base branch.
BranchesAfresh(r) == IF OnLambda /\ tree # 0 THEN tree ELSE 0

\* checkout(): a clone of the branch, or what the last coder in the VM left.
Base(r) == IF OnLambda /\ tree # 0 THEN tree ELSE head

Starts(r) == [coder EXCEPT ![r] = [at |-> "working", on |-> Base(r)]]

\* Mutant: the hook server starts a coder whenever it is asked.
PostedRegardless(r) == Starts(r)

\* startCoder ignores a /run while a coder runs, and the workflow is told 200.
Posted(r) == IF InVm = {} THEN Starts(r) ELSE coder

\* The VM was not resumable: a new one, with what ran in the old one gone.
Recreated(r) == [q \in Runs |-> IF q = r THEN [at |-> "working", on |-> head]
                                ELSE IF q \in InVm THEN [coder[q] EXCEPT !.at = "gone"] ELSE coder[q]]

\* claim-sandbox, or provision-microvm up to its POST /run.
Drive(r) ==
  /\ wf[r].at = "started" /\ pr # "merged"
  /\ \/ ~OnLambda /\ coder' = Starts(r)
     \/ OnLambda /\ coder' = Posted(r)
     \/ OnLambda /\ "vm_lost" \in world.faults /\ coder' = Recreated(r)
  /\ tree' = IF OnLambda /\ coder'[r] # coder[r] THEN coder'[r].on ELSE tree
  /\ wf' = [wf EXCEPT ![r].at = "driven"]
  /\ UNCHANGED <<world, pr, head, commits, timely, labels, reviser, approved, answered, merge, merged>>

\* await-coder begins: START_SHA.
ReadStart(r) ==
  /\ wf[r].at = "driven"
  /\ wf' = [wf EXCEPT ![r].at = "await", ![r].start = head]
  /\ UNCHANGED <<world, pr, head, commits, timely, coder, labels, reviser, approved, answered, merge, merged, tree>>

\* Mutant: a fix round takes whatever head there is.
SeesAnyHead(r) == wf[r].at = "await" /\ pr = "open"

\* The open pull request has a head the round may accept.
SeesNewHead(r) == wf[r].at = "await" /\ pr = "open" /\ (IsFix(r) => wf[r].start = 0 \/ head # wf[r].start)

AwaitSucceeds(r) ==
  /\ SeesNewHead(r) /\ commits[head].impl = "success"
  /\ wf' = [wf EXCEPT ![r] = [NoRun EXCEPT !.at = "fan", !.sha = head, !.todo = Gates]]
  /\ UNCHANGED <<world, pr, head, commits, timely, coder, labels, reviser, approved, answered, merge, merged, tree>>

\* onExit: deleting the claim takes the Kata VM; the MicroVM is kept.
Released(r) == IF ~OnLambda /\ Alive(r) THEN [coder EXCEPT ![r].at = "gone"] ELSE coder

Ends(r) == wf' = [wf EXCEPT ![r] = Ended] /\ coder' = Released(r)

AwaitFails(r) ==
  /\ SeesNewHead(r) /\ commits[head].impl = "failure"
  /\ Ends(r)
  /\ UNCHANGED <<world, pr, head, commits, timely, labels, reviser, approved, answered, merge, merged, tree>>

\* A step fails or reaches its activeDeadlineSeconds.
StepFails(r) ==
  /\ wf[r].at \in {"started", "driven", "await", "fan"}
  /\ "deadline" \in world.faults \/ pr = "merged"
  /\ Ends(r)
  /\ UNCHANGED <<world, pr, head, commits, timely, labels, reviser, approved, answered, merge, merged, tree>>

-----------------------------------------------------------------------------
(***************************************************************************)
(* The coder: entrypoint.js.                                               *)
(***************************************************************************)

CoderCommits(r) ==
  /\ coder[r].at = "working"
  /\ \E d \in world.defects :
       commits' = Append(commits,
         [by |-> r, on |-> coder[r].on, defects |-> d, pushed |-> FALSE, impl |-> "none", holdout |-> "none",
          security |-> "none", devops |-> "none", acked |-> FALSE, review |-> "none", known |-> 0,
          verdict |-> "none"])
  /\ coder' = [coder EXCEPT ![r] = [at |-> "committed", on |-> Len(commits')]]
  /\ tree' = IF OnLambda THEN Len(commits') ELSE tree
  /\ UNCHANGED <<world, pr, head, timely, wf, labels, reviser, approved, answered, merge, merged>>

\* git push --force.
CoderPushes(r) ==
  /\ coder[r].at = "committed"
  /\ head' = coder[r].on
  /\ commits' = [commits EXCEPT ![head'].pushed = TRUE]
  /\ coder' = [coder EXCEPT ![r].at = "pushed"]
  /\ UNCHANGED <<world, pr, timely, wf, labels, reviser, approved, answered, merge, merged, tree>>

\* POST pulls, which ignores that there is one.
CoderOpens(r) ==
  /\ coder[r].at = "pushed"
  /\ pr' = IF pr = "none" THEN "open" ELSE pr
  /\ coder' = [coder EXCEPT ![r].at = "opened"]
  /\ UNCHANGED <<world, head, commits, timely, wf, labels, reviser, approved, answered, merge, merged, tree>>

\* The status df-run polls for, and the exit that follows it at once.
CoderReports(r) ==
  /\ coder[r].at = "opened"
  /\ commits' = [commits EXCEPT ![coder[r].on].impl = "success"]
  /\ coder' = [coder EXCEPT ![r].at = "gone"]
  /\ UNCHANGED <<world, pr, head, timely, wf, labels, reviser, approved, answered, merge, merged, tree>>

\* Tests not green, or an exception: only a coder that has pushed has a sha to report on.
CoderFails(r) ==
  /\ "coder_failure" \in world.faults /\ Alive(r)
  /\ commits' = IF coder[r].at \in {"pushed", "opened"}
                THEN [commits EXCEPT ![coder[r].on].impl = "failure"] ELSE commits
  /\ coder' = [coder EXCEPT ![r].at = "gone"]
  /\ UNCHANGED <<world, pr, head, timely, wf, labels, reviser, approved, answered, merge, merged, tree>>

\* Nothing to change: on the base branch that is a success and the end; a fix round
\* pushes and reports what it found.
CoderIsSatisfied(r) ==
  /\ "no_change" \in world.faults /\ coder[r].at = "working"
  /\ coder' = [coder EXCEPT ![r].at = IF coder[r].on = 0 THEN "satisfied" ELSE "committed"]
  /\ UNCHANGED <<world, pr, head, commits, timely, wf, labels, reviser, approved, answered, merge, merged, tree>>

-----------------------------------------------------------------------------
(***************************************************************************)
(* The agents' bots, which review every head of the open pull request at   *)
(* their own pace.                                                         *)
(***************************************************************************)

Reviewable(c) == pr = "open" /\ commits[c].pushed

\* "is reviewing ...": what the bot posted before is older than this.
BotAcks(c) ==
  /\ "ack" \in world.forms /\ Reviewable(c) /\ ~commits[c].acked /\ commits[c].review = "none"
  /\ commits' = [commits EXCEPT ![c].acked = TRUE]
  /\ timely' = {}
  /\ UNCHANGED <<world, pr, head, wf, coder, labels, reviser, approved, answered, merge, merged, tree>>

\* A review names the commit; a clean verdict may be a comment, which names none.
BotReviews(c) ==
  /\ Reviewable(c) /\ commits[c].review = "none" /\ ("ack" \in world.forms => commits[c].acked)
  /\ \/ /\ "review" \in world.forms
        /\ commits' = [commits EXCEPT ![c].review = "review"]
     \/ /\ "comment" \in world.forms /\ "security" \notin commits[c].defects
        /\ commits' = [commits EXCEPT ![c].review = "comment", ![c].known = Len(commits)]
  /\ timely' = timely \union {c}
  /\ UNCHANGED <<world, pr, head, wf, coder, labels, reviser, approved, answered, merge, merged, tree>>

Grade(c, gate) == IF gate \in commits[c].defects THEN "failure" ELSE "success"

\* The check-run of the DevOps agent.
BotChecks(c) ==
  /\ Reviewable(c) /\ commits[c].devops = "none"
  /\ commits' = [commits EXCEPT ![c].devops = Grade(c, "devops")]
  /\ UNCHANGED <<world, pr, head, timely, wf, coder, labels, reviser, approved, answered, merge, merged, tree>>

-----------------------------------------------------------------------------
(***************************************************************************)
(* The verification fan of a run, and the status step after it.            *)
(***************************************************************************)

Verifying(r, gate) == wf[r].at = "fan" /\ gate \in wf[r].todo

Done(r, gate) == wf' = [wf EXCEPT ![r].todo = @ \ {gate}, ![r].cloned = IF gate = "holdout" THEN 0 ELSE @,
                                  ![r].awaited = IF gate = "security" THEN 0 ELSE @]

HoldoutClones(r) ==
  /\ Verifying(r, "holdout") /\ pr = "open" /\ wf[r].cloned = 0
  /\ wf' = [wf EXCEPT ![r].cloned = head]
  /\ UNCHANGED <<world, pr, head, commits, timely, coder, labels, reviser, approved, answered, merge, merged, tree>>

\* The verdict goes to the commit that was cloned.
HoldoutPosts(r) ==
  /\ Verifying(r, "holdout") /\ wf[r].cloned # 0
  /\ commits' = [commits EXCEPT ![wf[r].cloned].holdout = Grade(wf[r].cloned, "holdout")]
  /\ Done(r, "holdout")
  /\ UNCHANGED <<world, pr, head, timely, coder, labels, reviser, approved, answered, merge, merged, tree>>

\* security-wait.js pins the head whose review it waits for.
SecurityStarts(r) ==
  /\ Verifying(r, "security") /\ pr = "open" /\ wf[r].awaited = 0
  /\ wf' = [wf EXCEPT ![r].awaited = head]
  /\ UNCHANGED <<world, pr, head, commits, timely, coder, labels, reviser, approved, answered, merge, merged, tree>>

\* Mutant: a review of any commit will do.
ReviewOfAny(h) == \E c \in timely : commits[c].review = "review"

\* botReview: the review of the head, not older than the last ack.
ReviewOf(h) == commits[h].review = "review" /\ h \in timely

\* cleanComment: any clean comment not older than the head's commit or the last ack.
\* No ack has to have been seen.
CleanCommentFor(h) == \E c \in timely : commits[c].review = "comment" /\ commits[c].known >= h

BotVerdict(h) ==
  IF ReviewOf(h) THEN Grade(h, "security") ELSE IF CleanCommentFor(h) THEN "success" ELSE "none"

\* Mutant: a wait that timed out posts nothing.
PostsVerdictsOnly(state) ==
  commits' = IF pr = "open" /\ state # "pending" THEN [commits EXCEPT ![head].security = state] ELSE commits

\* postStatus looks up the pull request again, and posts on the head it has now.
PostsSecurity(state) ==
  commits' = IF pr = "open" THEN [commits EXCEPT ![head].security = state] ELSE commits

SecurityMirrors(r) ==
  /\ Verifying(r, "security") /\ wf[r].awaited # 0 /\ BotVerdict(wf[r].awaited) # "none"
  /\ PostsSecurity(BotVerdict(wf[r].awaited))
  /\ Done(r, "security")
  /\ UNCHANGED <<world, pr, head, timely, coder, labels, reviser, approved, answered, merge, merged, tree>>

SecurityGivesUp(r) ==
  /\ Verifying(r, "security") /\ wf[r].awaited # 0
  /\ \/ "security_timeout" \in world.faults /\ PostsSecurity("pending")
     \/ "security_error" \in world.faults /\ UNCHANGED commits
  /\ Done(r, "security")
  /\ UNCHANGED <<world, pr, head, timely, coder, labels, reviser, approved, answered, merge, merged, tree>>

\* devops-gate waits for the check of the head, and posts nothing.
DevopsReports(r) ==
  /\ Verifying(r, "devops")
  /\ \/ pr = "open" /\ commits[head].devops # "none"
     \/ "devops_timeout" \in world.faults
  /\ Done(r, "devops")
  /\ UNCHANGED <<world, pr, head, commits, timely, coder, labels, reviser, approved, answered, merge, merged, tree>>

\* The commits of the branch whose head is h: h, what it is built on, and so on.
Ancestry(h) ==
  {c \in 1..h : \A S \in SUBSET (1..h) : h \in S /\ (\A x \in S : commits[x].on \in S \union {0}) => c \in S}

\* What status.js reads of one context: the newest verdict on any commit of the branch.
Latest(h, context) ==
  LET graded == {c \in Ancestry(h) : commits[c][context] # "none"}
  IN  IF graded = {} THEN "none" ELSE commits[Max(graded)][context]

Security(h) ==
  IF Latest(h, "security") # "none" THEN Latest(h, "security")
  ELSE IF commits[h].review = "review" THEN Grade(h, "security") ELSE "none"

Signals(h) == {Latest(h, "impl"), Security(h), Latest(h, "devops")}

Overall(h) ==
  CASE "failure" \in Signals(h) -> "failure"
    [] "failure" \notin Signals(h) /\ "pending" \in Signals(h) -> "pending"
    [] OTHER -> "success"

ReadyToReview(h) == Latest(h, "impl") # "none" /\ Security(h) # "pending" /\ commits[h].verdict = "none"

\* The verdict is posted once per head, as a review tagged with it.
PostStatus(r) ==
  /\ wf[r].at = "fan" /\ wf[r].todo = {}
  /\ wf' = [wf EXCEPT ![r].at = "status"]
  /\ commits' = IF pr = "open" /\ ReadyToReview(head)
                THEN [commits EXCEPT ![head].verdict = Overall(head)] ELSE commits
  /\ UNCHANGED <<world, pr, head, timely, coder, labels, reviser, approved, answered, merge, merged, tree>>

Complete(r) ==
  /\ wf[r].at = "status"
  /\ Ends(r)
  /\ UNCHANGED <<world, pr, head, commits, timely, labels, reviser, approved, answered, merge, merged, tree>>

-----------------------------------------------------------------------------
(***************************************************************************)
(* Fix rounds: iterate.js, one for each comment.                           *)
(***************************************************************************)

Count(ls) == Max(ls \union {0})

Comment(v) ==
  /\ reviser[v].at = "none" /\ (v > 1 => reviser[v - 1].at # "none") /\ pr = "open"
  /\ reviser' = [reviser EXCEPT ![v].at = "posted"]
  /\ UNCHANGED <<world, pr, head, commits, timely, wf, coder, labels, approved, answered, merge, merged, tree>>

\* The labels are read; at the cap, or on a closed pull request, that is all.
ReadCount(v) ==
  /\ reviser[v].at = "posted"
  /\ reviser' = [reviser EXCEPT ![v] =
       IF Count(labels) >= MaxIterations \/ pr # "open" THEN [Idle EXCEPT !.at = "done"]
       ELSE [at |-> "read", cur |-> labels, next |-> Count(labels) + 1]]
  /\ UNCHANGED <<world, pr, head, commits, timely, wf, coder, labels, approved, answered, merge, merged, tree>>

ClearCount(v) ==
  /\ reviser[v].at = "read"
  /\ labels' = labels \ reviser[v].cur
  /\ reviser' = [reviser EXCEPT ![v].at = "cleared"]
  /\ UNCHANGED <<world, pr, head, commits, timely, wf, coder, approved, answered, merge, merged, tree>>

WriteCount(v) ==
  /\ reviser[v].at = "cleared"
  /\ labels' = labels \union {reviser[v].next}
  /\ reviser' = [reviser EXCEPT ![v].at = "labelled"]
  /\ UNCHANGED <<world, pr, head, commits, timely, wf, coder, approved, answered, merge, merged, tree>>

\* A workflow of that name, still there or not, answers 409.
Submit(v) ==
  /\ reviser[v].at = "labelled"
  /\ IF wf[reviser[v].next].at = "none"
     THEN /\ wf' = [wf EXCEPT ![reviser[v].next].at = "queued"]
          /\ reviser' = [reviser EXCEPT ![v] = [Idle EXCEPT !.at = "done"]]
     ELSE /\ reviser' = [reviser EXCEPT ![v] = [Idle EXCEPT !.at = "dropped"]]
          /\ UNCHANGED wf
  /\ UNCHANGED <<world, pr, head, commits, timely, coder, labels, approved, answered, merge, merged, tree>>

-----------------------------------------------------------------------------
(***************************************************************************)
(* The merge: df-merge-teardown and merge.js.                              *)
(***************************************************************************)

\* A person approves, at any time; one workflow per approved head.
Approve ==
  /\ pr = "open" /\ head \notin approved
  /\ approved' = approved \union {head}
  /\ UNCHANGED <<world, pr, head, commits, timely, wf, coder, labels, reviser, answered, merge, merged, tree>>

\* Mutant: the approval is taken to be of the head now.
MergeReadsHead(h) ==
  /\ h \in approved \ answered /\ merge.at = "none" /\ pr = "open"
  /\ merge' = [of |-> head, sha |-> head, at |-> "read"]
  /\ UNCHANGED <<world, pr, head, commits, timely, wf, coder, labels, reviser, approved, answered, merged, tree>>

\* The head now, which need not be the one that was approved.
MergeReads(h) ==
  /\ h \in approved \ answered /\ merge.at = "none" /\ pr = "open"
  /\ merge' = [of |-> h, sha |-> head, at |-> "read"]
  /\ UNCHANGED <<world, pr, head, commits, timely, wf, coder, labels, reviser, approved, answered, merged, tree>>

\* Mutant: a status that is missing is not asked for.
NotRed(c) == {c.impl, c.holdout, c.security, c.devops} \subseteq {"none", "success"}

\* REQUIRED: a status that is missing is a refusal.
Green(c) == {c.impl, c.holdout, c.security, c.devops} = {"success"}

BotFindings(c) == c.review = "review" /\ "security" \in c.defects

MergePasses ==
  /\ merge.at = "read" /\ Green(commits[merge.sha]) /\ ~BotFindings(commits[merge.sha])
  /\ merge' = [merge EXCEPT !.at = "gated"]
  /\ UNCHANGED <<world, pr, head, commits, timely, wf, coder, labels, reviser, approved, answered, merged, tree>>

MergeRefuses ==
  /\ merge.at = "read" /\ (~Green(commits[merge.sha]) \/ BotFindings(commits[merge.sha]))
  /\ merge' = NoMerge
  /\ answered' = answered \union {merge.of}
  /\ UNCHANGED <<world, pr, head, commits, timely, wf, coder, labels, reviser, approved, merged, tree>>

\* PUT merge names no sha. The VMs go with the pull request.
MergePuts ==
  /\ merge.at = "gated"
  /\ pr' = "merged" /\ merged' = head
  /\ merge' = NoMerge /\ answered' = answered \union {merge.of} /\ tree' = 0
  /\ coder' = [r \in Runs |-> IF Alive(r) THEN [coder[r] EXCEPT !.at = "gone"] ELSE coder[r]]
  /\ UNCHANGED <<world, head, commits, timely, wf, labels, reviser, approved>>

-----------------------------------------------------------------------------
RunStep(r) ==
  \/ Acquire(r) \/ Drive(r) \/ ReadStart(r) \/ AwaitSucceeds(r) \/ AwaitFails(r) \/ StepFails(r)
  \/ HoldoutClones(r) \/ HoldoutPosts(r) \/ SecurityStarts(r) \/ SecurityMirrors(r) \/ SecurityGivesUp(r)
  \/ DevopsReports(r) \/ PostStatus(r) \/ Complete(r)

CoderStep(r) ==
  \/ CoderCommits(r) \/ CoderPushes(r) \/ CoderOpens(r) \/ CoderReports(r)
  \/ CoderFails(r) \/ CoderIsSatisfied(r)

BotStep(c) == BotAcks(c) \/ BotReviews(c) \/ BotChecks(c)

Revise(v) == ReadCount(v) \/ ClearCount(v) \/ WriteCount(v) \/ Submit(v)

MergeStep == (\E h \in approved : MergeReads(h)) \/ MergePasses \/ MergeRefuses \/ MergePuts

Next ==
  \/ \E r \in Runs : RunStep(r) \/ CoderStep(r)
  \/ \E c \in 1..Len(commits) : BotStep(c)
  \/ \E v \in Comments : Comment(v) \/ Revise(v)
  \/ Approve \/ MergeStep

Spec == Init /\ [][Next]_factoryVars

-----------------------------------------------------------------------------
(***************************************************************************)
(* Properties.                                                             *)
(***************************************************************************)

TypeOK ==
  /\ world \in Worlds /\ pr \in {"none", "open", "merged"}
  /\ commits \in Seq(Commit)
  /\ head \in 0..Len(commits) /\ merged \in 0..Len(commits) /\ timely \subseteq 1..Len(commits)
  /\ wf \in [Runs -> [at : {"none", "queued", "started", "driven", "await", "fan", "status", "ended"},
                      start : Nat, sha : Nat, todo : SUBSET Gates, cloned : Nat, awaited : Nat]]
  /\ coder \in [Runs -> [at : {"none", "working", "committed", "pushed", "opened", "satisfied", "gone"}, on : Nat]]
  /\ labels \subseteq 1..MaxIterations
  /\ reviser \in [Comments -> [at : {"none", "posted", "read", "cleared", "labelled", "done", "dropped"},
                               cur : SUBSET Nat, next : 0..MaxIterations]]
  /\ answered \subseteq approved /\ approved \subseteq 1..Len(commits)
  /\ merge \in [of : Nat, sha : Nat, at : {"none", "read", "gated"}]
  /\ tree \in 0..Len(commits)

\* At most one coder is still going to push to the branch: --force is safe only because
\* "df/issue-N is bot-owned and single-writer" (entrypoint.js:430).  Kept by the mutex and,
\* past a deadline, by the teardown of the claim or the hook server.
SingleWriter ==
  \A q, r \in Runs : coder[q].at \in {"working", "committed"} /\ coder[r].at \in {"working", "committed"} => q = r

\* A force-push never takes a commit off the branch that another round has put there:
\* every coder builds on the head it is going to replace (entrypoint.js:171).
PushesKeepTheBranch == [][head' # head /\ head # 0 => head \in Ancestry(head')]_factoryVars

\* Where the answer the wait for the bot accepts is about the head it is posted on: in a
\* MicroVM, where no coder pushes under a fan, and, of a bot that may answer with a comment,
\* which names no commit, as long as no run ends without its answer.  On Kata the first run
\* and a fix round may overlap.
AnswersFindTheirHead ==
  OnLambda /\ ("comment" \in world.forms => world.faults \subseteq {"vm_lost", "no_change", "devops_timeout"})

\* dark-factory/security on a commit is the bot's verdict on that commit, although it
\* is posted long after the head was read and the bot answers in its own time
\* (security-wait.js:58).
VerdictsMirrorTheirHead ==
  AnswersFindTheirHead => \A c \in 1..Len(commits) :
    commits[c].security \in {"success", "failure"} =>
      commits[c].review # "none" /\ commits[c].security = Grade(c, "security")

\* A fix round on Kata goes on to verify the commit its own coder made, never one that
\* another coder pushed while it waited.  In a MicroVM it may be that of a coder past its
\* deadline, for which the hook server refused the round its own (hook-server.js:53).
FixRoundsVerifyTheirOwnCommit ==
  ~OnLambda => \A r \in Runs \ {First} : wf[r].sha # 0 => commits[wf[r].sha].by = r

\* A verdict that clears the head it is tagged with is never carried over from an older
\* commit: both agents have cleared that head, unless a gate ended without an answer and
\* without a status (status.js:78 then finds the one of the commit before).
ClearVerdictsAreOfTheirHead ==
  AnswersFindTheirHead /\ world.faults \cap {"security_error", "devops_timeout"} = {} => \A c \in 1..Len(commits) :
    commits[c].verdict = "success" =>
      commits[c].review # "none" /\ commits[c].devops = "success" /\ "security" \notin commits[c].defects

\* What is merged was green when it was merged.
MergesAreGreen == [][merged' # merged => Green(commits[merged'])]_factoryVars

\* Provided the head is still the one the gate read, what is merged deserves none of
\* the gates' failures, whatever was posted late, posted twice or timed out before: but for
\* the security bot's where its answer may be about another commit.
UnmovedMergesAreSound ==
  [][merged' # merged /\ merged' = merge.sha =>
       commits[merged'].defects \subseteq (IF AnswersFindTheirHead THEN {} ELSE {"security"})]_factoryVars

=============================================================================
