-------------------------- MODULE DarkFactoryProofs --------------------------
(***************************************************************************)
(* What DarkFactory promises, for every number of rounds and comments and  *)
(* in every world: all of its safety properties but the one the code       *)
(* breaks, MergesAreGreen.                                                 *)
(*                                                                         *)
(* One inductive invariant, Factory, in the order its parts rest on each   *)
(* other: Typed (what names a commit names an older one), Control (who     *)
(* holds the mutex, and that a coder is its run's or the only one in the   *)
(* VM), OwnBranch and TreeLeads (what a coder builds on, on Kata and in a  *)
(* MicroVM), Reports (no status before the push), Quiet and Pinned (in a   *)
(* MicroVM the head does not move under a fan), Grades, and Answered       *)
(* (a coder starts when all that was pushed is reviewed).  The verdicts    *)
(* follow: Mirrored, GatesPosted, Cleared and GatedIsSound.                *)
(*                                                                         *)
(* The steps are taken participant by participant; the frames say what     *)
(* each of them leaves alone and Authors who posts what.                   *)
(***************************************************************************)
EXTENDS DarkFactory, SequenceTheorems, WellFoundedInduction, TLAPS

USE RoundsAssumption, WorldsAssumption

-----------------------------------------------------------------------------
(***************************************************************************)
(* Numbers and branches.                                                   *)
(***************************************************************************)

\* A set of naturals has a smallest element.
LEMMA Smallest ==
  ASSUME NEW T \in SUBSET Nat, T # {}
  PROVE  \E x \in T : \A y \in T : x <= y
<1>1. PICK R : R = OpToRel(<, Nat)
  OBVIOUS
<1>2. IsWellFoundedOn(R, Nat)
  BY <1>1, NatLessThanWellFounded
<1>3. PICK x \in T : \A y \in T : ~(<<y, x>> \in R)
  BY <1>2, WFMin
<1>4. ASSUME NEW y \in T
      PROVE  x <= y
  <2>1. ~(y < x)
    BY <1>1, <1>3, <1>4 DEF OpToRel
  <2>. QED
    BY <2>1
<1>. QED
  BY <1>4

\* A bounded set of naturals has a largest element, and Max finds it.
LEMMA Largest ==
  ASSUME NEW n \in Nat, NEW T \in SUBSET (0..n), T # {}
  PROVE  Max(T) \in T /\ \A y \in T : y <= Max(T)
<1>. DEFINE D == {n - y : y \in T}
<1>0. \A y \in T : y \in 0..n /\ n - y \in Nat
  OBVIOUS
<1>1. D \in SUBSET Nat /\ D # {}
  BY <1>0
<1>2. PICK d \in D : \A e \in D : d <= e
  BY <1>1, Smallest
<1>3. PICK x \in T : d = n - x
  OBVIOUS
<1>4. \A y \in T : x >= y
  <2>. TAKE y \in T
  <2>1. n - y \in D
    OBVIOUS
  <2>2. n - x <= n - y /\ x \in 0..n /\ y \in 0..n
    BY <2>1, <1>0, <1>2, <1>3
  <2>. QED
    BY <2>2
<1>5. \E z \in T : \A y \in T : z >= y
  BY <1>3, <1>4
<1>. QED
  BY <1>5 DEF Max

\* iterate.js counts no further than there are labels.
LEMMA Counted ==
  ASSUME labels \subseteq 1..MaxIterations
  PROVE  Count(labels) \in 0..MaxIterations
<1>. DEFINE T == labels \union {0}
<1>1. T \in SUBSET (0..MaxIterations) /\ T # {} /\ MaxIterations \in Nat
  OBVIOUS
<1>2. Max(T) \in T
  BY <1>1, Largest
<1>. QED
  BY <1>1, <1>2 DEF Count

\* A context that has been posted on the head itself is what status.js reads.
LEMMA LatestOfHead ==
  ASSUME NEW h \in Nat, h # 0, NEW context, commits[h][context] # "none"
  PROVE  Latest(h, context) = commits[h][context]
<1>. DEFINE graded == {c \in Ancestry(h) : commits[c][context] # "none"}
<1>1. h \in graded /\ graded \subseteq 1..h
  BY DEF Ancestry
<1>2. \A x \in graded : (\A y \in graded : x >= y) => x = h
  BY <1>1
<1>3. Max(graded) = h
  BY <1>1, <1>2 DEF Max
<1>. QED
  BY <1>1, <1>3 DEF Latest

\* The commits each commit was built on were there before it.
Ordered == \A c \in 1..Len(commits) : commits[c].on \in 0..(c - 1)

\* A commit is on its own branch, and so is the one it was built on.
LEMMA OwnAncestry ==
  ASSUME Ordered, NEW h \in 1..Len(commits), Len(commits) \in Nat
  PROVE  h \in Ancestry(h) /\ (commits[h].on # 0 => commits[h].on \in Ancestry(h))
<1>1. commits[h].on \in 0..(h - 1)
  BY DEF Ordered
<1>. QED
  BY <1>1 DEF Ancestry

\* What is on the branch of a commit of the branch is on the branch.
LEMMA AncestryGoesOn ==
  ASSUME Ordered, Len(commits) \in Nat, NEW a \in 1..Len(commits), NEW b \in Ancestry(a)
  PROVE  Ancestry(b) \subseteq Ancestry(a)
<1>1. b \in 1..a
  BY DEF Ancestry
<1>. SUFFICES ASSUME NEW c \in Ancestry(b), NEW S \in SUBSET (1..a), a \in S,
                     \A x \in S : commits[x].on \in S \union {0}
              PROVE  c \in S
  BY <1>1 DEF Ancestry
<1>2. b \in S
  BY DEF Ancestry
<1>. DEFINE T == {x \in S : x <= b}
<1>3. T \in SUBSET (1..b) /\ b \in T
  <2>1. b \in Nat /\ b <= b /\ \A x \in S : x \in Nat /\ x >= 1
    BY <1>1
  <2>2. \A x \in T : x \in 1..b
    BY <2>1
  <2>3. b \in T
    BY <2>1, <1>2
  <2>. QED
    BY <2>2, <2>3
<1>4. \A x \in T : commits[x].on \in T \union {0}
  <2>. TAKE x \in T
  <2>1. commits[x].on \in S \union {0} /\ commits[x].on \in 0..(x - 1) /\ x <= b
    BY <1>1 DEF Ordered
  <2>. QED
    BY <2>1, <1>1
<1>5. c \in T
  BY <1>3, <1>4 DEF Ancestry
<1>. QED
  BY <1>5

\* So a branch holds what its last commit was built on, and all that was built on.
BranchesNest ==
  \A a \in 1..Len(commits) : LET b == commits[a].on IN b # 0 => b \in Ancestry(a) /\ Ancestry(b) \subseteq Ancestry(a)

\* The branch of a commit holds the whole branch of the one it was built on.
LEMMA OrderedNests == Ordered /\ Len(commits) \in Nat => BranchesNest
  BY OwnAncestry, AncestryGoesOn DEF BranchesNest

\* Posting on commits, and new commits, leave the branches of the old ones alone.
LEMMA AncestryStays ==
  ASSUME Ordered, Len(commits) \in Nat, NEW h \in 0..Len(commits),
         \A c \in 1..Len(commits) : commits'[c].on = commits[c].on
  PROVE  Ancestry(h)' = Ancestry(h)
  BY DEF Ancestry

-----------------------------------------------------------------------------
(***************************************************************************)
(* Posting on a commit.                                                    *)
(***************************************************************************)

Fields == {"by", "on", "defects", "pushed", "impl", "holdout", "security", "devops", "acked", "review",
           "known", "verdict"}

\* A step that touches one commit, and of it no more than these fields.
Posts(c, F) ==
  /\ commits' \in Seq(Commit) /\ Len(commits') = Len(commits)
  /\ \A d \in 1..Len(commits) : d # c => commits'[d] = commits[d]
  /\ \A f \in Fields \ F : commits'[c][f] = commits[c][f]

\* An EXCEPT of one commit is such a step.
LEMMA Posting ==
  ASSUME commits \in Seq(Commit), NEW c \in 1..Len(commits), NEW x \in Commit, NEW F,
         commits' = [commits EXCEPT ![c] = x], \A f \in Fields \ F : x[f] = commits[c][f]
  PROVE  Posts(c, F) /\ commits'[c] = x
<1>1. /\ commits' \in Seq(Commit) /\ Len(commits') = Len(commits)
      /\ \A d \in 1..Len(commits) : commits'[d] = IF d = c THEN x ELSE commits[d]
  BY ExceptSeq
<1>. QED
  BY <1>1 DEF Posts

\* The fields of the amended commit, one by one.
LEMMA Amended ==
  ASSUME NEW e \in Commit
  PROVE  /\ [e EXCEPT !.acked = TRUE] \in Commit
         /\ [e EXCEPT !.pushed = TRUE] \in Commit /\ [e EXCEPT !.pushed = TRUE].pushed
         /\ \A v \in {"success", "failure"} :
              /\ [e EXCEPT !.impl = v] \in Commit /\ [e EXCEPT !.impl = v].impl = v
              /\ [e EXCEPT !.holdout = v] \in Commit /\ [e EXCEPT !.holdout = v].holdout = v
              /\ [e EXCEPT !.devops = v] \in Commit /\ [e EXCEPT !.devops = v].devops = v
         /\ \A v \in {"pending", "success", "failure"} :
              /\ [e EXCEPT !.security = v] \in Commit /\ [e EXCEPT !.security = v].security = v
              /\ [e EXCEPT !.verdict = v] \in Commit /\ [e EXCEPT !.verdict = v].verdict = v
  BY DEF Commit

\* What each of the handlers posts.
LEMMA AckPosts ==
  ASSUME commits \in Seq(Commit), NEW c \in 1..Len(commits), BotAcks(c)
  PROVE  Posts(c, {"acked"})
<1>1. commits[c] \in Commit
  OBVIOUS
<1>2. PICK x : x = [commits[c] EXCEPT !.acked = TRUE]
  OBVIOUS
<1>3. x \in Commit
  BY <1>1, <1>2, Amended
<1>4. \A f \in Fields \ {"acked"} : x[f] = commits[c][f]
  BY <1>1, <1>2 DEF Commit, Fields
<1>5. commits' = [commits EXCEPT ![c] = x]
  BY <1>2 DEF BotAcks
<1>. QED
  BY <1>3, <1>4, <1>5, Posting

\* A comment is the bot's word that it found nothing, and dated by the commits there are.
LEMMA ReviewPosts ==
  ASSUME commits \in Seq(Commit), NEW c \in 1..Len(commits), BotReviews(c)
  PROVE  /\ Posts(c, {"review", "known"})
         /\ \/ commits'[c].review = "review"
            \/ /\ commits'[c].review = "comment" /\ commits'[c].known = Len(commits)
               /\ "comment" \in world.forms /\ "security" \notin commits[c].defects
<1>1. commits[c] \in Commit /\ Len(commits) \in Nat
  OBVIOUS
<1>2. CASE commits' = [commits EXCEPT ![c].review = "review"]
  <2>1. PICK x : x = [commits[c] EXCEPT !.review = "review"]
    OBVIOUS
  <2>2. x \in Commit /\ x.review = "review"
    BY <1>1, <2>1 DEF Commit
  <2>3. \A f \in Fields \ {"review", "known"} : x[f] = commits[c][f]
    BY <1>1, <2>1 DEF Commit, Fields
  <2>4. commits' = [commits EXCEPT ![c] = x]
    BY <1>2, <2>1
  <2>5. Posts(c, {"review", "known"}) /\ commits'[c] = x
    BY <2>2, <2>3, <2>4, Posting
  <2>. QED
    BY <2>2, <2>5
<1>3. CASE /\ commits' = [commits EXCEPT ![c].review = "comment", ![c].known = Len(commits)]
           /\ "comment" \in world.forms /\ "security" \notin commits[c].defects
  <2>1. PICK x : x = [commits[c] EXCEPT !.review = "comment", !.known = Len(commits)]
    OBVIOUS
  <2>2. x \in Commit /\ x.review = "comment" /\ x.known = Len(commits)
    BY <1>1, <2>1 DEF Commit
  <2>3. \A f \in Fields \ {"review", "known"} : x[f] = commits[c][f]
    BY <1>1, <2>1 DEF Commit, Fields
  <2>4. commits' = [commits EXCEPT ![c] = x]
    BY <1>3, <2>1
  <2>5. Posts(c, {"review", "known"}) /\ commits'[c] = x
    BY <2>2, <2>3, <2>4, Posting
  <2>. QED
    BY <1>3, <2>2, <2>5
<1>. QED
  BY <1>2, <1>3 DEF BotReviews

LEMMA CheckPosts ==
  ASSUME commits \in Seq(Commit), NEW k \in 1..Len(commits), BotChecks(k)
  PROVE  Posts(k, {"devops"}) /\ commits'[k].devops = Grade(k, "devops")
<1>1. PICK c \in 1..Len(commits) : c = k
  OBVIOUS
<1>2. commits[c] \in Commit
  OBVIOUS
<1>3. PICK x : x = [commits[c] EXCEPT !.devops = Grade(c, "devops")]
  OBVIOUS
<1>4. x \in Commit /\ x.devops = Grade(c, "devops")
  <2>1. Grade(c, "devops") \in {"success", "failure"}
    BY DEF Grade
  <2>. QED
    BY <1>2, <1>3, <2>1, Amended
<1>5. \A f \in Fields \ {"devops"} : x[f] = commits[c][f]
  BY <1>2, <1>3 DEF Commit, Fields
<1>6. commits' = [commits EXCEPT ![c] = x]
  BY <1>1, <1>3 DEF BotChecks
<1>7. Posts(c, {"devops"}) /\ commits'[c] = x
  BY <1>4, <1>5, <1>6, Posting
<1>. QED
  BY <1>1, <1>4, <1>7

\* The holdout verdict is of the commit that was cloned.
LEMMA HoldoutPostsGrade ==
  ASSUME commits \in Seq(Commit), NEW r, wf[r].cloned \in 1..Len(commits), HoldoutPosts(r)
  PROVE  Posts(wf[r].cloned, {"holdout"}) /\ commits'[wf[r].cloned].holdout = Grade(wf[r].cloned, "holdout")
<1>1. PICK c \in 1..Len(commits) : c = wf[r].cloned
  OBVIOUS
<1>2. commits[c] \in Commit
  OBVIOUS
<1>3. PICK x : x = [commits[c] EXCEPT !.holdout = Grade(c, "holdout")]
  OBVIOUS
<1>4. x \in Commit /\ x.holdout = Grade(c, "holdout")
  <2>1. Grade(c, "holdout") \in {"success", "failure"}
    BY DEF Grade
  <2>. QED
    BY <1>2, <1>3, <2>1, Amended
<1>5. \A f \in Fields \ {"holdout"} : x[f] = commits[c][f]
  BY <1>2, <1>3 DEF Commit, Fields
<1>6. commits' = [commits EXCEPT ![c] = x]
  BY <1>1, <1>3 DEF HoldoutPosts
<1>7. Posts(c, {"holdout"}) /\ commits'[c] = x
  BY <1>4, <1>5, <1>6, Posting
<1>. QED
  BY <1>1, <1>4, <1>7

\* postStatus touches the head only.
LEMMA SecurityPosts ==
  ASSUME commits \in Seq(Commit), head \in 1..Len(commits), pr = "open", NEW state \in {"pending", "success", "failure"},
         PostsSecurity(state)
  PROVE  Posts(head, {"security"}) /\ commits'[head].security = state
<1>1. PICK c \in 1..Len(commits) : c = head
  OBVIOUS
<1>2. commits[c] \in Commit
  OBVIOUS
<1>3. PICK x : x = [commits[c] EXCEPT !.security = state]
  OBVIOUS
<1>4. x \in Commit /\ x.security = state
  BY <1>2, <1>3, Amended
<1>5. \A f \in Fields \ {"security"} : x[f] = commits[c][f]
  BY <1>2, <1>3 DEF Commit, Fields
<1>6. commits' = [commits EXCEPT ![c] = x]
  BY <1>1, <1>3 DEF PostsSecurity
<1>7. Posts(c, {"security"}) /\ commits'[c] = x
  BY <1>4, <1>5, <1>6, Posting
<1>. QED
  BY <1>1, <1>4, <1>7

\* The consolidated verdict, if there is one to post.
LEMMA StatusPosts ==
  ASSUME commits \in Seq(Commit), head \in 1..Len(commits), NEW r, PostStatus(r)
  PROVE  \/ UNCHANGED commits
         \/ pr = "open" /\ Posts(head, {"verdict"}) /\ commits'[head].verdict = Overall(head)
<1>1. CASE pr = "open" /\ ReadyToReview(head)
  <2>1. PICK v \in {"pending", "success", "failure"} : v = Overall(head)
    BY DEF Overall
  <2>2. PICK c \in 1..Len(commits) : c = head
    OBVIOUS
  <2>3. commits[c] \in Commit
    OBVIOUS
  <2>4. PICK x : x = [commits[c] EXCEPT !.verdict = v]
    OBVIOUS
  <2>5. x \in Commit /\ x.verdict = v
    BY <2>3, <2>4, Amended
  <2>6. \A f \in Fields \ {"verdict"} : x[f] = commits[c][f]
    BY <2>3, <2>4 DEF Commit, Fields
  <2>7. commits' = [commits EXCEPT ![c] = x]
    BY <1>1, <2>1, <2>2, <2>4 DEF PostStatus
  <2>8. Posts(c, {"verdict"}) /\ commits'[c] = x
    BY <2>5, <2>6, <2>7, Posting
  <2>. QED
    BY <1>1, <2>1, <2>2, <2>5, <2>8
<1>2. CASE ~(pr = "open" /\ ReadyToReview(head))
  BY <1>2 DEF PostStatus
<1>. QED
  BY <1>1, <1>2

LEMMA PushPosts ==
  ASSUME commits \in Seq(Commit), NEW r, coder[r].on \in 1..Len(commits), CoderPushes(r)
  PROVE  Posts(coder[r].on, {"pushed"}) /\ commits'[coder[r].on].pushed
<1>1. PICK c \in 1..Len(commits) : c = coder[r].on
  OBVIOUS
<1>2. commits[c] \in Commit
  OBVIOUS
<1>3. PICK x : x = [commits[c] EXCEPT !.pushed = TRUE]
  OBVIOUS
<1>4. x \in Commit /\ x.pushed
  BY <1>2, <1>3, Amended
<1>5. \A f \in Fields \ {"pushed"} : x[f] = commits[c][f]
  BY <1>2, <1>3 DEF Commit, Fields
<1>6. commits' = [commits EXCEPT ![c] = x]
  BY <1>1, <1>3 DEF CoderPushes
<1>7. Posts(c, {"pushed"}) /\ commits'[c] = x
  BY <1>4, <1>5, <1>6, Posting
<1>. QED
  BY <1>1, <1>4, <1>7

\* The coder's own status, either way.
LEMMA ImplPosts ==
  ASSUME commits \in Seq(Commit), NEW r, coder[r].on \in 1..Len(commits), NEW state \in {"success", "failure"},
         commits' = [commits EXCEPT ![coder[r].on].impl = state]
  PROVE  Posts(coder[r].on, {"impl"}) /\ commits'[coder[r].on].impl = state
<1>1. PICK c \in 1..Len(commits) : c = coder[r].on
  OBVIOUS
<1>2. commits[c] \in Commit
  OBVIOUS
<1>3. PICK x : x = [commits[c] EXCEPT !.impl = state]
  OBVIOUS
<1>4. x \in Commit /\ x.impl = state
  BY <1>2, <1>3, Amended
<1>5. \A f \in Fields \ {"impl"} : x[f] = commits[c][f]
  BY <1>2, <1>3 DEF Commit, Fields
<1>6. commits' = [commits EXCEPT ![c] = x]
  BY <1>1, <1>3
<1>7. Posts(c, {"impl"}) /\ commits'[c] = x
  BY <1>4, <1>5, <1>6, Posting
<1>. QED
  BY <1>1, <1>4, <1>7

-----------------------------------------------------------------------------
(***************************************************************************)
(* Types, sharper than TypeOK: what names a commit names one that exists.  *)
(***************************************************************************)

Commits == 1..Len(commits)
Fixes   == Runs \ {First}

Workflow == [at : {"none", "queued", "started", "driven", "await", "fan", "status", "ended"},
             start : 0..Len(commits), sha : 0..Len(commits), todo : SUBSET Gates,
             cloned : 0..Len(commits), awaited : 0..Len(commits)]

Coder == [at : {"none", "working", "committed", "pushed", "opened", "satisfied", "gone"}, on : 0..Len(commits)]

Reviser == [at : {"none", "posted", "read", "cleared", "labelled", "done", "dropped"},
            cur : SUBSET Nat, next : 0..MaxIterations]

Branches ==
  /\ commits \in Seq(Commit) /\ Ordered
  /\ pr \in {"none", "open", "merged"} /\ head \in 0..Len(commits) /\ (pr # "none" => head # 0)
  /\ tree \in 0..Len(commits)
  /\ timely \subseteq Commits

Coders ==
  /\ coder \in [Runs -> Coder]
  /\ \A r \in Runs : /\ coder[r].at \in {"committed", "pushed", "opened"} => coder[r].on # 0
                     /\ coder[r].at \in {"pushed", "opened"} => head # 0

Revisers ==
  /\ labels \subseteq 1..MaxIterations
  /\ reviser \in [Comments -> Reviser]
  /\ \A v \in Comments : reviser[v].at \in {"read", "cleared", "labelled"} => reviser[v].next # 0

Merging ==
  /\ approved \subseteq Commits /\ answered \subseteq approved
  /\ merge \in [of : 0..Len(commits), sha : 0..Len(commits), at : {"none", "read", "gated"}]
  /\ merge.at # "none" => merge.of \in approved /\ merge.sha # 0 /\ pr # "none"
  /\ merged \in 0..Len(commits)

Typed ==
  /\ world \in Worlds
  /\ Branches /\ wf \in [Runs -> Workflow] /\ Coders /\ Revisers /\ Merging

\* Typed is sharper.
LEMMA TypedIsTypeOK == Typed => TypeOK
<1>. SUFFICES ASSUME Typed PROVE TypeOK
  OBVIOUS
<1>1. Len(commits) \in Nat
  BY DEF Typed, Branches
<1>2. wf \in [Runs -> [at : {"none", "queued", "started", "driven", "await", "fan", "status", "ended"},
                       start : Nat, sha : Nat, todo : SUBSET Gates, cloned : Nat, awaited : Nat]]
  BY <1>1 DEF Typed, Workflow
<1>3. coder \in [Runs -> [at : {"none", "working", "committed", "pushed", "opened", "satisfied", "gone"}, on : Nat]]
  BY <1>1 DEF Typed, Coders, Coder
<1>4. Revisers => reviser \in [Comments -> [at : {"none", "posted", "read", "cleared", "labelled", "done", "dropped"},
                                             cur : SUBSET Nat, next : 0..MaxIterations]]
  BY DEF Revisers, Reviser
<1>5. merge \in [of : Nat, sha : Nat, at : {"none", "read", "gated"}]
  BY <1>1 DEF Typed, Merging
<1>. QED
  BY <1>1, <1>2, <1>3, <1>4, <1>5 DEF Typed, TypeOK, Branches, Coders, Revisers, Merging, Commits

LEMMA InitTyped == Init => Typed
<1>. SUFFICES ASSUME Init PROVE Typed
  OBVIOUS
<1>1. commits \in Seq(Commit) /\ Len(commits) = 0
  BY DEF Init
<1>2. wf \in [Runs -> Workflow]
  BY <1>1 DEF Init, NoRun, Workflow
<1>3. Coders
  BY <1>1 DEF Init, Coders, Coder
<1>4. Revisers
  BY DEF Init, Revisers, Reviser, Idle
<1>5. Merging
  BY <1>1 DEF Init, Merging, NoMerge, Commits
<1>. QED
  BY <1>1, <1>2, <1>3, <1>4, <1>5 DEF Init, Typed, Branches, Ordered, Commits

-----------------------------------------------------------------------------
(***************************************************************************)
(* What the steps of each participant leave alone.                         *)
(***************************************************************************)

\* A run changes workflows, coders, the checkout and what is posted.
LEMMA RunFrame ==
  ASSUME NEW r, RunStep(r)
  PROVE  UNCHANGED <<world, pr, head, timely, labels, reviser, approved, answered, merge, merged>>
  BY DEF RunStep, Acquire, Drive, ReadStart, AwaitSucceeds, AwaitFails, StepFails, HoldoutClones, HoldoutPosts,
         SecurityStarts, SecurityMirrors, SecurityGivesUp, DevopsReports, PostStatus, Complete

LEMMA CoderFrame ==
  ASSUME NEW r, CoderStep(r)
  PROVE  UNCHANGED <<world, timely, wf, labels, reviser, approved, answered, merge, merged>>
  BY DEF CoderStep, CoderCommits, CoderPushes, CoderOpens, CoderReports, CoderFails, CoderIsSatisfied

LEMMA BotFrame ==
  ASSUME NEW c, BotStep(c)
  PROVE  UNCHANGED <<world, pr, head, wf, coder, labels, reviser, approved, answered, merge, merged, tree>>
  BY DEF BotStep, BotAcks, BotReviews, BotChecks

LEMMA RoundFrame ==
  ASSUME NEW v, Comment(v) \/ Revise(v)
  PROVE  UNCHANGED <<world, pr, head, commits, timely, coder, approved, answered, merge, merged, tree>>
  BY DEF Comment, Revise, ReadCount, ClearCount, WriteCount, Submit

LEMMA MergeFrame ==
  ASSUME Approve \/ MergeStep
  PROVE  UNCHANGED <<world, head, commits, timely, wf, labels, reviser>>
  BY DEF Approve, MergeStep, MergeReads, MergePasses, MergeRefuses, MergePuts

\* The steps of one pull request, participant by participant.
LEMMA Participants ==
  ASSUME [Next]_factoryVars
  PROVE  \/ \E r \in Runs : RunStep(r)
         \/ \E r \in Runs : CoderStep(r)
         \/ \E c \in 1..Len(commits) : BotStep(c)
         \/ \E v \in Comments : Comment(v) \/ Revise(v)
         \/ Approve \/ MergeStep
         \/ UNCHANGED factoryVars
  BY DEF Next

\* The world never changes.
LEMMA WorldFrame ==
  ASSUME [Next]_factoryVars
  PROVE  world' = world /\ (OnLambda' <=> OnLambda) /\ Comments' = Comments
<1>1. world' = world
  BY Participants, RunFrame, CoderFrame, BotFrame, RoundFrame, MergeFrame DEF factoryVars
<1>. QED
  BY <1>1 DEF OnLambda, Comments

-----------------------------------------------------------------------------
(***************************************************************************)
(* What is posted is not withdrawn.                                        *)
(***************************************************************************)

\* A run's step posts one verdict at most, and of a commit only what it is about.
LEMMA RunPosts ==
  ASSUME Typed, NEW r \in Runs, RunStep(r)
  PROVE  \/ UNCHANGED commits
         \/ HoldoutPosts(r) /\ Posts(wf[r].cloned, {"holdout"}) /\ wf[r].cloned \in Commits
            /\ commits'[wf[r].cloned].holdout = Grade(wf[r].cloned, "holdout")
         \/ /\ SecurityMirrors(r) \/ SecurityGivesUp(r)
            /\ pr = "open" /\ Posts(head, {"security"}) /\ head \in Commits
            /\ commits'[head].security \in {"pending", "success", "failure"}
            /\ SecurityMirrors(r) => commits'[head].security = BotVerdict(wf[r].awaited)
         \/ /\ PostStatus(r) /\ pr = "open" /\ Posts(head, {"verdict"}) /\ head \in Commits
            /\ commits'[head].verdict = Overall(head)
<1>1. /\ commits \in Seq(Commit) /\ (pr = "open" => head \in 1..Len(commits))
      /\ wf[r] \in Workflow /\ Len(commits) \in Nat
  BY DEF Typed, Branches
<1>2. CASE HoldoutPosts(r)
  <2>1. wf[r].cloned \in 1..Len(commits)
    BY <1>1, <1>2 DEF HoldoutPosts, Workflow
  <2>. QED
    BY <1>1, <1>2, <2>1, HoldoutPostsGrade DEF Commits
<1>3. CASE SecurityMirrors(r)
  <2>1. BotVerdict(wf[r].awaited) \in {"success", "failure"}
    BY <1>3 DEF SecurityMirrors, BotVerdict, Grade
  <2>2. PostsSecurity(BotVerdict(wf[r].awaited))
    BY <1>3 DEF SecurityMirrors
  <2>3. CASE pr = "open"
    BY <1>1, <1>3, <2>1, <2>2, <2>3, SecurityPosts DEF Commits
  <2>4. CASE pr # "open"
    BY <2>2, <2>4 DEF PostsSecurity
  <2>. QED
    BY <2>3, <2>4
<1>4. CASE SecurityGivesUp(r) /\ ~SecurityMirrors(r)
  <2>1. CASE PostsSecurity("pending") /\ pr = "open"
    BY <1>1, <1>4, <2>1, SecurityPosts DEF Commits
  <2>2. CASE PostsSecurity("pending") /\ pr # "open"
    BY <2>2 DEF PostsSecurity
  <2>. QED
    BY <1>4, <2>1, <2>2 DEF SecurityGivesUp
<1>5. CASE PostStatus(r)
  <2>1. CASE pr = "open"
    BY <1>1, <1>5, <2>1, StatusPosts DEF Commits
  <2>2. CASE pr # "open"
    BY <1>5, <2>2 DEF PostStatus
  <2>. QED
    BY <2>1, <2>2
<1>6. CASE \/ Acquire(r) \/ Drive(r) \/ ReadStart(r) \/ AwaitSucceeds(r) \/ AwaitFails(r) \/ StepFails(r)
           \/ HoldoutClones(r) \/ SecurityStarts(r) \/ DevopsReports(r) \/ Complete(r)
  BY <1>6 DEF Acquire, Drive, ReadStart, AwaitSucceeds, AwaitFails, StepFails, HoldoutClones, SecurityStarts,
              DevopsReports, Complete
<1>. QED
  BY <1>2, <1>3, <1>4, <1>5, <1>6 DEF RunStep

\* The steps of all but the coders.
OtherStep ==
  \/ \E r \in Runs : RunStep(r)
  \/ \E c \in 1..Len(commits) : BotStep(c)
  \/ \E v \in Comments : Comment(v) \/ Revise(v)
  \/ Approve \/ MergeStep
  \/ UNCHANGED factoryVars

\* Only coders make, push and report on commits.
LEMMA OthersPost ==
  ASSUME Typed, OtherStep
  PROVE  /\ commits' \in Seq(Commit) /\ Len(commits') = Len(commits)
         /\ \A c \in Commits : \A f \in {"by", "on", "defects", "pushed", "impl"} : commits'[c][f] = commits[c][f]
<1>. DEFINE F == {"by", "on", "defects", "pushed", "impl"}
<1>1. ASSUME NEW c \in Commits, NEW G \in SUBSET Fields, Posts(c, G), G \cap F = {}
      PROVE  /\ commits' \in Seq(Commit) /\ Len(commits') = Len(commits)
             /\ \A d \in Commits : \A f \in F : commits'[d][f] = commits[d][f]
  <2>1. \A f \in F : f \in Fields \ G
    BY <1>1 DEF Fields
  <2>. QED
    BY <1>1, <2>1 DEF Posts, Commits
<1>2. commits \in Seq(Commit)
  BY DEF Typed, Branches
<1>3. ASSUME NEW r \in Runs, RunStep(r)
      PROVE  UNCHANGED commits \/ \E c \in Commits : \E x \in {"holdout", "security", "verdict"} : Posts(c, {x})
  BY <1>3, RunPosts
<1>4. ASSUME NEW c \in Commits, BotStep(c)
      PROVE  Posts(c, {"acked"}) \/ Posts(c, {"review", "known"}) \/ Posts(c, {"devops"})
  BY <1>2, <1>4, AckPosts, ReviewPosts, CheckPosts DEF BotStep, Commits
<1>5. CASE UNCHANGED commits
  BY <1>2, <1>5
<1>6. ASSUME NEW c \in Commits, NEW x \in {"acked", "holdout", "security", "verdict", "devops"}, Posts(c, {x})
      PROVE  \E G \in SUBSET Fields : Posts(c, G) /\ G \cap F = {}
  <2>1. {x} \in SUBSET Fields /\ {x} \cap F = {}
    BY DEF Fields
  <2>. QED
    BY <1>6, <2>1
<1>7. {"review", "known"} \in SUBSET Fields /\ {"review", "known"} \cap F = {}
  BY DEF Fields
<1>8. \/ UNCHANGED commits
      \/ \E c \in Commits : \E G \in SUBSET Fields : Posts(c, G) /\ G \cap F = {}
  BY <1>3, <1>4, <1>6, <1>7, RoundFrame, MergeFrame DEF OtherStep, factoryVars, Commits
<1>. QED
  BY <1>1, <1>5, <1>8

\* A coder's commit: one more, on top of what the coder had checked out.
LEMMA Committing ==
  ASSUME Typed, NEW r \in Runs, CoderCommits(r)
  PROVE  LET n == Len(commits) + 1 IN
         /\ commits' \in Seq(Commit) /\ Len(commits') = n /\ n \in Nat
         /\ \A c \in Commits : commits'[c] = commits[c]
         /\ commits'[n].by = r /\ commits'[n].on = coder[r].on
         /\ ~commits'[n].pushed /\ commits'[n].impl = "none" /\ commits'[n].holdout = "none"
         /\ commits'[n].security = "none" /\ commits'[n].devops = "none"
         /\ commits'[n].review = "none" /\ commits'[n].verdict = "none"
         /\ coder' = [coder EXCEPT ![r] = [at |-> "committed", on |-> n]]
         /\ tree' = IF OnLambda THEN n ELSE tree
<1>1. commits \in Seq(Commit) /\ Len(commits) \in Nat /\ coder[r].on \in Nat /\ world.defects \subseteq SUBSET Gates
  BY DEF Typed, Branches, Coders, Coder, World
<1>2. PICK d \in world.defects :
        commits' = Append(commits,
          [by |-> r, on |-> coder[r].on, defects |-> d, pushed |-> FALSE, impl |-> "none", holdout |-> "none",
           security |-> "none", devops |-> "none", acked |-> FALSE, review |-> "none", known |-> 0,
           verdict |-> "none"])
  BY DEF CoderCommits
<1>3. PICK e : e =
          [by |-> r, on |-> coder[r].on, defects |-> d, pushed |-> FALSE, impl |-> "none", holdout |-> "none",
           security |-> "none", devops |-> "none", acked |-> FALSE, review |-> "none", known |-> 0,
           verdict |-> "none"]
  OBVIOUS
<1>4. e \in Commit
  BY <1>1, <1>3 DEF Commit
<1>5. commits' = Append(commits, e)
  BY <1>2, <1>3
<1>6. /\ commits' \in Seq(Commit) /\ Len(commits') = Len(commits) + 1
      /\ \A c \in 1..Len(commits) : commits'[c] = commits[c]
      /\ commits'[Len(commits) + 1] = e
  BY <1>1, <1>4, <1>5, AppendProperties
<1>7. /\ coder' = [coder EXCEPT ![r] = [at |-> "committed", on |-> Len(commits')]]
      /\ tree' = IF OnLambda THEN Len(commits') ELSE tree
  BY DEF CoderCommits
<1>. QED
  BY <1>1, <1>3, <1>6, <1>7 DEF Commits

\* What a commit is never changes, and nothing posted on it is withdrawn.
Kept(c) ==
  /\ commits'[c].by = commits[c].by /\ commits'[c].on = commits[c].on
  /\ commits'[c].defects = commits[c].defects
  /\ commits[c].pushed => commits'[c].pushed
  /\ commits[c].security # "none" => commits'[c].security # "none"
  /\ commits[c].devops # "none" => commits'[c].devops # "none"
  /\ commits[c].review # "none" =>
       commits'[c].review = commits[c].review /\ commits'[c].known = commits[c].known

\* A post on one commit keeps all, unless it replaces a review.
LEMMA PostKeeps ==
  ASSUME commits \in Seq(Commit), NEW c \in Commits, NEW F, Posts(c, F),
         \/ F \subseteq {"acked", "holdout", "verdict", "impl"}
         \/ F = {"pushed"} /\ commits'[c].pushed
         \/ F = {"security"} /\ commits'[c].security # "none"
         \/ F = {"devops"} /\ commits'[c].devops # "none"
         \/ F = {"review", "known"} /\ commits[c].review = "none"
  PROVE  \A d \in Commits : Kept(d)
<1>1. ASSUME NEW d \in Commits, d # c PROVE Kept(d)
  BY <1>1 DEF Posts, Kept, Commits
<1>2. Kept(c)
  BY DEF Posts, Kept, Fields
<1>. QED
  BY <1>1, <1>2

\* No step of anybody takes back a commit or what is posted on it.
LEMMA CommitsKept ==
  ASSUME Typed, [Next]_factoryVars
  PROVE  /\ commits' \in Seq(Commit) /\ Len(commits) \in Nat /\ Len(commits') \in Nat
         /\ Len(commits) <= Len(commits')
         /\ \A c \in Commits : Kept(c)
<1>1. commits \in Seq(Commit) /\ Len(commits) \in Nat
  BY DEF Typed, Branches
<1>2. CASE UNCHANGED commits
  BY <1>1, <1>2 DEF Kept
<1>3. ASSUME NEW c \in Commits, NEW F, Posts(c, F), \A d \in Commits : Kept(d)
      PROVE  /\ commits' \in Seq(Commit) /\ Len(commits') \in Nat /\ Len(commits) <= Len(commits')
             /\ \A d \in Commits : Kept(d)
  BY <1>1, <1>3 DEF Posts
<1>4. ASSUME NEW r \in Runs, RunStep(r)
      PROVE  UNCHANGED commits \/ \E c \in Commits : \E F : Posts(c, F) /\ \A d \in Commits : Kept(d)
  <2>1. CASE UNCHANGED commits
    BY <2>1
  <2>2. ASSUME NEW c \in Commits, NEW F, Posts(c, F),
               F \in {{"holdout"}, {"verdict"}} \/ (F = {"security"} /\ commits'[c].security # "none")
        PROVE  \A d \in Commits : Kept(d)
    BY <1>1, <2>2, PostKeeps
  <2>. QED
    BY <1>4, <2>1, <2>2, RunPosts
<1>5. ASSUME NEW c \in Commits, BotStep(c)
      PROVE  \E F : Posts(c, F) /\ \A d \in Commits : Kept(d)
  <2>1. CASE BotAcks(c)
    BY <1>1, <2>1, AckPosts, PostKeeps DEF Commits
  <2>2. CASE BotReviews(c)
    <3>1. Posts(c, {"review", "known"}) /\ commits[c].review = "none"
      BY <1>1, <2>2, ReviewPosts DEF Commits, BotReviews
    <3>. QED
      BY <1>1, <3>1, PostKeeps
  <2>3. CASE BotChecks(c)
    <3>1. Posts(c, {"devops"}) /\ commits'[c].devops # "none"
      BY <1>1, <2>3, CheckPosts DEF Commits, Grade
    <3>. QED
      BY <1>1, <3>1, PostKeeps
  <2>. QED
    BY <1>5, <2>1, <2>2, <2>3 DEF BotStep
<1>6. ASSUME NEW r \in Runs, CoderStep(r), ~CoderCommits(r)
      PROVE  UNCHANGED commits \/ \E c \in Commits : \E F : Posts(c, F) /\ \A d \in Commits : Kept(d)
  <2>1. coder[r].at \in {"committed", "pushed", "opened"} => coder[r].on \in Commits
    BY DEF Typed, Branches, Coders, Coder, Commits
  <2>2. CASE CoderPushes(r)
    <3>1. Posts(coder[r].on, {"pushed"}) /\ commits'[coder[r].on].pushed /\ coder[r].on \in Commits
      BY <1>1, <2>1, <2>2, PushPosts DEF CoderPushes, Commits
    <3>. QED
      BY <1>1, <3>1, PostKeeps
  <2>3. CASE CoderReports(r)
    <3>1. Posts(coder[r].on, {"impl"}) /\ coder[r].on \in Commits
      BY <1>1, <2>1, <2>3, ImplPosts DEF CoderReports, Commits
    <3>. QED
      BY <1>1, <3>1, PostKeeps
  <2>4. CASE CoderFails(r) /\ coder[r].at \in {"pushed", "opened"}
    <3>1. Posts(coder[r].on, {"impl"}) /\ coder[r].on \in Commits
      BY <1>1, <2>1, <2>4, ImplPosts DEF CoderFails, Commits
    <3>. QED
      BY <1>1, <3>1, PostKeeps
  <2>5. CASE CoderOpens(r) \/ CoderIsSatisfied(r) \/ (CoderFails(r) /\ coder[r].at \notin {"pushed", "opened"})
    BY <2>5 DEF CoderOpens, CoderIsSatisfied, CoderFails
  <2>. QED
    BY <1>6, <2>2, <2>3, <2>4, <2>5 DEF CoderStep
<1>7. ASSUME NEW r \in Runs, CoderCommits(r)
      PROVE  /\ commits' \in Seq(Commit) /\ Len(commits') \in Nat /\ Len(commits) <= Len(commits')
             /\ \A d \in Commits : Kept(d)
  BY <1>1, <1>7, Committing DEF Kept
<1>. QED
  BY <1>1, <1>2, <1>3, <1>4, <1>5, <1>6, <1>7, Participants, RoundFrame, MergeFrame DEF factoryVars, Commits

-----------------------------------------------------------------------------
(***************************************************************************)
(* Types are kept, a variable at a time.                                   *)
(***************************************************************************)

\* There are never fewer commits, so what names one goes on to.
LEMMA Grown ==
  ASSUME Typed, [Next]_factoryVars
  PROVE  /\ Commits \subseteq Commits' /\ 0..Len(commits) \subseteq (0..Len(commits))'
         /\ Workflow \subseteq Workflow' /\ Coder \subseteq Coder'
<1>1. Commits \subseteq Commits' /\ 0..Len(commits) \subseteq (0..Len(commits))'
  BY CommitsKept DEF Commits
<1>. QED
  BY <1>1 DEF Workflow, Coder

\* Commits, the head and the checkout.
LEMMA BranchesKept ==
  ASSUME Typed, [Next]_factoryVars
  PROVE  Branches'
<1>1. Commits \subseteq Commits' /\ 0..Len(commits) \subseteq (0..Len(commits))' /\ commits' \in Seq(Commit)
  BY Grown, CommitsKept
<1>2. Ordered'
  <2>1. ASSUME NEW c \in Commits PROVE commits'[c].on \in 0..(c - 1)
    BY <2>1, CommitsKept DEF Kept, Typed, Branches, Ordered, Commits
  <2>2. ASSUME NEW r \in Runs, CoderCommits(r)
        PROVE  Ordered'
    <3>1. coder[r].on \in 0..Len(commits)
      BY DEF Typed, Coders, Coder
    <3>. QED
      BY <2>1, <2>2, <3>1, Committing DEF Ordered, Commits
  <2>3. CASE ~\E r \in Runs : CoderCommits(r)
    <3>1. Len(commits') = Len(commits)
      <4>1. ASSUME NEW r \in Runs, CoderStep(r) PROVE Len(commits') = Len(commits)
        <5>1. /\ commits \in Seq(Commit)
              /\ coder[r].at \in {"committed", "pushed", "opened"} => coder[r].on \in 1..Len(commits)
          BY DEF Typed, Branches, Coders, Coder
        <5>2. CASE CoderPushes(r)
          BY <5>1, <5>2, PushPosts DEF CoderPushes, Posts
        <5>3. CASE CoderReports(r)
          BY <5>1, <5>3, ImplPosts DEF CoderReports, Posts
        <5>4. CASE CoderFails(r)
          BY <5>1, <5>4, ImplPosts DEF CoderFails, Posts
        <5>5. CASE CoderOpens(r) \/ CoderIsSatisfied(r)
          BY <5>5 DEF CoderOpens, CoderIsSatisfied
        <5>. QED
          BY <2>3, <4>1, <5>2, <5>3, <5>4, <5>5 DEF CoderStep
      <4>. QED
        BY <4>1, Participants, OthersPost DEF OtherStep
    <3>. QED
      BY <2>1, <3>1 DEF Ordered, Commits
  <2>. QED
    BY <2>2, <2>3
<1>3. ASSUME NEW r \in Runs, RunStep(r)
      PROVE  Branches'
  <2>1. CASE Drive(r)
    <3>1. coder' \in [Runs -> Coder] /\ coder'[r].on \in 0..Len(commits)
      BY <2>1 DEF Typed, Branches, Coders, Coder, Drive, Starts, Posted, Recreated, Base, InVm
    <3>2. tree' \in 0..Len(commits)
      BY <2>1, <3>1 DEF Drive, Typed, Branches
    <3>. QED
      BY <1>1, <1>2, <1>3, <3>2, RunFrame DEF Typed, Branches
  <2>2. CASE ~Drive(r)
    <3>1. UNCHANGED tree
      BY <1>3, <2>2 DEF RunStep, Acquire, ReadStart, AwaitSucceeds, AwaitFails, StepFails, HoldoutClones,
           HoldoutPosts, SecurityStarts, SecurityMirrors, SecurityGivesUp, DevopsReports, PostStatus, Complete
    <3>. QED
      BY <1>1, <1>2, <1>3, <3>1, RunFrame DEF Typed, Branches
  <2>. QED
    BY <2>1, <2>2
<1>4. ASSUME NEW r \in Runs, CoderStep(r)
      PROVE  Branches'
  <2>1. /\ coder[r].on \in 0..Len(commits) /\ (coder[r].at = "committed" => coder[r].on # 0)
        /\ coder[r].at = "pushed" => head # 0
    BY DEF Typed, Coders, Coder
  <2>2. CASE CoderCommits(r)
    BY <1>1, <1>2, <1>4, <2>2, Committing, CoderFrame DEF Typed, Branches, CoderCommits
  <2>3. CASE CoderPushes(r)
    BY <1>1, <1>2, <1>4, <2>1, <2>3, CoderFrame DEF Typed, Branches, CoderPushes
  <2>4. CASE CoderOpens(r)
    BY <1>1, <1>2, <1>4, <2>1, <2>4, CoderFrame DEF Typed, Branches, CoderOpens
  <2>5. CASE CoderReports(r) \/ CoderFails(r) \/ CoderIsSatisfied(r)
    BY <1>1, <1>2, <1>4, <2>5, CoderFrame DEF Typed, Branches, CoderReports, CoderFails, CoderIsSatisfied
  <2>. QED
    BY <1>4, <2>2, <2>3, <2>4, <2>5 DEF CoderStep
<1>5. ASSUME NEW c \in Commits, BotStep(c)
      PROVE  Branches'
  <2>1. timely' \subseteq Commits
    BY <1>5 DEF BotStep, BotAcks, BotReviews, BotChecks, Typed, Branches
  <2>. QED
    BY <1>1, <1>2, <1>5, <2>1, BotFrame DEF Typed, Branches
<1>6. CASE Approve \/ MergeStep
  <2>1. /\ pr' = pr \/ (pr' = "merged" /\ merge.at = "gated")
        /\ tree' = tree \/ tree' = 0
    BY <1>6 DEF Approve, MergeStep, MergeReads, MergePasses, MergeRefuses, MergePuts
  <2>2. pr' # "none" => head # 0
    BY <2>1 DEF Typed, Branches, Merging
  <2>. QED
    BY <1>1, <1>2, <1>6, <2>1, <2>2, MergeFrame DEF Typed, Branches
<1>7. CASE (\E v \in Comments : Comment(v) \/ Revise(v)) \/ UNCHANGED factoryVars
  BY <1>1, <1>2, <1>7, RoundFrame DEF Typed, Branches, factoryVars
<1>. QED
  BY <1>3, <1>4, <1>5, <1>6, <1>7, Participants DEF Commits

\* What a run has read of the head names a commit.
LEMMA WorkflowsKept ==
  ASSUME Typed, [Next]_factoryVars
  PROVE  wf' \in [Runs -> Workflow']
<1>1. wf \in [Runs -> Workflow] /\ Workflow \subseteq Workflow' /\ head \in 0..Len(commits) /\ Len(commits) \in Nat
  BY Grown DEF Typed, Branches
<1>2. SUFFICES wf' \in [Runs -> Workflow]
  BY <1>1
<1>3. NoRun \in Workflow /\ Ended \in Workflow
  BY <1>1 DEF NoRun, Ended, Workflow
<1>4. ASSUME NEW r \in Runs, RunStep(r)
      PROVE  wf' \in [Runs -> Workflow]
  <2>1. wf[r] \in Workflow
    BY <1>1
  <2>2. CASE Acquire(r)
    BY <1>1, <1>3, <2>1, <2>2 DEF Acquire, Workflow
  <2>3. CASE Drive(r)
    BY <1>1, <2>1, <2>3 DEF Drive, Workflow
  <2>4. CASE ReadStart(r)
    BY <1>1, <2>1, <2>4 DEF ReadStart, Workflow
  <2>5. CASE AwaitSucceeds(r)
    <3>1. PICK x : x = [NoRun EXCEPT !.at = "fan", !.sha = head, !.todo = Gates]
      OBVIOUS
    <3>2. x \in Workflow
      BY <1>1, <1>3, <3>1 DEF Workflow
    <3>3. wf' = [wf EXCEPT ![r] = x]
      BY <2>5, <3>1 DEF AwaitSucceeds
    <3>. QED
      BY <1>1, <3>2, <3>3
  <2>6. CASE AwaitFails(r) \/ StepFails(r) \/ Complete(r)
    BY <1>1, <1>3, <2>6 DEF AwaitFails, StepFails, Complete, Ends
  <2>7. CASE HoldoutClones(r) \/ SecurityStarts(r)
    <3>1. CASE HoldoutClones(r)
      BY <1>1, <2>1, <3>1 DEF HoldoutClones, Workflow
    <3>2. CASE SecurityStarts(r)
      BY <1>1, <2>1, <3>2 DEF SecurityStarts, Workflow
    <3>. QED
      BY <2>7, <3>1, <3>2
  <2>8. CASE HoldoutPosts(r)
    BY <1>1, <2>1, <2>8 DEF HoldoutPosts, Done, Workflow
  <2>9. CASE SecurityMirrors(r) \/ SecurityGivesUp(r)
    BY <1>1, <2>1, <2>9 DEF SecurityMirrors, SecurityGivesUp, Done, Workflow
  <2>10. CASE DevopsReports(r)
    BY <1>1, <2>1, <2>10 DEF DevopsReports, Done, Workflow
  <2>11. CASE PostStatus(r)
    BY <1>1, <2>1, <2>11 DEF PostStatus, Workflow
  <2>. QED
    BY <1>4, <2>2, <2>3, <2>4, <2>5, <2>6, <2>7, <2>8, <2>9, <2>10, <2>11 DEF RunStep
<1>5. ASSUME NEW v \in Comments, Comment(v) \/ Revise(v)
      PROVE  wf' \in [Runs -> Workflow]
  <2>1. CASE Submit(v)
    <3>1. reviser[v].next \in Runs
      BY DEF Typed, Revisers, Reviser, Runs
    <3>2. CASE wf' = wf
      BY <1>1, <3>2
    <3>3. CASE wf' = [wf EXCEPT ![reviser[v].next].at = "queued"]
      BY <1>1, <3>1, <3>3 DEF Workflow
    <3>. QED
      BY <2>1, <3>2, <3>3 DEF Submit
  <2>2. CASE ~Submit(v)
    BY <1>1, <1>5, <2>2 DEF Comment, Revise, ReadCount, ClearCount, WriteCount
  <2>. QED
    BY <2>1, <2>2
<1>. QED
  BY <1>1, <1>4, <1>5, Participants, CoderFrame, BotFrame, MergeFrame DEF factoryVars

\* A run's step starts its coder, takes the VM from another's, or ends with its own.
LEMMA RunCoder ==
  ASSUME Typed, NEW r \in Runs, RunStep(r)
  PROVE  /\ coder' \in [Runs -> Coder]
         /\ \A q \in Runs : \/ coder'[q] = coder[q]
                            \/ Alive(q) /\ coder'[q].at = "gone"
                            \/ q = r /\ Drive(r) /\ coder'[r].at = "working"
<1>1. coder \in [Runs -> Coder] /\ head \in 0..Len(commits) /\ tree \in 0..Len(commits)
  BY DEF Typed, Coders, Branches
<1>2. CASE Drive(r)
  BY <1>1, <1>2 DEF Drive, Starts, Posted, Recreated, Base, Coder, InVm
<1>3. CASE AwaitFails(r) \/ StepFails(r) \/ Complete(r)
  BY <1>1, <1>3 DEF AwaitFails, StepFails, Complete, Ends, Released, Coder
<1>4. CASE UNCHANGED coder
  BY <1>1, <1>4
<1>. QED
  BY <1>2, <1>3, <1>4 DEF RunStep, Acquire, ReadStart, AwaitSucceeds, HoldoutClones, HoldoutPosts,
       SecurityStarts, SecurityMirrors, SecurityGivesUp, DevopsReports, PostStatus

\* What a coder builds on, and what it has made, is a commit.
LEMMA CodersKept ==
  ASSUME Typed, [Next]_factoryVars
  PROVE  Coders'
<1>1. /\ coder \in [Runs -> Coder] /\ Coder \subseteq Coder' /\ Len(commits) \in Nat /\ 0..Len(commits) \subseteq (0..Len(commits))'
      /\ \A r \in Runs : /\ coder[r].at \in {"committed", "pushed", "opened"} => coder[r].on # 0
                         /\ coder[r].at \in {"pushed", "opened"} => head # 0
  BY Grown DEF Typed, Branches, Coders
<1>2. CASE UNCHANGED <<coder, head>>
  BY <1>1, <1>2 DEF Coders
<1>3. ASSUME NEW r \in Runs, RunStep(r)
      PROVE  Coders'
  BY <1>1, <1>3, RunCoder, RunFrame DEF Coders
<1>4. ASSUME NEW r \in Runs, CoderStep(r)
      PROVE  Coders'
  <2>1. CASE CoderCommits(r)
    <3>1. Len(commits') = Len(commits) + 1 /\ coder' = [coder EXCEPT ![r] = [at |-> "committed", on |-> Len(commits) + 1]]
      BY <2>1, Committing
    <3>2. UNCHANGED head
      BY <2>1 DEF CoderCommits
    <3>3. [at |-> "committed", on |-> Len(commits) + 1] \in Coder'
      BY <1>1, <3>1 DEF Coder
    <3>. QED
      BY <1>1, <3>1, <3>2, <3>3 DEF Coders
  <2>2. CASE CoderPushes(r)
    BY <1>1, <2>2 DEF CoderPushes, Coders, Coder
  <2>3. CASE CoderOpens(r) \/ CoderReports(r) \/ CoderFails(r)
    <3>1. CASE CoderOpens(r)
      BY <1>1, <3>1 DEF CoderOpens, Coders, Coder
    <3>2. CASE coder' = [coder EXCEPT ![r].at = "gone"] /\ UNCHANGED head
      BY <1>1, <3>2 DEF Coders, Coder
    <3>. QED
      BY <2>3, <3>1, <3>2 DEF CoderReports, CoderFails
  <2>4. CASE CoderIsSatisfied(r)
    BY <1>1, <2>4 DEF CoderIsSatisfied, Coders, Coder
  <2>. QED
    BY <1>4, <2>1, <2>2, <2>3, <2>4 DEF CoderStep
<1>5. CASE Approve \/ MergeStep
  <2>1. CASE MergePuts
    BY <1>1, <2>1 DEF MergePuts, Coders, Coder
  <2>2. CASE ~MergePuts
    BY <1>2, <1>5, <2>2 DEF Approve, MergeStep, MergeReads, MergePasses, MergeRefuses
  <2>. QED
    BY <2>1, <2>2
<1>. QED
  BY <1>2, <1>3, <1>4, <1>5, Participants, BotFrame, RoundFrame DEF factoryVars

\* The number of the next round is within the cap.
LEMMA RevisersKept ==
  ASSUME Typed, [Next]_factoryVars
  PROVE  Revisers'
<1>1. /\ reviser \in [Comments -> Reviser] /\ labels \subseteq 1..MaxIterations /\ Comments' = Comments
      /\ \A v \in Comments : reviser[v].at \in {"read", "cleared", "labelled"} => reviser[v].next # 0
  BY WorldFrame DEF Typed, Revisers
<1>2. CASE UNCHANGED <<reviser, labels>>
  BY <1>1, <1>2 DEF Revisers
<1>3. ASSUME NEW v \in Comments, Comment(v) \/ Revise(v)
      PROVE  Revisers'
  <2>1. CASE Comment(v)
    BY <1>1, <2>1 DEF Comment, Revisers, Reviser
  <2>2. CASE ReadCount(v)
    <3>1. Count(labels) \in 0..MaxIterations /\ MaxIterations \in Nat
      BY <1>1, Counted
    <3>2. PICK x : x = IF Count(labels) >= MaxIterations \/ pr # "open" THEN [Idle EXCEPT !.at = "done"]
                       ELSE [at |-> "read", cur |-> labels, next |-> Count(labels) + 1]
      OBVIOUS
    <3>3. x \in Reviser /\ (x.at \in {"read", "cleared", "labelled"} => x.next # 0)
      BY <1>1, <3>1, <3>2 DEF Reviser, Idle
    <3>4. reviser' = [reviser EXCEPT ![v] = x] /\ UNCHANGED labels
      BY <2>2, <3>2 DEF ReadCount
    <3>. QED
      BY <1>1, <3>3, <3>4 DEF Revisers
  <2>3. CASE ClearCount(v)
    BY <1>1, <2>3 DEF ClearCount, Revisers, Reviser
  <2>4. CASE WriteCount(v)
    <3>1. reviser[v].next \in 1..MaxIterations
      BY <1>1, <2>4 DEF WriteCount, Reviser
    <3>. QED
      BY <1>1, <2>4, <3>1 DEF WriteCount, Revisers, Reviser
  <2>5. CASE Submit(v)
    BY <1>1, <2>5 DEF Submit, Revisers, Reviser, Idle
  <2>. QED
    BY <1>3, <2>1, <2>2, <2>3, <2>4, <2>5 DEF Revise
<1>. QED
  BY <1>2, <1>3, Participants, RunFrame, CoderFrame, BotFrame, MergeFrame DEF factoryVars

\* What has been approved and what the gate has read is a commit.
LEMMA MergingKept ==
  ASSUME Typed, [Next]_factoryVars
  PROVE  Merging'
<1>1. /\ Merging /\ Commits \subseteq Commits' /\ 0..Len(commits) \subseteq (0..Len(commits))'
      /\ head \in 0..Len(commits) /\ (pr # "none" => head # 0) /\ Len(commits) \in Nat /\ pr \in {"none", "open", "merged"}
  BY Grown DEF Typed, Branches
<1>2. ASSUME UNCHANGED <<approved, answered, merge, merged>>, pr' = "none" => pr = "none"
      PROVE  Merging'
  BY <1>1, <1>2 DEF Merging
<1>3. CASE Approve
  BY <1>1, <1>3 DEF Approve, Merging, Commits
<1>4. ASSUME NEW h \in approved, MergeReads(h)
      PROVE  Merging'
  BY <1>1, <1>4 DEF MergeReads, Merging, Commits
<1>5. CASE MergePasses
  BY <1>1, <1>5 DEF MergePasses, Merging
<1>6. CASE MergeRefuses
  BY <1>1, <1>6 DEF MergeRefuses, Merging, NoMerge
<1>7. CASE MergePuts
  BY <1>1, <1>7 DEF MergePuts, Merging, NoMerge
<1>8. ASSUME NEW r \in Runs, CoderStep(r)
      PROVE  pr' = "none" => pr = "none"
  BY <1>8 DEF CoderStep, CoderCommits, CoderPushes, CoderOpens, CoderReports, CoderFails, CoderIsSatisfied
<1>. QED
  BY <1>2, <1>3, <1>4, <1>5, <1>6, <1>7, <1>8, Participants, RunFrame, CoderFrame, BotFrame, RoundFrame
  DEF MergeStep, factoryVars

LEMMA NextTyped ==
  ASSUME Typed, [Next]_factoryVars
  PROVE  Typed'
<1>1. world' \in Worlds
  BY WorldFrame DEF Typed
<1>. QED
  BY <1>1, BranchesKept, WorkflowsKept, CodersKept, RevisersKept, MergingKept DEF Typed

\* Whatever names a commit names one that exists, through every push, retry and merge.
THEOREM TypeCorrect == Spec => []TypeOK
<1>1. Typed /\ [Next]_factoryVars => Typed'
  BY NextTyped
<1>. QED
  BY <1>1, InitTyped, TypedIsTypeOK, PTL DEF Spec

-----------------------------------------------------------------------------
(***************************************************************************)
(* Who runs and who writes.  Control is inductive with Typed.              *)
(***************************************************************************)

Control ==
  /\ \A q, r \in Runs : Running(q) /\ Running(r) /\ MutexKey(q) = MutexKey(r) => q = r
  /\ \A r \in Runs : wf[r].at \in {"none", "queued", "started"} => coder[r].at = "none"
  /\ \A r \in Fixes : wf[r].at # "none" => pr # "none"
  /\ \A v \in Comments : reviser[v].at # "none" => pr # "none"
  /\ pr # "none" => coder[First].at \notin {"none", "working", "committed", "pushed"}
  /\ coder[First].at \in {"none", "working", "committed"} => head = 0
  /\ ~OnLambda => \A r \in Runs : Alive(r) => Running(r)
  /\ OnLambda => \A q, r \in Runs : Alive(q) /\ Alive(r) => q = r
  /\ pr = "merged" => \A r \in Runs : ~Alive(r)

\* A run's step is of a run that has the mutex, or takes it.
LEMMA RunStage ==
  ASSUME Typed, NEW r \in Runs, RunStep(r)
  PROVE  /\ \A q \in Runs : q # r => wf'[q] = wf[q]
         /\ \/ Running(r) /\ wf'[r].at \notin {"none", "queued", "started"}
            \/ /\ wf[r].at = "queued" /\ wf'[r].at \in {"started", "ended"} /\ UNCHANGED coder
               /\ \A q \in Runs : Running(q) => MutexKey(q) # MutexKey(r)
         /\ Drive(r) => wf[r].at = "started" /\ pr # "merged"
         /\ wf'[r].at = "ended" => Acquire(r) \/ coder' = Released(r)
<1>1. wf \in [Runs -> Workflow] /\ wf[r] \in Workflow
  BY DEF Typed
<1>2. CASE Acquire(r)
  BY <1>1, <1>2 DEF Acquire, Ended, NoRun, Drive, Workflow
<1>3. CASE Drive(r) \/ ReadStart(r) \/ PostStatus(r)
  BY <1>1, <1>3 DEF Drive, ReadStart, PostStatus, Running, Workflow
<1>4. CASE AwaitSucceeds(r)
  BY <1>1, <1>4 DEF AwaitSucceeds, SeesNewHead, NoRun, Running, Drive, Workflow
<1>5. CASE AwaitFails(r) \/ StepFails(r) \/ Complete(r)
  BY <1>1, <1>5 DEF AwaitFails, StepFails, Complete, Ends, SeesNewHead, Ended, NoRun, Running, Drive, Workflow
<1>6. CASE HoldoutClones(r) \/ SecurityStarts(r)
  BY <1>1, <1>6 DEF HoldoutClones, SecurityStarts, Verifying, Running, Drive, Workflow
<1>7. CASE HoldoutPosts(r) \/ SecurityMirrors(r) \/ SecurityGivesUp(r) \/ DevopsReports(r)
  BY <1>1, <1>7 DEF HoldoutPosts, SecurityMirrors, SecurityGivesUp, DevopsReports, Verifying, Done, Running,
       Drive, Workflow
<1>. QED
  BY <1>2, <1>3, <1>4, <1>5, <1>6, <1>7 DEF RunStep

\* A coder's step is one further on its way.
LEMMA CoderStage ==
  ASSUME Typed, NEW r \in Runs, CoderStep(r)
  PROVE  /\ \A q \in Runs : q # r => coder'[q] = coder[q]
         /\ Alive(r)
         /\ coder[r].at = "working" => coder'[r].at \in {"committed", "satisfied", "gone"}
         /\ coder[r].at = "committed" => coder'[r].at \in {"pushed", "gone"}
         /\ coder[r].at = "pushed" => coder'[r].at \in {"opened", "gone"}
         /\ coder[r].at = "opened" => coder'[r].at = "gone"
<1>1. coder \in [Runs -> Coder] /\ coder[r] \in Coder
  BY DEF Typed, Coders
<1>2. CASE CoderCommits(r)
  BY <1>1, <1>2, Committing DEF CoderCommits, Alive
<1>3. CASE CoderPushes(r)
  BY <1>1, <1>3 DEF CoderPushes, Alive, Coder
<1>4. CASE CoderOpens(r)
  BY <1>1, <1>4 DEF CoderOpens, Alive, Coder
<1>5. CASE CoderReports(r)
  BY <1>1, <1>5 DEF CoderReports, Alive, Coder
<1>6. CASE CoderFails(r)
  BY <1>1, <1>6 DEF CoderFails, Alive, Coder
<1>7. CASE CoderIsSatisfied(r)
  BY <1>1, <1>7 DEF CoderIsSatisfied, Alive, Coder
<1>. QED
  BY <1>2, <1>3, <1>4, <1>5, <1>6, <1>7 DEF CoderStep

\* A comment's step leaves the workflows alone, or submits one of a name nobody has used.
LEMMA RoundStage ==
  ASSUME Typed, NEW v \in Comments, Comment(v) \/ Revise(v)
  PROVE  /\ \A u \in Comments : u # v => reviser'[u] = reviser[u]
         /\ reviser[v].at = "none" => pr # "none"
         /\ \/ UNCHANGED wf
            \/ \E n \in Fixes : /\ wf[n].at = "none" /\ wf'[n] = [wf[n] EXCEPT !.at = "queued"]
                                /\ \A q \in Runs : q # n => wf'[q] = wf[q]
                                /\ reviser[v].at # "none"
<1>1. /\ reviser \in [Comments -> Reviser] /\ wf \in [Runs -> Workflow]
      /\ reviser[v].at \in {"read", "cleared", "labelled"} => reviser[v].next # 0
  BY DEF Typed, Revisers
<1>2. CASE Submit(v)
  <2>1. reviser[v].next \in Fixes
    BY <1>1, <1>2 DEF Submit, Reviser, Runs, Fixes, First
  <2>. QED
    BY <1>1, <1>2, <2>1 DEF Submit, Reviser, Workflow, Fixes
<1>3. CASE Comment(v) \/ ReadCount(v) \/ ClearCount(v) \/ WriteCount(v)
  BY <1>1, <1>3 DEF Comment, ReadCount, ClearCount, WriteCount, Reviser
<1>. QED
  BY <1>2, <1>3 DEF Revise

\* Merging ends every coder, and happens to a pull request only.
LEMMA MergeCoder ==
  ASSUME Typed, Approve \/ MergeStep
  PROVE  /\ coder' \in [Runs -> Coder]
         /\ \A q \in Runs : coder'[q] = coder[q] \/ (Alive(q) /\ coder'[q].at = "gone")
         /\ pr' = pr \/ (pr # "none" /\ pr' = "merged" /\ \A q \in Runs : ~Alive(q)')
<1>1. coder \in [Runs -> Coder] /\ (merge.at # "none" => pr # "none")
  BY DEF Typed, Coders, Merging
<1>2. CASE MergePuts
  BY <1>1, <1>2 DEF MergePuts, Alive, Coder
<1>3. CASE ~MergePuts
  BY <1>1, <1>3 DEF Approve, MergeStep, MergeReads, MergePasses, MergeRefuses
<1>. QED
  BY <1>2, <1>3

LEMMA InitControl == Init => Control
<1>. SUFFICES ASSUME Init PROVE Control
  OBVIOUS
<1>1. \A r \in Runs : wf[r].at \in {"none", "queued"} /\ coder[r].at = "none"
  BY DEF Init, NoRun
<1>2. \A r \in Fixes : wf[r].at = "none"
  BY DEF Init, NoRun, Fixes
<1>3. First \in Runs
  BY DEF First, Runs
<1>. QED
  BY <1>1, <1>2, <1>3 DEF Init, Control, Idle, Running, Alive

\* A run acquires the mutex before it drives a coder, and takes it along when it ends on Kata.
LEMMA RunKeepsControl ==
  ASSUME Typed, Control, NEW r \in Runs, RunStep(r)
  PROVE  Control'
<1>1. /\ UNCHANGED <<pr, head, reviser>> /\ (OnLambda' <=> OnLambda) /\ Comments' = Comments
      /\ \A q \in Runs : MutexKey(q)' = MutexKey(q)
      /\ First \in Runs
  BY RunFrame DEF OnLambda, Comments, MutexKey, First, Runs
<1>2. /\ \A q \in Runs : q # r => wf'[q] = wf[q]
      /\ \/ Running(r) /\ wf'[r].at \notin {"none", "queued", "started"}
         \/ /\ wf[r].at = "queued" /\ wf'[r].at \in {"started", "ended"} /\ UNCHANGED coder
            /\ \A q \in Runs : Running(q) => MutexKey(q) # MutexKey(r)
      /\ Drive(r) => wf[r].at = "started" /\ pr # "merged"
      /\ wf'[r].at = "ended" => Acquire(r) \/ coder' = Released(r)
  BY RunStage
<1>3. \A q \in Runs : coder'[q] = coder[q] \/ (Alive(q) /\ coder'[q].at = "gone")
                      \/ (q = r /\ Drive(r) /\ coder'[r].at = "working")
  BY RunCoder
<1>4. coder \in [Runs -> Coder]
  BY DEF Typed, Coders
<1>5. ASSUME NEW p \in Runs, NEW q \in Runs, Running(p)', Running(q)', MutexKey(p) = MutexKey(q)
      PROVE  p = q
  BY <1>2, <1>5 DEF Control, Running
<1>6. ASSUME NEW q \in Runs, wf'[q].at \in {"none", "queued", "started"}
      PROVE  coder'[q].at = "none"
  BY <1>2, <1>3, <1>6 DEF Control, Running, Alive
<1>7. ASSUME NEW q \in Fixes, wf'[q].at # "none"
      PROVE  pr # "none"
  BY <1>2, <1>7 DEF Control, Running, Fixes
<1>8. /\ pr # "none" => coder'[First].at \notin {"none", "working", "committed", "pushed"}
      /\ coder'[First].at \in {"none", "working", "committed"} => head = 0
  BY <1>1, <1>2, <1>3 DEF Control
<1>9. ASSUME ~OnLambda, NEW q \in Runs, Alive(q)'
      PROVE  Running(q)'
  <2>1. Acquire(r) => coder[r].at = "none" /\ UNCHANGED coder
    BY DEF Acquire, Control
  <2>2. coder' = Released(r) => ~Alive(r)'
    BY <1>4, <1>9 DEF Released, Alive
  <2>. QED
    BY <1>2, <1>3, <1>9, <2>1, <2>2 DEF Control, Running, Alive
<1>10. ASSUME OnLambda, NEW p \in Runs, NEW q \in Runs, Alive(p)', Alive(q)'
       PROVE  p = q
  <2>1. CASE Drive(r) /\ coder' # coder
    <3>1. \A u \in Runs : u # r => ~Alive(u)'
      <4>1. coder' = Posted(r) \/ coder' = Recreated(r)
        BY <1>10, <2>1 DEF Drive
      <4>2. CASE coder' = Posted(r)
        BY <1>4, <1>10, <2>1, <4>2 DEF Posted, Starts, InVm, Alive
      <4>3. CASE coder' = Recreated(r)
        BY <1>4, <1>10, <4>3 DEF Recreated, InVm, Alive
      <4>. QED
        BY <4>1, <4>2, <4>3
    <3>. QED
      BY <1>10, <3>1
  <2>2. CASE ~Drive(r) \/ coder' = coder
    <3>1. \A u \in Runs : coder'[u] = coder[u] \/ (Alive(u) /\ coder'[u].at = "gone")
      BY <1>3, <2>2
    <3>. QED
      BY <1>10, <3>1 DEF Control, Alive
  <2>. QED
    BY <2>1, <2>2
<1>11. ASSUME pr = "merged", NEW q \in Runs
       PROVE  ~Alive(q)'
  BY <1>2, <1>3, <1>11 DEF Control, Alive
<1>. QED
  BY <1>1, <1>5, <1>6, <1>7, <1>8, <1>9, <1>10, <1>11 DEF Control

\* A coder comes to no life, and opens the pull request only after its push.
LEMMA CoderKeepsControl ==
  ASSUME Typed, Control, NEW r \in Runs, CoderStep(r)
  PROVE  Control'
<1>1. /\ UNCHANGED <<wf, reviser>> /\ (OnLambda' <=> OnLambda) /\ Comments' = Comments
      /\ \A q \in Runs : (MutexKey(q)' = MutexKey(q)) /\ (Running(q)' <=> Running(q))
      /\ First \in Runs
  BY CoderFrame DEF OnLambda, Comments, MutexKey, Running, First, Runs
<1>2. /\ \A q \in Runs : q # r => coder'[q] = coder[q]
      /\ Alive(r)
      /\ coder[r].at = "working" => coder'[r].at \in {"committed", "satisfied", "gone"}
      /\ coder[r].at = "committed" => coder'[r].at \in {"pushed", "gone"}
      /\ coder[r].at = "pushed" => coder'[r].at \in {"opened", "gone"}
      /\ coder[r].at = "opened" => coder'[r].at = "gone"
  BY CoderStage
<1>3. coder[r].at \in {"working", "committed", "pushed", "opened"}
  BY <1>2 DEF Typed, Coders, Coder, Alive
<1>4. r # First => pr # "none"
  BY <1>3 DEF Control, Fixes
<1>5. pr' = pr \/ (pr' = "open" /\ pr = "none" /\ coder[r].at = "pushed" /\ coder'[r].at = "opened")
  <2>1. coder \in [Runs -> Coder]
    BY DEF Typed, Coders
  <2>. QED
    BY <2>1 DEF CoderStep, CoderCommits, CoderPushes, CoderOpens, CoderReports, CoderFails, CoderIsSatisfied, Coder
<1>6. head' = head \/ (coder[r].at = "committed" /\ coder'[r].at = "pushed")
  <2>1. coder \in [Runs -> Coder]
    BY DEF Typed, Coders
  <2>. QED
    BY <2>1 DEF CoderStep, CoderCommits, CoderPushes, CoderOpens, CoderReports, CoderFails, CoderIsSatisfied, Coder
<1>7. /\ pr' # "none" => coder'[First].at \notin {"none", "working", "committed", "pushed"}
      /\ coder'[First].at \in {"none", "working", "committed"} => head' = 0
  BY <1>1, <1>2, <1>3, <1>4, <1>5, <1>6 DEF Control
<1>8. \A q \in Runs : Alive(q)' => Alive(q)
  BY <1>2 DEF Alive
<1>9. \A q \in Runs : wf[q].at \in {"none", "queued", "started"} => coder'[q].at = "none"
  BY <1>2, <1>3 DEF Control
<1>10. (pr # "none" => pr' # "none") /\ (pr' = "merged" => pr = "merged")
  BY <1>5
<1>. QED
  BY <1>1, <1>7, <1>8, <1>9, <1>10 DEF Control

LEMMA NextControl ==
  ASSUME Typed, Control, [Next]_factoryVars
  PROVE  Control'
<1>1. /\ (OnLambda' <=> OnLambda) /\ Comments' = Comments /\ First \in Runs
      /\ \A q \in Runs : MutexKey(q)' = MutexKey(q)
  BY WorldFrame DEF MutexKey, First, Runs
<1>2. ASSUME UNCHANGED <<pr, head, wf, coder, reviser>>
      PROVE  Control'
  BY <1>1, <1>2 DEF Control, Running, Alive
<1>3. ASSUME NEW v \in Comments, Comment(v) \/ Revise(v)
      PROVE  Control'
  <2>1. UNCHANGED <<pr, head, coder>>
    BY <1>3, RoundFrame
  <2>2. \A q \in Runs : (Running(q)' <=> Running(q)) /\ (Alive(q)' <=> Alive(q))
    <3>1. \/ UNCHANGED wf
          \/ \E n \in Fixes : wf[n].at = "none" /\ wf'[n].at = "queued" /\ \A q \in Runs : q # n => wf'[q] = wf[q]
      BY <1>3, RoundStage DEF Typed, Workflow, Fixes
    <3>. QED
      BY <2>1, <3>1 DEF Running, Alive
  <2>3. \A q \in Runs : wf'[q].at \in {"none", "queued", "started"} => coder[q].at = "none"
    BY <1>3, RoundStage DEF Control
  <2>4. \A q \in Fixes : wf'[q].at # "none" => pr # "none"
    BY <1>3, RoundStage DEF Control, Fixes
  <2>5. \A u \in Comments : reviser'[u].at # "none" => pr # "none"
    BY <1>3, RoundStage DEF Control
  <2>. QED
    BY <1>1, <2>1, <2>2, <2>3, <2>4, <2>5 DEF Control
<1>4. CASE Approve \/ MergeStep
  <2>1. UNCHANGED <<wf, head, reviser>> /\ \A q \in Runs : Running(q)' <=> Running(q)
    BY <1>4, MergeFrame DEF Running
  <2>2. /\ \A q \in Runs : coder'[q] = coder[q] \/ (Alive(q) /\ coder'[q].at = "gone")
        /\ pr' = pr \/ (pr # "none" /\ pr' = "merged" /\ \A q \in Runs : ~Alive(q)')
    BY <1>4, MergeCoder
  <2>3. \A q \in Runs : (Alive(q)' => Alive(q)) /\ (coder'[q] = coder[q] \/ coder'[q].at = "gone")
    BY <2>2 DEF Alive
  <2>. QED
    BY <1>1, <2>1, <2>2, <2>3 DEF Control, Alive
<1>. QED
  BY <1>2, <1>3, <1>4, Participants, RunKeepsControl, CoderKeepsControl, BotFrame DEF factoryVars

\* One coder at a time is on its way to a force-push.
LEMMA ControlIsSingleWriter == Typed /\ Control => SingleWriter
<1>. SUFFICES ASSUME Typed, Control, NEW q \in Runs, NEW r \in Runs,
                     coder[q].at \in {"working", "committed"}, coder[r].at \in {"working", "committed"}
              PROVE  q = r
  BY DEF SingleWriter
<1>1. Alive(q) /\ Alive(r)
  BY DEF Alive
<1>2. CASE ~OnLambda
  <2>1. Running(q) /\ Running(r)
    BY <1>1, <1>2 DEF Control
  <2>2. CASE q # First /\ r # First
    BY <2>1, <2>2 DEF Control, MutexKey
  <2>3. CASE q = First \/ r = First
    BY <2>1, <2>3 DEF Control, Fixes, Running
  <2>. QED
    BY <2>2, <2>3
<1>. QED
  BY <1>1, <1>2 DEF Control

\* The mutex, the teardown of the claim and the hook server leave one coder at a time.
THEOREM OneWriter == Spec => []SingleWriter
<1>1. Typed /\ Control /\ [Next]_factoryVars => Typed' /\ Control'
  BY NextTyped, NextControl
<1>. QED
  BY <1>1, InitTyped, InitControl, ControlIsSingleWriter, PTL DEF Spec

-----------------------------------------------------------------------------
(***************************************************************************)
(* The branch.  On Kata a coder builds on the head, and a fix round waits  *)
(* for its own coder's commit; in a MicroVM a coder builds on what is      *)
(* checked out, and the head is on the way there.                          *)
(***************************************************************************)

Writing(r) == coder[r].at \in {"working", "committed"}

OwnBranch ==
  ~OnLambda => \A r \in Runs :
    /\ coder[r].at = "working" => coder[r].on = head
    /\ coder[r].at = "committed" =>
         coder[r].on = head \/ (commits[coder[r].on].on = head /\ commits[coder[r].on].by = r)
    /\ wf[r].at = "await" /\ r # First => wf[r].start # 0 /\ (head = wf[r].start \/ commits[head].by = r)
    /\ r # First /\ wf[r].sha # 0 => commits[wf[r].sha].by = r

TreeLeads ==
  OnLambda /\ pr # "merged" =>
    /\ head = 0 \/ head \in Ancestry(tree)
    /\ \A r \in Runs : Writing(r) => coder[r].on = tree

\* A run comes to wait by reading the head, and to verify by accepting it.
LEMMA RunAwaits ==
  ASSUME Typed, NEW r \in Runs, RunStep(r)
  PROVE  /\ wf'[r].at = "driven" => Drive(r)
         /\ wf'[r].at = "await" => wf[r].at = "driven" /\ wf'[r].start = head
         /\ \/ wf'[r].sha \in {0, wf[r].sha}
            \/ SeesNewHead(r) /\ wf'[r].sha = head
         /\ wf'[r].at \in {"fan", "status"} =>
              \/ wf[r].at = "fan"
              \/ AwaitSucceeds(r) /\ SeesNewHead(r) /\ commits[head].impl = "success" /\ wf'[r].todo = Gates
<1>1. wf \in [Runs -> Workflow] /\ wf[r] \in Workflow
  BY DEF Typed
<1>2. CASE Acquire(r) \/ Drive(r) \/ ReadStart(r) \/ PostStatus(r)
  BY <1>1, <1>2 DEF Acquire, Drive, ReadStart, PostStatus, Ended, NoRun, Workflow
<1>3. CASE AwaitSucceeds(r)
  BY <1>1, <1>3 DEF AwaitSucceeds, NoRun, Workflow
<1>4. CASE AwaitFails(r) \/ StepFails(r) \/ Complete(r)
  BY <1>1, <1>4 DEF AwaitFails, StepFails, Complete, Ends, Ended, NoRun, Workflow
<1>5. ASSUME wf[r].at = "fan", wf'[r].at = "fan", wf'[r].sha = wf[r].sha
      PROVE  /\ wf'[r].at \notin {"driven", "await"}
             /\ wf'[r].sha \in {0, wf[r].sha}
             /\ wf'[r].at \in {"fan", "status"} => wf[r].at = "fan"
  BY <1>5
<1>6. CASE HoldoutClones(r) \/ SecurityStarts(r)
  <2>1. wf[r].at = "fan" /\ wf'[r].at = "fan" /\ wf'[r].sha = wf[r].sha
    BY <1>1, <1>6 DEF HoldoutClones, SecurityStarts, Verifying, Workflow
  <2>. QED
    BY <1>5, <2>1
<1>7. CASE HoldoutPosts(r) \/ SecurityMirrors(r) \/ SecurityGivesUp(r) \/ DevopsReports(r)
  <2>1. wf[r].at = "fan" /\ wf'[r].at = "fan" /\ wf'[r].sha = wf[r].sha
    BY <1>1, <1>7 DEF HoldoutPosts, SecurityMirrors, SecurityGivesUp, DevopsReports, Verifying, Done, Workflow
  <2>. QED
    BY <1>5, <2>1
<1>. QED
  BY <1>2, <1>3, <1>4, <1>6, <1>7 DEF RunStep

\* A push, and what it replaces.
LEMMA PushMoves ==
  ASSUME Typed, [Next]_factoryVars, head' # head
  PROVE  \E r \in Runs : CoderPushes(r) /\ coder[r].at = "committed" /\ head' = coder[r].on /\ head' \in Commits
<1>1. ASSUME NEW r \in Runs, CoderStep(r)
      PROVE  CoderPushes(r)
  BY <1>1 DEF CoderStep, CoderCommits, CoderOpens, CoderReports, CoderFails, CoderIsSatisfied
<1>2. PICK r \in Runs : CoderPushes(r)
  BY <1>1, Participants, RunFrame, BotFrame, RoundFrame, MergeFrame DEF factoryVars
<1>3. coder[r].at = "committed" /\ head' = coder[r].on
  BY <1>2 DEF CoderPushes
<1>4. head' \in Commits
  BY <1>3 DEF Typed, Branches, Coders, Coder, Commits
<1>. QED
  BY <1>2, <1>3, <1>4

\* While a run waits for the bot, it verifies.
Waits ==
  \A r \in Runs : wf[r].awaited # 0 => wf[r].at = "fan" /\ "security" \in wf[r].todo

\* A run starts to wait by reading the head.
LEMMA RunWaits ==
  ASSUME Typed, Waits, NEW r \in Runs, RunStep(r), wf'[r].awaited # 0
  PROVE  /\ wf'[r].at = "fan" /\ "security" \in wf'[r].todo
         /\ wf'[r].awaited = wf[r].awaited \/ wf'[r].awaited = head
<1>1. wf \in [Runs -> Workflow] /\ wf[r] \in Workflow
  BY DEF Typed
<1>2. CASE Acquire(r) \/ Drive(r) \/ ReadStart(r) \/ PostStatus(r)
  BY <1>1, <1>2 DEF Acquire, Drive, ReadStart, PostStatus, Ended, NoRun, Workflow, Waits
<1>3. CASE AwaitSucceeds(r)
  BY <1>1, <1>3 DEF AwaitSucceeds, NoRun, Workflow
<1>4. CASE AwaitFails(r) \/ StepFails(r) \/ Complete(r)
  BY <1>1, <1>4 DEF AwaitFails, StepFails, Complete, Ends, Ended, NoRun, Workflow
<1>5. CASE HoldoutClones(r)
  BY <1>1, <1>5 DEF HoldoutClones, Verifying, Workflow, Waits
<1>6. CASE SecurityStarts(r)
  BY <1>1, <1>6 DEF SecurityStarts, Verifying, Workflow, Waits
<1>7. CASE HoldoutPosts(r)
  BY <1>1, <1>7 DEF HoldoutPosts, Verifying, Done, Workflow, Waits
<1>8. CASE SecurityMirrors(r) \/ SecurityGivesUp(r)
  BY <1>1, <1>8 DEF SecurityMirrors, SecurityGivesUp, Verifying, Done, Workflow, Waits
<1>9. CASE DevopsReports(r)
  BY <1>1, <1>9 DEF DevopsReports, Verifying, Done, Workflow, Waits
<1>. QED
  BY <1>2, <1>3, <1>4, <1>5, <1>6, <1>7, <1>8, <1>9 DEF RunStep

LEMMA InitBranch == Init => OwnBranch /\ TreeLeads
  BY DEF Init, OwnBranch, TreeLeads, NoRun, Writing

\* Only one coder writes, so the head stays what it was built on until its own push.
LEMMA NextOwnBranch ==
  ASSUME Typed, Control, OwnBranch, [Next]_factoryVars
  PROVE  OwnBranch'
<1>. SUFFICES ASSUME ~OnLambda PROVE OwnBranch'
  BY WorldFrame DEF OwnBranch
<1>1. /\ \A c \in Commits : commits'[c].by = commits[c].by /\ commits'[c].on = commits[c].on
      /\ Len(commits) \in Nat /\ ~OnLambda'
  BY CommitsKept, WorldFrame DEF Kept
<1>2. ASSUME NEW q \in Runs
      PROVE  /\ wf[q].sha # 0 => wf[q].sha \in Commits
             /\ coder[q].at = "committed" => coder[q].on \in Commits
             /\ wf[q].at = "await" /\ q # First => head \in Commits
  <2>1. /\ wf[q] \in Workflow /\ coder[q] \in Coder /\ (coder[q].at = "committed" => coder[q].on # 0)
        /\ head \in 0..Len(commits) /\ (pr # "none" => head # 0)
    BY DEF Typed, Coders, Branches
  <2>2. wf[q].at = "await" /\ q # First => pr # "none"
    BY DEF Control, Fixes
  <2>. QED
    BY <1>1, <2>1, <2>2 DEF Workflow, Coder, Commits
<1>3. ASSUME UNCHANGED <<head, wf>>, \A q \in Runs : coder'[q] = coder[q] \/ coder'[q].at = "gone"
      PROVE  OwnBranch'
  BY <1>1, <1>2, <1>3 DEF OwnBranch
<1>4. ASSUME NEW r \in Runs, RunStep(r)
      PROVE  OwnBranch'
  <2>1. UNCHANGED head /\ \A q \in Runs : q # r => wf'[q] = wf[q]
    BY <1>4, RunFrame, RunStage
  <2>2. ASSUME NEW q \in Runs
        PROVE  coder'[q] = coder[q] \/ coder'[q].at = "gone" \/ (coder'[q].at = "working" /\ coder'[q].on = head)
    <3>1. CASE Drive(r)
      BY <2>2, <3>1 DEF Drive, Starts, Base, Typed, Coders
    <3>. QED
      BY <1>4, <2>2, <3>1, RunCoder
  <2>3. wf'[r].at = "await" /\ r # First => wf'[r].start # 0 /\ head = wf'[r].start
    <3>1. r # First /\ wf[r].at = "driven" => head # 0
      BY DEF Control, Fixes, Typed, Branches
    <3>. QED
      BY <1>4, <3>1, RunAwaits
  <2>4. r # First /\ wf'[r].sha # 0 => commits'[wf'[r].sha].by = r
    <3>1. CASE wf'[r].sha \in {0, wf[r].sha}
      BY <1>1, <1>2, <3>1 DEF OwnBranch
    <3>2. CASE SeesNewHead(r) /\ wf'[r].sha = head
      BY <1>1, <1>2, <3>2 DEF OwnBranch, SeesNewHead, IsFix
    <3>. QED
      BY <1>4, <3>1, <3>2, RunAwaits
  <2>. QED
    BY <1>1, <1>2, <2>1, <2>2, <2>3, <2>4 DEF OwnBranch
<1>5. ASSUME NEW r \in Runs, CoderStep(r)
      PROVE  OwnBranch'
  <2>1. UNCHANGED wf /\ (\A q \in Runs : q # r => coder'[q] = coder[q]) /\ coder \in [Runs -> Coder]
    BY <1>5, CoderFrame, CoderStage DEF Typed, Coders
  <2>2. CASE CoderCommits(r)
    <3>1. /\ coder'[r] = [at |-> "committed", on |-> Len(commits) + 1] /\ UNCHANGED head
          /\ commits'[Len(commits) + 1].by = r /\ commits'[Len(commits) + 1].on = head
      BY <2>1, <2>2, Committing DEF CoderCommits, OwnBranch
    <3>. QED
      BY <1>1, <1>2, <2>1, <3>1 DEF OwnBranch
  <2>3. CASE CoderPushes(r) /\ head' # head
    <3>1. head' = coder[r].on /\ coder[r].at = "committed" /\ coder'[r].at = "pushed" /\ head' \in Commits
      BY <1>2, <2>1, <2>3 DEF CoderPushes
    <3>2. commits[head'].by = r
      BY <2>3, <3>1 DEF OwnBranch
    <3>3. \A q \in Runs : q # r => ~Writing(q)
      BY <3>1, ControlIsSingleWriter DEF SingleWriter, Writing
    <3>4. ASSUME NEW q \in Runs, wf[q].at = "await", q # First
          PROVE  q = r
      <4>1. Running(q) /\ Running(r) /\ pr # "none"
        BY <3>1, <3>4 DEF Control, Running, Alive, Fixes
      <4>2. r # First
        BY <3>1, <4>1 DEF Control
      <4>. QED
        BY <3>4, <4>1, <4>2 DEF Control, MutexKey
    <3>. QED
      BY <1>1, <1>2, <2>1, <3>1, <3>2, <3>3, <3>4 DEF OwnBranch, Writing
  <2>4. CASE CoderPushes(r) /\ head' = head
    <3>1. coder'[r].at = "pushed"
      BY <2>1, <2>4 DEF CoderPushes
    <3>. QED
      BY <1>1, <1>2, <2>1, <2>4, <3>1 DEF OwnBranch
  <2>5. CASE CoderIsSatisfied(r)
    <3>1. /\ coder[r].at = "working" /\ coder'[r].at \in {"satisfied", "committed"} /\ coder'[r].on = coder[r].on
          /\ UNCHANGED head
      BY <2>1, <2>5 DEF CoderIsSatisfied, Coder
    <3>. QED
      BY <1>1, <1>2, <2>1, <3>1 DEF OwnBranch
  <2>6. CASE CoderOpens(r) \/ CoderReports(r) \/ CoderFails(r)
    <3>1. UNCHANGED head /\ coder'[r].at \in {"opened", "gone"}
      <4>1. CASE CoderOpens(r)
        BY <2>1, <4>1 DEF CoderOpens
      <4>2. CASE coder' = [coder EXCEPT ![r].at = "gone"] /\ UNCHANGED head
        BY <2>1, <4>2
      <4>. QED
        BY <2>6, <4>1, <4>2 DEF CoderReports, CoderFails
    <3>. QED
      BY <1>1, <1>2, <2>1, <3>1 DEF OwnBranch
  <2>. QED
    BY <1>5, <2>2, <2>3, <2>4, <2>5, <2>6 DEF CoderStep
<1>6. ASSUME NEW v \in Comments, Comment(v) \/ Revise(v)
      PROVE  OwnBranch'
  <2>1. UNCHANGED <<head, coder>>
    BY <1>6, RoundFrame
  <2>2. \/ UNCHANGED wf
        \/ \E n \in Fixes : /\ wf'[n].at = "queued" /\ wf'[n].sha = wf[n].sha
                            /\ \A q \in Runs : q # n => wf'[q] = wf[q]
    BY <1>6, RoundStage DEF Typed, Workflow, Fixes
  <2>. QED
    BY <1>1, <1>2, <2>1, <2>2 DEF OwnBranch, Fixes
<1>. QED
  BY <1>3, <1>4, <1>5, <1>6, Participants, BotFrame, MergeFrame, MergeCoder DEF factoryVars

\* A fix round on Kata verifies its own coder's commit.
THEOREM FixRoundsVerify == Spec => []FixRoundsVerifyTheirOwnCommit
<1>1. Typed /\ Control /\ OwnBranch /\ [Next]_factoryVars => Typed' /\ Control' /\ OwnBranch'
  BY NextTyped, NextControl, NextOwnBranch
<1>2. OwnBranch => FixRoundsVerifyTheirOwnCommit
  BY DEF OwnBranch, FixRoundsVerifyTheirOwnCommit
<1>. QED
  BY <1>1, <1>2, InitTyped, InitControl, InitBranch, PTL DEF Spec

\* The branches of the commits there are stay what they are.
LEMMA BranchesStay ==
  ASSUME Typed, [Next]_factoryVars, NEW h \in 0..Len(commits)
  PROVE  Ancestry(h)' = Ancestry(h)
<1>1. Ordered /\ Len(commits) \in Nat /\ \A c \in 1..Len(commits) : commits'[c].on = commits[c].on
  BY CommitsKept DEF Typed, Branches, Kept, Commits
<1>. QED
  BY <1>1, AncestryStays

\* In a MicroVM, driving a run starts its coder on what is checked out, or on the head.
LEMMA DriveInVm ==
  ASSUME Typed, Control, OnLambda, NEW r \in Runs, Drive(r)
  PROVE  \/ UNCHANGED <<coder, tree>>
         \/ /\ coder'[r].at = "working" /\ coder'[r].on = tree'
            /\ tree' = head \/ (tree' = tree /\ tree # 0)
            /\ \A q \in Runs : q # r => ~Alive(q)'
            /\ coder' = Posted(r) => InVm = {}
<1>1. coder \in [Runs -> Coder] /\ coder[r].at = "none"
  BY DEF Typed, Coders, Drive, Control
<1>2. tree' = IF coder'[r] # coder[r] THEN coder'[r].on ELSE tree
  BY DEF Drive
<1>3. CASE coder' = Posted(r) /\ InVm = {}
  BY <1>1, <1>2, <1>3 DEF Posted, Starts, Base, InVm, Alive
<1>4. CASE coder' = Posted(r) /\ InVm # {}
  BY <1>2, <1>4 DEF Posted
<1>5. CASE coder' = Recreated(r)
  <2>1. coder'[r] = [at |-> "working", on |-> head] /\ \A q \in Runs : q # r => ~Alive(q)'
    BY <1>1, <1>5 DEF Recreated, InVm, Alive
  <2>2. coder' = Posted(r) => InVm = {}
    BY <1>1, <2>1 DEF Posted
  <2>. QED
    BY <1>1, <1>2, <2>1, <2>2
<1>. QED
  BY <1>3, <1>4, <1>5 DEF Drive

\* In a MicroVM a commit moves the checkout on, and a push the head after it.
LEMMA NextTreeLeads ==
  ASSUME Typed, Control, TreeLeads, [Next]_factoryVars
  PROVE  TreeLeads'
<1>. SUFFICES ASSUME OnLambda, pr' # "merged" PROVE TreeLeads'
  BY WorldFrame DEF TreeLeads
<1>1. /\ head \in 0..Len(commits) /\ tree \in 0..Len(commits) /\ Len(commits) \in Nat /\ Ordered
      /\ coder \in [Runs -> Coder]
  BY DEF Typed, Branches, Coders
<1>2. \A h \in 0..Len(commits) : h = 0 \/ h \in Ancestry(h)
  BY <1>1, OwnAncestry
<1>3. ASSUME UNCHANGED <<pr, head, tree>>, \A q \in Runs : coder'[q] = coder[q] \/ ~Writing(q)'
      PROVE  TreeLeads'
  <2>1. Ancestry(tree)' = Ancestry(tree)
    BY <1>1, <1>3, BranchesStay
  <2>. QED
    BY <1>3, <2>1 DEF TreeLeads, Writing
<1>4. ASSUME NEW r \in Runs, RunStep(r)
      PROVE  TreeLeads'
  <2>1. UNCHANGED <<pr, head>>
    BY <1>4, RunFrame
  <2>2. CASE Drive(r) /\ ~UNCHANGED <<coder, tree>>
    <3>1. /\ coder'[r].at = "working" /\ coder'[r].on = tree'
          /\ tree' = head \/ (tree' = tree /\ tree # 0)
          /\ \A q \in Runs : q # r => ~Alive(q)'
      BY <2>2, DriveInVm
    <3>2. head = 0 \/ head \in Ancestry(tree')
      BY <1>1, <1>2, <2>1, <3>1 DEF TreeLeads
    <3>3. Ancestry(tree)' = Ancestry(tree')
      <4>1. PICK t \in 0..Len(commits) : t = tree'
        BY <1>1, <3>1
      <4>2. Ancestry(t)' = Ancestry(t)
        BY BranchesStay
      <4>. QED
        BY <4>1, <4>2
    <3>. QED
      BY <2>1, <3>1, <3>2, <3>3 DEF TreeLeads, Writing, Alive
  <2>3. CASE ~Drive(r) \/ UNCHANGED <<coder, tree>>
    <3>1. UNCHANGED tree
      BY <1>4, <2>3 DEF RunStep, Acquire, ReadStart, AwaitSucceeds, AwaitFails, StepFails, HoldoutClones,
           HoldoutPosts, SecurityStarts, SecurityMirrors, SecurityGivesUp, DevopsReports, PostStatus, Complete
    <3>2. \A q \in Runs : coder'[q] = coder[q] \/ ~Writing(q)'
      BY <1>4, <2>3, RunCoder DEF Writing
    <3>. QED
      BY <1>3, <2>1, <3>1, <3>2
  <2>. QED
    BY <2>2, <2>3
<1>5. ASSUME NEW r \in Runs, CoderStep(r)
      PROVE  TreeLeads'
  <2>1. Alive(r) /\ (\A q \in Runs : q # r => coder'[q] = coder[q])
    BY <1>5, CoderStage
  <2>2. \A q \in Runs : q # r => ~Writing(q) /\ ~Writing(q)'
    BY <2>1 DEF Control, Alive, Writing
  <2>3. CASE CoderCommits(r)
    <3>1. PICK n : n = Len(commits) + 1
      OBVIOUS
    <3>2. /\ commits' \in Seq(Commit) /\ Len(commits') = n /\ tree' = n /\ commits'[n].on = coder[r].on
          /\ coder' = [coder EXCEPT ![r] = [at |-> "committed", on |-> n]] /\ UNCHANGED <<pr, head>>
      BY <2>3, <3>1, Committing DEF CoderCommits
    <3>3. coder[r].on = tree /\ (head = 0 \/ head \in Ancestry(tree))
      BY <2>3, <3>2 DEF TreeLeads, CoderCommits, Writing
    <3>4. head = 0 \/ head \in Ancestry(n)'
      <4>1. Ordered' /\ n \in (1..Len(commits))' /\ (Len(commits) \in Nat)' /\ n \in Nat
        BY <1>1, <3>1, <3>2, NextTyped DEF Typed, Branches
      <4>2. PICK t \in 0..Len(commits) : t = tree
        BY <1>1
      <4>3. Ancestry(t)' = Ancestry(t)
        BY BranchesStay
      <4>4. (Ordered /\ Len(commits) \in Nat)' => BranchesNest'
        BY OrderedNests, PTL
      <4>5. t = 0 \/ Ancestry(t)' \subseteq Ancestry(n)'
        BY <3>2, <3>3, <4>1, <4>2, <4>4 DEF BranchesNest
      <4>6. t = 0 => Ancestry(t) = {}
        BY DEF Ancestry
      <4>. QED
        BY <3>3, <4>2, <4>3, <4>5, <4>6
    <3>5. \A q \in Runs : Writing(q)' => coder'[q].on = n
      BY <1>1, <2>2, <3>2
    <3>. QED
      BY <3>2, <3>4, <3>5 DEF TreeLeads
  <2>4. CASE CoderPushes(r)
    <3>1. /\ head' = coder[r].on /\ coder[r].at = "committed" /\ coder'[r].at = "pushed" /\ UNCHANGED <<pr, tree>>
      BY <1>1, <2>4 DEF CoderPushes
    <3>2. head' = tree
      BY <3>1 DEF TreeLeads, Writing
    <3>3. Ancestry(tree)' = Ancestry(tree)
      BY <1>1, <3>1, BranchesStay
    <3>. QED
      BY <1>1, <1>2, <2>2, <3>1, <3>2, <3>3 DEF TreeLeads, Writing
  <2>5. CASE CoderIsSatisfied(r)
    <3>1. /\ UNCHANGED <<pr, head, tree>> /\ coder[r].at = "working" /\ coder'[r].on = coder[r].on
      BY <1>1, <2>5 DEF CoderIsSatisfied, Coder
    <3>2. Ancestry(tree)' = Ancestry(tree)
      BY <1>1, <3>1, BranchesStay
    <3>. QED
      BY <2>2, <3>1, <3>2 DEF TreeLeads, Writing
  <2>6. CASE CoderOpens(r) \/ CoderReports(r) \/ CoderFails(r)
    <3>1. UNCHANGED <<head, tree>> /\ (pr = "merged" => pr' = "merged")
      BY <2>6 DEF CoderOpens, CoderReports, CoderFails
    <3>2. ~Writing(r)'
      <4>1. CASE CoderOpens(r)
        BY <1>1, <4>1 DEF CoderOpens, Writing
      <4>2. CASE coder' = [coder EXCEPT ![r].at = "gone"]
        BY <1>1, <4>2 DEF Writing
      <4>. QED
        BY <2>6, <4>1, <4>2 DEF CoderReports, CoderFails
    <3>3. Ancestry(tree)' = Ancestry(tree)
      BY <1>1, <3>1, BranchesStay
    <3>. QED
      BY <2>1, <2>2, <3>1, <3>2, <3>3 DEF TreeLeads
  <2>. QED
    BY <1>5, <2>3, <2>4, <2>5, <2>6 DEF CoderStep
<1>6. CASE Approve \/ MergeStep
  <2>1. UNCHANGED <<pr, head>>
    BY <1>6, MergeFrame, MergeCoder
  <2>2. UNCHANGED tree
    BY <1>6 DEF Approve, MergeStep, MergeReads, MergePasses, MergeRefuses, MergePuts
  <2>3. \A q \in Runs : coder'[q] = coder[q] \/ ~Writing(q)'
    BY <1>6, MergeCoder DEF Writing
  <2>. QED
    BY <1>3, <2>1, <2>2, <2>3
<1>. QED
  BY <1>3, <1>4, <1>5, <1>6, Participants, BotFrame, RoundFrame DEF factoryVars

\* What a push replaces is on the branch it pushes.
LEMMA PushKeeps ==
  ASSUME Typed, Control, OwnBranch, TreeLeads, [Next]_factoryVars, head' # head, head # 0
  PROVE  head \in Ancestry(head')
<1>1. PICK r \in Runs : /\ CoderPushes(r) /\ coder[r].at = "committed" /\ head' = coder[r].on
                        /\ head' \in Commits
  BY PushMoves
<1>2. Ordered /\ Len(commits) \in Nat
  BY DEF Typed, Branches
<1>3. PICK h \in 1..Len(commits) : h = head'
  BY <1>1 DEF Commits
<1>4. CASE ~OnLambda
  <2>1. commits[h].on = head
    BY <1>1, <1>3, <1>4 DEF OwnBranch
  <2>2. commits[h].on # 0 => commits[h].on \in Ancestry(h)
    BY <1>2, OwnAncestry
  <2>. QED
    BY <1>3, <2>1, <2>2
<1>5. CASE OnLambda
  <2>1. Alive(r)
    BY <1>1 DEF Alive
  <2>2. pr # "merged"
    BY <2>1 DEF Control
  <2>3. head' = tree /\ head \in Ancestry(tree)
    BY <1>1, <1>5, <2>2 DEF TreeLeads, Writing
  <2>. QED
    BY <2>3
<1>. QED
  BY <1>4, <1>5

\* No force-push takes a commit off the branch.
THEOREM PushesAreSafe == Spec => PushesKeepTheBranch
<1>1. /\ Typed /\ Control /\ OwnBranch /\ TreeLeads /\ [Next]_factoryVars
           => Typed' /\ Control' /\ OwnBranch' /\ TreeLeads'
      /\ Init => Typed /\ Control /\ OwnBranch /\ TreeLeads
  BY NextTyped, NextControl, NextOwnBranch, NextTreeLeads, InitTyped, InitControl, InitBranch
<1>2. Typed /\ Control /\ OwnBranch /\ TreeLeads /\ [Next]_factoryVars
        => [head' # head /\ head # 0 => head \in Ancestry(head')]_factoryVars
  BY PushKeeps
<1>. QED
  BY <1>1, <1>2, PTL DEF Spec, PushesKeepTheBranch

-----------------------------------------------------------------------------
(***************************************************************************)
(* Who has reported on what.  A commit that is not pushed has no status,   *)
(* and a coder that is still to push has such a commit, or the head.       *)
(***************************************************************************)

Reports ==
  /\ \A c \in Commits : ~commits[c].pushed => commits[c].impl = "none"
  /\ \A r \in Runs : coder[r].at \in {"pushed", "opened"} => commits[coder[r].on].pushed
  /\ \A r \in Runs : coder[r].at = "committed" => coder[r].on = head \/ ~commits[coder[r].on].pushed
  /\ OnLambda /\ pr # "merged" => tree = 0 \/ tree = head \/ ~commits[tree].pushed

\* A status follows the push, on the commit that was pushed.
LEMMA NextReports ==
  ASSUME Typed, Control, OwnBranch, TreeLeads, Reports, [Next]_factoryVars
  PROVE  Reports'
<1>1. /\ head \in 0..Len(commits) /\ tree \in 0..Len(commits) /\ Len(commits) \in Nat
      /\ coder \in [Runs -> Coder] /\ commits \in Seq(Commit) /\ (OnLambda' <=> OnLambda)
      /\ \A q \in Runs : coder[q].at \in {"committed", "pushed", "opened"} => coder[q].on \in Commits
  BY WorldFrame DEF Typed, Branches, Coders, Coder, Commits
<1>2. ASSUME OtherStep, UNCHANGED head, \A q \in Runs : coder'[q] = coder[q] \/ coder'[q].at \in {"working", "gone"},
             pr' # "merged" => pr # "merged" /\ (tree' = tree \/ tree' = head)
      PROVE  Reports'
  <2>1. Len(commits') = Len(commits)
    BY <1>2, OthersPost
  <2>2. \A c \in Commits : commits'[c].pushed = commits[c].pushed /\ commits'[c].impl = commits[c].impl
    BY <1>2, OthersPost
  <2>. QED
    BY <1>1, <1>2, <2>1, <2>2 DEF Reports, Commits
<1>3. ASSUME NEW r \in Runs, RunStep(r)
      PROVE  Reports'
  <2>1. OtherStep /\ UNCHANGED <<pr, head>> /\ \A q \in Runs : coder'[q] = coder[q] \/ coder'[q].at \in {"working", "gone"}
    BY <1>3, RunFrame, RunCoder DEF OtherStep
  <2>2. tree' = tree \/ tree' = head
    <3>1. CASE Drive(r) /\ OnLambda
      BY <3>1, DriveInVm
    <3>2. CASE ~Drive(r) \/ ~OnLambda
      BY <1>3, <3>2 DEF RunStep, Acquire, Drive, ReadStart, AwaitSucceeds, AwaitFails, StepFails, HoldoutClones,
           HoldoutPosts, SecurityStarts, SecurityMirrors, SecurityGivesUp, DevopsReports, PostStatus, Complete
    <3>. QED
      BY <3>1, <3>2
  <2>. QED
    BY <1>2, <2>1, <2>2
<1>4. ASSUME NEW r \in Runs, CoderStep(r)
      PROVE  Reports'
  <2>1. Alive(r) /\ (\A q \in Runs : q # r => coder'[q] = coder[q])
    BY <1>4, CoderStage
  <2>2. CASE CoderCommits(r)
    <3>1. PICK n : n = Len(commits) + 1
      OBVIOUS
    <3>2. /\ Len(commits') = n /\ tree' = (IF OnLambda THEN n ELSE tree) /\ UNCHANGED <<pr, head>>
          /\ coder' = [coder EXCEPT ![r] = [at |-> "committed", on |-> n]]
          /\ ~commits'[n].pushed /\ commits'[n].impl = "none" /\ \A c \in Commits : commits'[c] = commits[c]
      BY <2>2, <3>1, Committing DEF CoderCommits
    <3>. QED
      BY <1>1, <2>1, <3>1, <3>2 DEF Reports, Commits
  <2>3. CASE CoderPushes(r)
    <3>1. PICK h \in Commits : h = coder[r].on
      BY <1>1, <2>3 DEF CoderPushes
    <3>2. /\ head' = h /\ coder[r].at = "committed" /\ UNCHANGED <<pr, tree>>
          /\ coder'[r].at = "pushed" /\ coder'[r].on = h
      BY <1>1, <2>3, <3>1 DEF CoderPushes, Coder
    <3>3. /\ Len(commits') = Len(commits) /\ (\A c \in Commits : c # h => commits'[c] = commits[c])
          /\ commits'[h].pushed /\ commits'[h].impl = commits[h].impl
      BY <1>1, <2>3, <3>1, PushPosts DEF Posts, Fields, Commits
    <3>4. \A q \in Runs : q # r => ~Writing(q)
      BY <3>2, ControlIsSingleWriter DEF SingleWriter, Writing
    <3>5. \A c \in Commits : commits'[c].pushed = commits[c].pushed \/ commits'[c].pushed
      BY <3>3
    <3>6. OnLambda /\ pr # "merged" => tree = h
      BY <3>1, <3>2 DEF TreeLeads, Writing
    <3>. QED
      BY <1>1, <2>1, <3>1, <3>2, <3>3, <3>4, <3>5, <3>6 DEF Reports, Commits, Writing
  <2>4. CASE CoderIsSatisfied(r)
    <3>1. /\ UNCHANGED <<pr, head, tree, commits>> /\ coder[r].at = "working" /\ coder'[r].on = coder[r].on
          /\ coder'[r].at = "committed" => coder[r].on # 0
          /\ coder'[r].at \in {"satisfied", "committed"}
      BY <1>1, <2>4 DEF CoderIsSatisfied, Coder
    <3>2. IF OnLambda THEN pr # "merged" /\ coder[r].on = tree ELSE coder[r].on = head
      BY <2>1, <3>1 DEF OwnBranch, TreeLeads, Writing, Control
    <3>. QED
      BY <1>1, <2>1, <3>1, <3>2 DEF Reports, Commits
  <2>5. CASE CoderOpens(r)
    <3>1. /\ UNCHANGED <<head, tree, commits>> /\ (pr = "merged" => pr' = "merged")
          /\ coder[r].at = "pushed" /\ coder'[r].at = "opened" /\ coder'[r].on = coder[r].on
      BY <1>1, <2>5 DEF CoderOpens, Coder
    <3>. QED
      BY <1>1, <2>1, <3>1 DEF Reports, Commits
  <2>6. CASE CoderReports(r) \/ CoderFails(r)
    <3>0. UNCHANGED <<pr, head, tree>> /\ coder' = [coder EXCEPT ![r].at = "gone"]
      BY <2>6 DEF CoderReports, CoderFails
    <3>1. UNCHANGED <<pr, head, tree>> /\ coder'[r].at = "gone"
      BY <1>1, <3>0
    <3>2. \/ UNCHANGED commits
          \/ coder[r].at \in {"pushed", "opened"} /\ Posts(coder[r].on, {"impl"})
      <4>1. CASE CoderReports(r)
        BY <1>1, <4>1, ImplPosts DEF CoderReports, Commits
      <4>2. CASE CoderFails(r)
        BY <1>1, <4>2, ImplPosts DEF CoderFails, Commits
      <4>. QED
        BY <2>6, <4>1, <4>2
    <3>3. CASE UNCHANGED commits
      BY <1>1, <2>1, <3>1, <3>3 DEF Reports, Commits
    <3>4. CASE coder[r].at \in {"pushed", "opened"} /\ Posts(coder[r].on, {"impl"})
      <4>1. PICK h \in Commits : h = coder[r].on /\ commits[h].pushed
        BY <1>1, <3>4 DEF Reports
      <4>2. /\ Len(commits') = Len(commits) /\ (\A c \in Commits : c # h => commits'[c] = commits[c])
            /\ commits'[h].pushed
        BY <3>4, <4>1 DEF Posts, Fields, Commits
      <4>. QED
        BY <1>1, <2>1, <3>1, <4>1, <4>2 DEF Reports, Commits
    <3>. QED
      BY <3>2, <3>3, <3>4
  <2>. QED
    BY <1>4, <2>2, <2>3, <2>4, <2>5, <2>6 DEF CoderStep
<1>5. CASE Approve \/ MergeStep
  <2>1. UNCHANGED head /\ \A q \in Runs : coder'[q] = coder[q] \/ coder'[q].at = "gone"
    BY <1>5, MergeFrame, MergeCoder
  <2>2. pr' # "merged" => pr # "merged" /\ tree' = tree
    BY <1>5 DEF Approve, MergeStep, MergeReads, MergePasses, MergeRefuses, MergePuts
  <2>. QED
    BY <1>2, <1>5, <2>1, <2>2 DEF OtherStep
<1>6. CASE (\E c \in 1..Len(commits) : BotStep(c)) \/ (\E v \in Comments : Comment(v) \/ Revise(v)) \/ UNCHANGED factoryVars
  <2>1. OtherStep /\ UNCHANGED <<pr, head, coder, tree>>
    BY <1>6, BotFrame, RoundFrame DEF OtherStep, factoryVars
  <2>. QED
    BY <1>2, <2>1
<1>. QED
  BY <1>3, <1>4, <1>5, <1>6, Participants

LEMMA InitReports == Init => Reports /\ Waits
  BY DEF Init, Reports, Waits, Commits, NoRun

\* Only the run itself changes what it waits for.
LEMMA NextWaits ==
  ASSUME Typed, Waits, [Next]_factoryVars
  PROVE  Waits'
<1>1. CASE UNCHANGED wf
  BY <1>1 DEF Waits
<1>2. ASSUME NEW r \in Runs, RunStep(r)
      PROVE  Waits'
  <2>1. \A q \in Runs : q # r => wf'[q] = wf[q]
    BY <1>2, RunStage
  <2>2. wf'[r].awaited # 0 => wf'[r].at = "fan" /\ "security" \in wf'[r].todo
    BY <1>2, RunWaits
  <2>. QED
    BY <2>1, <2>2 DEF Waits
<1>3. ASSUME NEW v \in Comments, Comment(v) \/ Revise(v), ~UNCHANGED wf
      PROVE  Waits'
  <2>1. PICK n \in Fixes : /\ wf[n].at = "none" /\ wf'[n] = [wf[n] EXCEPT !.at = "queued"]
                           /\ \A q \in Runs : q # n => wf'[q] = wf[q]
    BY <1>3, RoundStage
  <2>2. wf[n] \in Workflow /\ wf[n].awaited = 0
    BY <2>1 DEF Typed, Waits, Fixes
  <2>3. wf'[n].awaited = 0
    BY <2>1, <2>2 DEF Workflow
  <2>. QED
    BY <2>1, <2>3 DEF Waits
<1>. QED
  BY <1>1, <1>2, <1>3, Participants, CoderFrame, BotFrame, MergeFrame DEF factoryVars

-----------------------------------------------------------------------------
(***************************************************************************)
(* In a MicroVM no coder is at work under a fan, so the head a run reads   *)
(* stays the head until its verdicts are posted.                           *)
(***************************************************************************)

\* A coder that is still at work has not reported on the head its run waits to see.
Quiet ==
  OnLambda => \A q, r \in Runs : Alive(q) =>
    /\ r = First /\ wf[r].at \in {"driven", "await"} => head = 0 \/ commits[head].impl # "success"
    /\ r # First /\ wf[r].at = "await" => head = wf[r].start \/ commits[head].impl # "success"
    /\ wf[r].at \notin {"fan", "status"}

Pinned ==
  OnLambda => \A r \in Runs :
    /\ r # First /\ wf[r].at = "await" => wf[r].start # 0
    /\ wf[r].awaited # 0 => wf[r].awaited = head

LEMMA InitQuiet == Init => Quiet /\ Pinned
  BY DEF Init, Quiet, Pinned, NoRun, Alive

\* A run goes on to verify only when its coder has reported, and so is gone.
LEMMA RunKeepsQuiet ==
  ASSUME Typed, Control, Waits, Quiet, Pinned, NEW r \in Runs, RunStep(r)
  PROVE  Quiet' /\ Pinned'
<1>. SUFFICES ASSUME OnLambda PROVE Quiet' /\ Pinned'
  BY RunFrame DEF Quiet, Pinned, OnLambda
<1>1. /\ UNCHANGED <<pr, head>> /\ (head # 0 => head \in Commits) /\ (pr # "none" => head # 0)
      /\ \A q \in Runs : q # r => wf'[q] = wf[q]
  BY RunFrame, RunStage DEF Typed, Branches, Commits
<1>2. head # 0 => commits'[head].impl = commits[head].impl
  BY <1>1, OthersPost DEF OtherStep
<1>3. Pinned'
  <2>1. r # First /\ wf'[r].at = "await" => wf'[r].start = head /\ head # 0
    BY <1>1, RunAwaits DEF Control, Fixes
  <2>2. wf'[r].awaited # 0 => wf'[r].awaited = head
    <3>1. wf'[r].awaited # 0 => wf'[r].awaited = wf[r].awaited \/ wf'[r].awaited = head
      BY RunWaits
    <3>. QED
      BY <3>1 DEF Pinned
  <2>. QED
    BY <1>1, <2>1, <2>2 DEF Pinned
<1>4. \A q \in Runs : Alive(q)' => Alive(q) \/ (q = r /\ Drive(r))
  BY RunCoder DEF Alive
<1>5. CASE Drive(r)
  <2>1. Running(r) /\ wf[r].at = "started" /\ coder[r].at = "none" /\ wf'[r].at = "driven"
    BY <1>5 DEF Drive, Running, Control, Typed, Workflow
  <2>2. \A q \in Runs : q # r => wf[q].at \notin {"driven", "await", "fan", "status"}
    BY <2>1 DEF Control, Running, MutexKey
  <2>3. r = First => head = 0
    BY <2>1 DEF Control, First
  <2>. QED
    BY <1>1, <1>3, <2>1, <2>2, <2>3 DEF Quiet
<1>6. CASE ~Drive(r)
  <2>1. \A q \in Runs : Alive(q)' => Alive(q)
    BY <1>4, <1>6
  <2>2. wf'[r].at \in {"driven", "await"} => wf[r].at = "driven" /\ wf'[r].at = "await" /\ wf'[r].start = head
    BY <1>6, RunAwaits
  <2>3. wf'[r].at \in {"fan", "status"} => wf[r].at = "fan" \/ ~\E q \in Runs : Alive(q)
    <3>1. CASE wf[r].at = "await" /\ pr = "open" /\ commits[head].impl = "success"
               /\ (r # First => wf[r].start = 0 \/ head # wf[r].start)
      BY <1>1, <3>1 DEF Quiet, Pinned
    <3>. QED
      BY <3>1, RunAwaits DEF SeesNewHead, IsFix
  <2>4. \A q, p \in Runs : Alive(q)' =>
          /\ p = First /\ wf'[p].at \in {"driven", "await"} => head = 0 \/ commits'[head].impl # "success"
          /\ p # First /\ wf'[p].at = "await" => head = wf'[p].start \/ commits'[head].impl # "success"
          /\ wf'[p].at \notin {"fan", "status"}
    <3>. SUFFICES ASSUME NEW q \in Runs, NEW p \in Runs, Alive(q)'
                  PROVE  /\ p = First /\ wf'[p].at \in {"driven", "await"} => head = 0 \/ commits'[head].impl # "success"
                         /\ p # First /\ wf'[p].at = "await" => head = wf'[p].start \/ commits'[head].impl # "success"
                         /\ wf'[p].at \notin {"fan", "status"}
      OBVIOUS
    <3>1. Alive(q)
      BY <2>1
    <3>2. CASE p # r
      <4>1. p # First /\ wf[p].at = "await" => head # 0
        BY <1>1 DEF Control, Fixes
      <4>. QED
        BY <1>1, <1>2, <3>1, <3>2, <4>1 DEF Quiet
    <3>3. CASE p = r
      BY <1>2, <2>2, <2>3, <3>1, <3>3 DEF Quiet
    <3>. QED
      BY <3>2, <3>3
  <2>. QED
    BY <1>1, <1>3, <2>4 DEF Quiet
<1>. QED
  BY <1>5, <1>6

\* A coder that moves the head has not reported on it, and nobody verifies.
LEMMA CoderKeepsQuiet ==
  ASSUME Typed, Control, Waits, Reports, Quiet, Pinned, NEW r \in Runs, CoderStep(r)
  PROVE  Quiet' /\ Pinned'
<1>. SUFFICES ASSUME OnLambda PROVE Quiet' /\ Pinned'
  BY CoderFrame DEF Quiet, Pinned, OnLambda
<1>1. /\ UNCHANGED wf /\ Alive(r) /\ (\A q \in Runs : q # r => coder'[q] = coder[q] /\ ~Alive(q) /\ ~Alive(q)')
      /\ (head # 0 => head \in Commits) /\ Len(commits) \in Nat /\ commits \in Seq(Commit)
      /\ coder \in [Runs -> Coder] /\ (pr # "none" => head # 0)
  BY CoderFrame, CoderStage DEF Control, Alive, Typed, Branches, Coders, Commits
<1>2. \A q \in Runs : wf[q].at \notin {"fan", "status"} /\ wf[q].awaited = 0
  BY <1>1 DEF Quiet, Waits
<1>3. Pinned'
  BY <1>1, <1>2 DEF Pinned
<1>4. CASE CoderPushes(r)
  <2>1. PICK h \in Commits : h = coder[r].on
    BY <1>4 DEF CoderPushes, Typed, Branches, Coders, Coder, Commits
  <2>2. head' = h /\ coder[r].at = "committed"
    BY <1>4, <2>1 DEF CoderPushes
  <2>3. \A c \in Commits : commits'[c].impl = commits[c].impl
    <3>1. Posts(h, {"pushed"})
      BY <1>1, <1>4, <2>1, PushPosts DEF Commits
    <3>. QED
      BY <2>1, <3>1 DEF Posts, Fields, Commits
  <2>4. h = head \/ commits[h].impl = "none"
    BY <2>1, <2>2 DEF Reports
  <2>. QED
    BY <1>1, <1>2, <1>3, <2>1, <2>2, <2>3, <2>4 DEF Quiet
<1>5. CASE CoderReports(r) \/ CoderFails(r)
  <2>1. coder' = [coder EXCEPT ![r].at = "gone"]
    BY <1>5 DEF CoderReports, CoderFails
  <2>2. ~Alive(r)'
    BY <1>1, <2>1 DEF Alive
  <2>. QED
    BY <1>1, <1>3, <2>2 DEF Quiet
<1>6. CASE CoderOpens(r) \/ CoderIsSatisfied(r) \/ CoderCommits(r)
  <2>1. UNCHANGED head
    BY <1>6 DEF CoderOpens, CoderIsSatisfied, CoderCommits
  <2>2. \A c \in Commits : commits'[c] = commits[c]
    <3>1. CASE CoderOpens(r) \/ CoderIsSatisfied(r)
      BY <3>1 DEF CoderOpens, CoderIsSatisfied
    <3>2. CASE CoderCommits(r)
      BY <3>2, Committing
    <3>. QED
      BY <1>6, <3>1, <3>2
  <2>3. \A p \in Runs : p # First /\ wf[p].at = "await" => head # 0
    BY <1>1 DEF Control, Fixes
  <2>. QED
    BY <1>1, <1>2, <1>3, <2>1, <2>2, <2>3 DEF Quiet
<1>. QED
  BY <1>4, <1>5, <1>6 DEF CoderStep

LEMMA NextQuiet ==
  ASSUME Typed, Control, Waits, Reports, Quiet, Pinned, [Next]_factoryVars
  PROVE  Quiet' /\ Pinned'
<1>1. ASSUME OtherStep, UNCHANGED head,
             \A q \in Runs : Alive(q)' => Alive(q),
             \A q \in Runs : wf'[q] = wf[q] \/ (wf'[q].at = "queued" /\ wf'[q].awaited = 0)
      PROVE  Quiet' /\ Pinned'
  <2>1. Pinned'
    BY <1>1, WorldFrame DEF Pinned
  <2>2. head # 0 => commits'[head].impl = commits[head].impl
    BY <1>1, OthersPost DEF Typed, Branches, Commits
  <2>3. \A p \in Runs : p # First /\ wf[p].at = "await" => head # 0
    BY DEF Control, Fixes, Typed, Branches
  <2>. QED
    BY <1>1, <2>1, <2>2, <2>3, WorldFrame DEF Quiet
<1>2. CASE Approve \/ MergeStep
  BY <1>1, <1>2, MergeFrame, MergeCoder DEF OtherStep, Alive
<1>3. ASSUME NEW v \in Comments, Comment(v) \/ Revise(v)
      PROVE  Quiet' /\ Pinned'
  <2>1. OtherStep /\ UNCHANGED <<head, coder>>
    BY <1>3, RoundFrame DEF OtherStep
  <2>2. \A q \in Runs : wf'[q] = wf[q] \/ (wf'[q].at = "queued" /\ wf'[q].awaited = 0)
    <3>1. CASE UNCHANGED wf
      BY <3>1
    <3>2. ASSUME NEW n \in Fixes, wf[n].at = "none", wf'[n] = [wf[n] EXCEPT !.at = "queued"]
          PROVE  wf'[n].at = "queued" /\ wf'[n].awaited = 0
      <4>1. wf[n] \in Workflow /\ wf[n].awaited = 0
        BY <3>2 DEF Typed, Waits, Fixes
      <4>. QED
        BY <3>2, <4>1 DEF Workflow
    <3>. QED
      BY <1>3, <3>1, <3>2, RoundStage
  <2>. QED
    BY <1>1, <2>1, <2>2 DEF Alive
<1>4. CASE (\E c \in 1..Len(commits) : BotStep(c)) \/ UNCHANGED factoryVars
  <2>1. OtherStep /\ UNCHANGED <<head, coder, wf>>
    BY <1>4, BotFrame DEF OtherStep, factoryVars
  <2>. QED
    BY <1>1, <2>1 DEF Alive
<1>. QED
  BY <1>2, <1>3, <1>4, Participants, RunKeepsQuiet, CoderKeepsQuiet

-----------------------------------------------------------------------------
(***************************************************************************)
(* Who posts what, and that a grade is the commit's own.                   *)
(***************************************************************************)

\* What is posted on a commit comes from the participant whose verdict it is.
Authors(c) ==
  /\ commits'[c].pushed # commits[c].pushed => \E r \in Runs : CoderPushes(r) /\ c = coder[r].on
  /\ commits'[c].impl # commits[c].impl =>
       \E r \in Runs : \/ CoderReports(r) /\ commits'[c].impl = "success"
                       \/ CoderFails(r)
  /\ commits'[c].holdout # commits[c].holdout => commits'[c].holdout = Grade(c, "holdout")
  /\ commits'[c].devops # commits[c].devops => commits'[c].devops = Grade(c, "devops")
  /\ commits'[c].security # commits[c].security =>
       /\ pr = "open" /\ c = head
       /\ \E r \in Runs : \/ SecurityMirrors(r) /\ commits'[c].security = BotVerdict(wf[r].awaited)
                          \/ SecurityGivesUp(r) /\ commits'[c].security = "pending"
  /\ commits'[c].verdict # commits[c].verdict =>
       pr = "open" /\ c = head /\ commits'[c].verdict = Overall(head) /\ \E r \in Runs : PostStatus(r)
  /\ commits'[c].review # commits[c].review \/ commits'[c].known # commits[c].known =>
       /\ BotReviews(c)
       /\ commits'[c].review = "comment" =>
            commits'[c].known = Len(commits) /\ "comment" \in world.forms /\ "security" \notin commits[c].defects

\* What a run posts, by gate.
LEMMA RunAuthors ==
  ASSUME Typed, NEW r \in Runs, RunStep(r), NEW c \in Commits
  PROVE  Authors(c)
<1>1. CASE UNCHANGED commits
  BY <1>1 DEF Authors
<1>2. CASE Posts(wf[r].cloned, {"holdout"}) /\ commits'[wf[r].cloned].holdout = Grade(wf[r].cloned, "holdout")
  BY <1>2 DEF Authors, Posts, Fields, Commits
<1>3. CASE SecurityMirrors(r) \/ SecurityGivesUp(r)
  <2>1. CASE SecurityMirrors(r) /\ pr = "open"
    <3>1. /\ commits \in Seq(Commit) /\ head \in 1..Len(commits) /\ PostsSecurity(BotVerdict(wf[r].awaited))
          /\ BotVerdict(wf[r].awaited) \in {"success", "failure"}
      BY <2>1 DEF Typed, Branches, SecurityMirrors, BotVerdict, Grade
    <3>2. Posts(head, {"security"}) /\ commits'[head].security = BotVerdict(wf[r].awaited)
      BY <2>1, <3>1, SecurityPosts
    <3>. QED
      BY <2>1, <3>2 DEF Authors, Posts, Fields, Commits
  <2>2. CASE SecurityGivesUp(r) /\ PostsSecurity("pending") /\ pr = "open"
    <3>1. commits \in Seq(Commit) /\ head \in 1..Len(commits)
      BY <2>2 DEF Typed, Branches
    <3>2. Posts(head, {"security"}) /\ commits'[head].security = "pending"
      BY <2>2, <3>1, SecurityPosts
    <3>. QED
      BY <2>2, <3>2 DEF Authors, Posts, Fields, Commits
  <2>3. CASE pr # "open" \/ ~PostsSecurity("pending")
    BY <1>1, <1>3, <2>1, <2>3 DEF SecurityMirrors, SecurityGivesUp, PostsSecurity
  <2>. QED
    BY <1>3, <2>1, <2>2, <2>3
<1>4. CASE PostStatus(r) /\ pr = "open" /\ Posts(head, {"verdict"}) /\ commits'[head].verdict = Overall(head)
  BY <1>4 DEF Authors, Posts, Fields, Commits
<1>. QED
  BY <1>1, <1>2, <1>3, <1>4, RunPosts

LEMMA WhoPosts ==
  ASSUME Typed, [Next]_factoryVars, NEW c \in Commits
  PROVE  Authors(c)
<1>1. CASE UNCHANGED commits
  BY <1>1 DEF Authors
<1>2. commits \in Seq(Commit) /\ Len(commits) \in Nat
  BY DEF Typed, Branches
<1>3. ASSUME NEW k \in 1..Len(commits), BotStep(k)
      PROVE  Authors(c)
  <2>1. CASE BotAcks(k)
    <3>1. Posts(k, {"acked"})
      BY <1>2, <2>1, AckPosts
    <3>. QED
      BY <3>1 DEF Authors, Posts, Fields, Commits
  <2>2. CASE BotReviews(k)
    BY <1>2, <2>2, ReviewPosts DEF Authors, Posts, Fields, Commits
  <2>3. CASE BotChecks(k)
    <3>1. Posts(k, {"devops"}) /\ commits'[k].devops = Grade(k, "devops")
      BY <1>2, <2>3, CheckPosts
    <3>. QED
      BY <3>1 DEF Authors, Posts, Fields, Commits
  <2>. QED
    BY <1>3, <2>1, <2>2, <2>3 DEF BotStep
<1>4. ASSUME NEW r \in Runs, CoderStep(r)
      PROVE  Authors(c)
  <2>1. coder[r].at \in {"committed", "pushed", "opened"} => coder[r].on \in Commits
    BY DEF Typed, Branches, Coders, Coder, Commits
  <2>2. CASE CoderCommits(r)
    BY <2>2, Committing DEF Authors
  <2>3. CASE CoderPushes(r)
    <3>1. Posts(coder[r].on, {"pushed"})
      BY <1>2, <2>1, <2>3, PushPosts DEF CoderPushes, Commits
    <3>. QED
      BY <2>3, <3>1 DEF Authors, Posts, Fields, Commits
  <2>4. CASE CoderReports(r)
    <3>1. Posts(coder[r].on, {"impl"}) /\ commits'[coder[r].on].impl = "success"
      BY <1>2, <2>1, <2>4, ImplPosts DEF CoderReports, Commits
    <3>. QED
      BY <2>4, <3>1 DEF Authors, Posts, Fields, Commits
  <2>5. CASE CoderFails(r) /\ coder[r].at \in {"pushed", "opened"}
    <3>1. Posts(coder[r].on, {"impl"})
      BY <1>2, <2>1, <2>5, ImplPosts DEF CoderFails, Commits
    <3>. QED
      BY <2>5, <3>1 DEF Authors, Posts, Fields, Commits
  <2>6. CASE CoderOpens(r) \/ CoderIsSatisfied(r) \/ (CoderFails(r) /\ coder[r].at \notin {"pushed", "opened"})
    BY <1>1, <2>6 DEF CoderOpens, CoderIsSatisfied, CoderFails
  <2>. QED
    BY <1>4, <2>2, <2>3, <2>4, <2>5, <2>6 DEF CoderStep
<1>. QED
  BY <1>1, <1>3, <1>4, Participants, RunAuthors, RoundFrame, MergeFrame DEF factoryVars

\* A grade is what the commit deserves, whenever and by whichever run it is posted.
Grades ==
  \A c \in Commits :
    /\ commits[c].holdout \in {"none", Grade(c, "holdout")}
    /\ commits[c].devops \in {"none", Grade(c, "devops")}
    /\ commits[c].review = "comment" => "security" \notin commits[c].defects /\ "comment" \in world.forms

LEMMA InitGrades == Init => Grades
  BY DEF Init, Grades, Commits

\* What a commit deserves does not change.
LEMMA GradeStays ==
  ASSUME Typed, [Next]_factoryVars, NEW c \in Commits, NEW gate
  PROVE  Grade(c, gate)' = Grade(c, gate)
<1>1. Kept(c)
  BY CommitsKept
<1>. QED
  BY <1>1 DEF Kept, Grade

\* There is a commit more, of which nothing is known yet, when a coder commits, and never else.
LEMMA OneMore ==
  ASSUME Typed, [Next]_factoryVars, NEW c \in 1..Len(commits'), c \notin Commits
  PROVE  /\ \E r \in Runs : CoderCommits(r)
         /\ c = Len(commits) + 1 /\ Len(commits') = c
         /\ ~commits'[c].pushed /\ commits'[c].impl = "none" /\ commits'[c].holdout = "none"
         /\ commits'[c].security = "none" /\ commits'[c].devops = "none"
         /\ commits'[c].review = "none" /\ commits'[c].verdict = "none"
<1>1. OtherStep => Len(commits') = Len(commits)
  BY OthersPost
<1>2. ASSUME NEW r \in Runs, CoderStep(r), ~CoderCommits(r)
      PROVE  Len(commits') = Len(commits)
  <2>1. coder[r].at \in {"committed", "pushed", "opened"} => coder[r].on \in Commits
    BY DEF Typed, Branches, Coders, Coder, Commits
  <2>2. CASE CoderPushes(r)
    BY <2>1, <2>2, PushPosts DEF CoderPushes, Typed, Branches, Commits, Posts
  <2>3. CASE CoderReports(r)
    BY <2>1, <2>3, ImplPosts DEF CoderReports, Typed, Branches, Commits, Posts
  <2>4. CASE CoderFails(r) /\ coder[r].at \in {"pushed", "opened"}
    BY <2>1, <2>4, ImplPosts DEF CoderFails, Typed, Branches, Commits, Posts
  <2>5. CASE CoderOpens(r) \/ CoderIsSatisfied(r) \/ (CoderFails(r) /\ coder[r].at \notin {"pushed", "opened"})
    BY <2>5 DEF CoderOpens, CoderIsSatisfied, CoderFails
  <2>. QED
    BY <1>2, <2>2, <2>3, <2>4, <2>5 DEF CoderStep
<1>3. Len(commits) \in Nat
  BY DEF Typed, Branches
<1>4. PICK r \in Runs : CoderCommits(r)
  BY <1>1, <1>2, Participants DEF OtherStep, Commits
<1>. QED
  BY <1>3, <1>4, Committing DEF Commits

\* Grades are posted by those who know them.
LEMMA NextGrades ==
  ASSUME Typed, Grades, [Next]_factoryVars
  PROVE  Grades'
<1>. SUFFICES ASSUME NEW c \in 1..Len(commits')
              PROVE  /\ commits'[c].holdout \in {"none", Grade(c, "holdout")'}
                     /\ commits'[c].devops \in {"none", Grade(c, "devops")'}
                     /\ commits'[c].review = "comment" =>
                          "security" \notin commits'[c].defects /\ "comment" \in world'.forms
  BY DEF Grades, Commits
<1>1. CASE c \in Commits
  BY <1>1, WhoPosts, GradeStays, CommitsKept, WorldFrame DEF Grades, Authors, Kept
<1>2. CASE c \notin Commits
  BY <1>2, OneMore
<1>. QED
  BY <1>1, <1>2

-----------------------------------------------------------------------------
(***************************************************************************)
(* In a MicroVM whose runs always end with their bot's answer, a coder     *)
(* that starts finds all that was pushed reviewed: so a comment the bot    *)
(* writes is about the head there is then, and dated by it.                *)
(***************************************************************************)

Undisturbed == OnLambda /\ world.faults \subseteq {"vm_lost", "no_change", "devops_timeout"}

AllReviewed == \A c \in Commits : commits[c].pushed => commits[c].review # "none"

\* A run whose head the bot may not have reviewed.
Pending(r) == wf[r].at \in {"driven", "await"} \/ (wf[r].at = "fan" /\ "security" \in wf[r].todo)

Answered ==
  Undisturbed /\ pr # "merged" =>
    /\ \A c \in Commits : commits[c].impl # "failure"
    /\ \A r \in Runs : Alive(r) => wf[r].at \in {"driven", "await"}
    /\ \A c \in Commits : commits[c].pushed /\ commits[c].review = "none" => c = head
    /\ \A r \in Runs : Writing(r) => AllReviewed /\ coder[r].on = Len(commits)
    /\ (\A r \in Runs : coder[r].at # "committed") => head = Len(commits)
    /\ tree \in {0, Len(commits)}
    /\ \A c \in Commits : commits[c].review = "comment" => commits[c].known = c
    /\ AllReviewed \/ \E r \in Runs : Pending(r)

LEMMA InitAnswered == Init => Answered
  BY DEF Init, Answered, Commits, AllReviewed, Alive, Writing

\* While nobody writes, the head is the last commit.
LEMMA HeadIsLast ==
  ASSUME Answered, Undisturbed, pr # "merged", \A r \in Runs : ~Alive(r)
  PROVE  head = Len(commits)
  BY DEF Answered, Alive

\* A commit is reviewed once, and as it is then the head and the last, a comment names it.
LEMMA ReviewsAreDated ==
  ASSUME Typed, Answered, Undisturbed, pr # "merged", [Next]_factoryVars, NEW c \in 1..Len(commits'),
         commits'[c].review = "comment"
  PROVE  commits'[c].known = c
<1>1. c \in Commits
  BY OneMore
<1>2. CASE UNCHANGED <<commits[c].review, commits[c].known>>
  BY <1>1, <1>2 DEF Answered
<1>3. CASE commits'[c].review # commits[c].review \/ commits'[c].known # commits[c].known
  <2>1. BotReviews(c) /\ commits'[c].known = Len(commits)
    BY <1>1, <1>3, WhoPosts DEF Authors
  <2>2. commits[c].pushed /\ commits[c].review = "none"
    BY <2>1 DEF BotReviews, Reviewable
  <2>3. c = head /\ ~AllReviewed
    BY <1>1, <2>2 DEF Answered, AllReviewed
  <2>4. head = Len(commits)
    BY <2>3 DEF Answered, Writing
  <2>. QED
    BY <2>1, <2>3, <2>4
<1>. QED
  BY <1>2, <1>3

\* The answer a run goes on with is to the head, which is then reviewed with all there is.
LEMMA AnswersHead ==
  ASSUME Typed, Waits, Quiet, Pinned, Answered, Undisturbed, pr # "merged",
         NEW r \in Runs, SecurityMirrors(r)
  PROVE  /\ wf[r].awaited = head /\ head \in Commits /\ commits[head].review # "none"
         /\ AllReviewed
<1>1. wf[r].awaited # 0 /\ wf[r].at = "fan" /\ BotVerdict(wf[r].awaited) # "none"
  BY DEF SecurityMirrors, Verifying
<1>2. wf[r].awaited = head /\ head \in Commits
  BY <1>1 DEF Pinned, Undisturbed, Typed, Branches, Commits
<1>3. head = Len(commits)
  BY <1>1, HeadIsLast DEF Quiet, Undisturbed
<1>4. commits[head].review # "none"
  <2>1. CASE ReviewOf(head)
    BY <2>1 DEF ReviewOf
  <2>2. CASE CleanCommentFor(head)
    <3>1. PICK c \in timely : commits[c].review = "comment" /\ commits[c].known >= head
      BY <2>2 DEF CleanCommentFor
    <3>2. c \in Commits /\ commits[c].known = c
      BY <3>1 DEF Answered, Typed, Branches
    <3>3. c = head
      BY <1>2, <1>3, <3>1, <3>2 DEF Commits, Typed, Branches
    <3>. QED
      BY <3>1, <3>3
  <2>. QED
    BY <1>1, <1>2, <2>1, <2>2 DEF BotVerdict
<1>5. AllReviewed
  BY <1>4 DEF AllReviewed, Answered
<1>. QED
  BY <1>2, <1>4, <1>5

\* Drives apart, a run's step in a MicroVM is nothing to the coders.
LEMMA UndrivenInVm ==
  ASSUME OnLambda, NEW r \in Runs, RunStep(r), ~Drive(r)
  PROVE  UNCHANGED <<coder, tree>>
  BY DEF RunStep, Acquire, ReadStart, AwaitSucceeds, AwaitFails, StepFails, HoldoutClones, Ends, Released,
         HoldoutPosts, SecurityStarts, SecurityMirrors, SecurityGivesUp, DevopsReports, PostStatus, Complete

\* Where nothing is lost but VMs, no step of a run fails.
LEMMA NoRunFails ==
  ASSUME Typed, Answered, Undisturbed, pr # "merged", NEW r \in Runs
  PROVE  ~StepFails(r) /\ ~AwaitFails(r) /\ ~SecurityGivesUp(r) /\ ~CoderFails(r)
<1>1. "deadline" \notin world.faults /\ "security_timeout" \notin world.faults
      /\ "security_error" \notin world.faults /\ "coder_failure" \notin world.faults
  BY DEF Undisturbed
<1>2. ~AwaitFails(r)
  <2>1. AwaitFails(r) => pr = "open" /\ commits[head].impl = "failure"
    BY DEF AwaitFails, SeesNewHead
  <2>. QED
    BY <2>1 DEF Answered, Typed, Branches, Commits
<1>. QED
  BY <1>1, <1>2 DEF StepFails, SecurityGivesUp, CoderFails

\* A run that is not pending any more has had its answer.
LEMMA PendingUntilAnswered ==
  ASSUME Typed, Answered, Undisturbed, pr # "merged", NEW r \in Runs, RunStep(r), Pending(r)
  PROVE  Pending(r)' \/ SecurityMirrors(r)
<1>1. wf \in [Runs -> Workflow] /\ wf[r] \in Workflow /\ ~(wf[r].at \in {"none", "queued", "started", "status", "ended"})
  BY DEF Typed, Pending
<1>2. ~StepFails(r) /\ ~AwaitFails(r) /\ ~SecurityGivesUp(r)
  BY NoRunFails
<1>3. CASE ReadStart(r)
  BY <1>1, <1>3 DEF ReadStart, Pending, Workflow
<1>4. CASE AwaitSucceeds(r)
  BY <1>1, <1>4 DEF AwaitSucceeds, NoRun, Pending, Gates
<1>5. CASE HoldoutClones(r) \/ SecurityStarts(r)
  <2>1. wf[r].at = "fan" /\ wf'[r].at = "fan" /\ wf'[r].todo = wf[r].todo
    BY <1>1, <1>5 DEF HoldoutClones, SecurityStarts, Verifying, Workflow
  <2>. QED
    BY <2>1 DEF Pending
<1>6. CASE HoldoutPosts(r)
  BY <1>1, <1>6 DEF HoldoutPosts, Verifying, Done, Pending, Workflow
<1>7. CASE DevopsReports(r)
  BY <1>1, <1>7 DEF DevopsReports, Verifying, Done, Pending, Workflow
<1>8. ~Acquire(r) /\ ~Drive(r) /\ ~Complete(r) /\ ~PostStatus(r)
  BY <1>1 DEF Acquire, Drive, Complete, PostStatus, Pending
<1>. QED
  BY <1>2, <1>3, <1>4, <1>5, <1>6, <1>7, <1>8 DEF RunStep

\* Unless a step pushes, it leaves everything reviewed that was.
LEMMA ReviewsStay ==
  ASSUME Typed, [Next]_factoryVars, \A c \in Commits : commits'[c].pushed = commits[c].pushed
  PROVE  /\ \A c \in 1..Len(commits') : commits'[c].pushed =>
              c \in Commits /\ commits[c].pushed /\ (commits[c].review # "none" => commits'[c].review # "none")
         /\ AllReviewed => AllReviewed'
<1>1. ASSUME NEW c \in 1..Len(commits'), commits'[c].pushed
      PROVE  c \in Commits /\ commits[c].pushed /\ (commits[c].review # "none" => commits'[c].review # "none")
  <2>1. c \in Commits
    BY <1>1, OneMore
  <2>2. commits[c].pushed
    BY <1>1, <2>1
  <2>3. Kept(c)
    BY <2>1, CommitsKept
  <2>. QED
    BY <2>1, <2>2, <2>3 DEF Kept
<1>. QED
  BY <1>1 DEF AllReviewed, Commits

\* All but what concerns the coders is kept by a step that neither makes nor pushes a commit.
LEMMA UnwrittenStep ==
  ASSUME Typed, Answered, [Next]_factoryVars, Undisturbed, pr # "merged", UNCHANGED <<head, tree>>,
         \A q \in Runs : coder'[q] = coder[q] \/ (~Writing(q)' /\ coder[q].at # "committed"),
         \A q \in Runs : Alive(q)' => wf'[q].at \in {"driven", "await"},
         AllReviewed \/ \A q \in Runs : Pending(q) => Pending(q)',
         Len(commits') = Len(commits), \A c \in Commits : commits'[c].pushed = commits[c].pushed
  PROVE  Answered'
<1>1. \A c \in 1..Len(commits') : commits'[c].impl # "failure"
  <2>1. ASSUME NEW c \in 1..Len(commits') PROVE commits'[c].impl # "failure"
    <3>1. c \in Commits /\ commits[c].impl # "failure"
      BY DEF Answered, Commits
    <3>2. commits'[c].impl # commits[c].impl => commits'[c].impl = "success"
      BY <3>1, WhoPosts, NoRunFails DEF Authors
    <3>. QED
      BY <3>1, <3>2
  <2>. QED
    BY <2>1
<1>2. \A c \in 1..Len(commits') : commits'[c].pushed /\ commits'[c].review = "none" => c = head
  BY ReviewsStay DEF Answered
<1>3. \A q \in Runs : Writing(q)' => AllReviewed' /\ coder'[q].on = Len(commits)
  BY ReviewsStay DEF Answered, Writing
<1>4. (\A q \in Runs : coder'[q].at # "committed") => head = Len(commits)
  BY DEF Answered
<1>5. \A c \in 1..Len(commits') : commits'[c].review = "comment" => commits'[c].known = c
  BY ReviewsAreDated
<1>6. AllReviewed' \/ \E q \in Runs : Pending(q)'
  BY ReviewsStay DEF Answered
<1>. QED
  BY <1>1, <1>2, <1>3, <1>4, <1>5, <1>6 DEF Answered, Commits

\* In a MicroVM the run that is driven finds nobody at work and all there is reviewed.
LEMMA DriveFindsAll ==
  ASSUME Typed, Control, Answered, Undisturbed, pr # "merged", NEW r \in Runs, Drive(r)
  PROVE  AllReviewed /\ (\A q \in Runs : ~Alive(q) /\ ~Pending(q)) /\ head = Len(commits)
<1>1. wf[r].at = "started"
  BY DEF Drive
<1>2. \A q \in Runs : wf[q].at \notin {"driven", "await", "fan"}
  BY <1>1 DEF Control, Running, MutexKey, Undisturbed
<1>3. \A q \in Runs : ~Alive(q) /\ ~Pending(q)
  BY <1>2 DEF Answered, Pending
<1>4. AllReviewed
  BY <1>3 DEF Answered
<1>. QED
  BY <1>3, <1>4, HeadIsLast

\* A run ends with its answer, and the next one starts a coder after it.
LEMMA RunKeepsAnswered ==
  ASSUME Typed, Control, Waits, Quiet, Pinned, Reports, Answered, Undisturbed, pr # "merged",
         NEW r \in Runs, RunStep(r)
  PROVE  Answered'
<1>1. /\ UNCHANGED <<pr, head, world>> /\ OnLambda /\ [Next]_factoryVars
      /\ \A q \in Runs : q # r => wf'[q] = wf[q]
  BY RunFrame, RunStage DEF Next, Undisturbed
<1>2. Len(commits') = Len(commits) /\ \A c \in Commits : commits'[c].pushed = commits[c].pushed
  BY OthersPost DEF OtherStep
<1>3. Quiet'
  BY RunKeepsQuiet
<1>4. CASE ~Drive(r)
  <2>1. UNCHANGED <<coder, tree>>
    BY <1>1, <1>4, UndrivenInVm
  <2>2. \A q \in Runs : Alive(q)' => Alive(q) /\ wf[q].at \in {"driven", "await"} /\ wf'[q].at # "fan"
    BY <1>1, <1>3, <2>1 DEF Answered, Alive, Quiet, OnLambda
  <2>3. wf[r].at \in {"driven", "await"} => wf'[r].at \in {"driven", "await", "fan"}
    <3>1. SecurityMirrors(r) => wf[r].at = "fan"
      BY DEF SecurityMirrors, Verifying
    <3>. QED
      BY <3>1, PendingUntilAnswered DEF Pending
  <2>4. \A q \in Runs : Alive(q)' => wf'[q].at \in {"driven", "await"}
    BY <1>1, <2>2, <2>3
  <2>5. \A q \in Runs : Pending(q) => Pending(q)' \/ AllReviewed
    <3>1. \A q \in Runs : q # r /\ Pending(q) => Pending(q)'
      BY <1>1 DEF Pending
    <3>2. Pending(r) => Pending(r)' \/ AllReviewed
      BY PendingUntilAnswered, AnswersHead
    <3>. QED
      BY <3>1, <3>2
  <2>. QED
    BY <1>1, <1>2, <2>1, <2>4, <2>5, UnwrittenStep
<1>5. CASE Drive(r)
  <2>1. AllReviewed /\ (\A q \in Runs : ~Alive(q) /\ ~Pending(q)) /\ head = Len(commits)
    BY <1>5, DriveFindsAll
  <2>2. wf'[r].at = "driven"
    BY <1>5 DEF Drive, Typed
  <2>3. CASE UNCHANGED <<coder, tree>>
    BY <1>1, <1>2, <2>1, <2>3, UnwrittenStep DEF Alive
  <2>4. CASE /\ coder'[r].at = "working" /\ coder'[r].on = tree' /\ tree' = Len(commits)
             /\ \A q \in Runs : q # r => ~Alive(q)'
    <3>1. \A c \in 1..Len(commits') : commits'[c].impl = commits[c].impl /\ commits[c].impl # "failure"
      BY <1>2, OthersPost DEF OtherStep, Answered, Commits
    <3>2. AllReviewed' /\ \A c \in 1..Len(commits') : commits'[c].pushed /\ commits'[c].review = "none" => c = head
      BY <1>1, <1>2, <2>1, ReviewsStay DEF Answered
    <3>3. \A q \in Runs : q # r => ~Writing(q)'
      BY <2>4 DEF Alive, Writing
    <3>4. \A c \in 1..Len(commits') : commits'[c].review = "comment" => commits'[c].known = c
      BY <1>1, ReviewsAreDated
    <3>. QED
      BY <1>1, <1>2, <2>1, <2>2, <2>4, <3>1, <3>2, <3>3, <3>4 DEF Answered, Commits
  <2>5. tree \in {0, Len(commits)}
    BY DEF Answered
  <2>. QED
    BY <1>1, <1>5, <2>1, <2>3, <2>4, <2>5, DriveInVm
<1>. QED
  BY <1>4, <1>5

\* A coder pushes the last commit, and only when all before it are reviewed.
LEMMA CoderKeepsAnswered ==
  ASSUME Typed, Control, Answered, Undisturbed, pr # "merged", NEW r \in Runs, CoderStep(r)
  PROVE  Answered'
<1>1. /\ UNCHANGED <<wf, world>> /\ OnLambda /\ [Next]_factoryVars /\ Alive(r)
      /\ \A q \in Runs : q # r => coder'[q] = coder[q] /\ ~Alive(q) /\ ~Alive(q)'
  BY CoderFrame, CoderStage DEF Next, Undisturbed, Control, Alive
<1>2. /\ Len(commits) \in Nat /\ commits \in Seq(Commit) /\ coder \in [Runs -> Coder] /\ head \in 0..Len(commits)
      /\ coder[r].at \in {"committed", "pushed", "opened"} => coder[r].on \in Commits
  BY DEF Typed, Branches, Coders, Coder, Commits
<1>3. \A q \in Runs : Alive(q)' => wf'[q].at \in {"driven", "await"}
  BY <1>1 DEF Answered
<1>4. Pending(r)' /\ \A q \in Runs : Pending(q) => Pending(q)'
  BY <1>1 DEF Answered, Pending
<1>5. \A c \in 1..Len(commits') : commits'[c].impl # "failure"
  <2>1. ASSUME NEW c \in 1..Len(commits') PROVE commits'[c].impl # "failure"
    <3>1. CASE c \in Commits
      <4>1. commits'[c].impl # commits[c].impl => commits'[c].impl = "success"
        BY <1>1, <3>1, WhoPosts, NoRunFails DEF Authors
      <4>. QED
        BY <3>1, <4>1 DEF Answered
    <3>2. CASE c \notin Commits
      BY <1>1, <3>2, OneMore
    <3>. QED
      BY <3>1, <3>2
  <2>. QED
    BY <2>1
<1>6. \A c \in 1..Len(commits') : commits'[c].review = "comment" => commits'[c].known = c
  BY <1>1, ReviewsAreDated
<1>7. CASE CoderCommits(r)
  <2>1. PICK n : n = Len(commits) + 1
    OBVIOUS
  <2>2. /\ Len(commits') = n /\ tree' = n /\ UNCHANGED <<pr, head>> /\ coder[r].at = "working"
        /\ coder' = [coder EXCEPT ![r] = [at |-> "committed", on |-> n]]
        /\ \A c \in Commits : commits'[c] = commits[c]
    BY <1>1, <1>7, <2>1, Committing DEF CoderCommits
  <2>3. coder'[r] = [at |-> "committed", on |-> n] /\ \A q \in Runs : q # r => ~Writing(q)'
    BY <1>1, <1>2, <2>2 DEF Alive, Writing
  <2>4. AllReviewed' /\ \A c \in 1..Len(commits') : commits'[c].pushed /\ commits'[c].review = "none" => c = head
    BY <1>1, <2>2, ReviewsStay DEF Answered, Writing
  <2>. QED
    BY <1>3, <1>5, <1>6, <2>2, <2>3, <2>4 DEF Answered, Commits
<1>8. CASE CoderPushes(r)
  <2>1. PICK h \in Commits : h = coder[r].on
    BY <1>2, <1>8 DEF CoderPushes
  <2>2. /\ coder[r].at = "committed" /\ head' = h /\ coder' = [coder EXCEPT ![r].at = "pushed"]
        /\ UNCHANGED <<pr, tree>>
    BY <1>8, <2>1 DEF CoderPushes
  <2>3. AllReviewed /\ h = Len(commits)
    BY <2>1, <2>2 DEF Answered, Writing
  <2>4. Len(commits') = Len(commits) /\ \A c \in Commits : c # h => commits'[c] = commits[c]
    BY <1>2, <1>8, <2>1, PushPosts DEF Posts, Commits
  <2>5. \A q \in Runs : ~Writing(q)'
    BY <1>1, <1>2, <2>2 DEF Alive, Writing
  <2>6. tree' \in {0, Len(commits')}
    BY <2>2, <2>4 DEF Answered
  <2>7. \A c \in 1..Len(commits') : commits'[c].pushed /\ commits'[c].review = "none" => c = head'
    BY <2>2, <2>3, <2>4 DEF AllReviewed, Commits
  <2>. QED
    BY <1>3, <1>4, <1>5, <1>6, <2>2, <2>3, <2>4, <2>5, <2>6, <2>7 DEF Answered, Commits
<1>9. CASE CoderIsSatisfied(r)
  <2>1. /\ UNCHANGED <<pr, head, tree, commits>> /\ coder[r].at = "working" /\ coder'[r].on = coder[r].on
    BY <1>2, <1>9 DEF CoderIsSatisfied, Coder
  <2>2. AllReviewed /\ coder[r].on = Len(commits) /\ head = Len(commits)
    BY <1>1, <2>1 DEF Answered, Writing, Alive
  <2>3. \A q \in Runs : q # r => ~Writing(q)'
    BY <1>1 DEF Alive, Writing
  <2>4. AllReviewed' /\ \A c \in Commits : commits'[c].pushed /\ commits'[c].review = "none" => c = head
    BY <1>1, <2>1, <2>2, ReviewsStay DEF Answered, Commits
  <2>5. tree \in {0, Len(commits)}
    BY DEF Answered
  <2>. QED
    BY <1>3, <1>5, <1>6, <2>1, <2>2, <2>3, <2>4, <2>5 DEF Answered, Commits
<1>10. CASE CoderOpens(r) \/ CoderReports(r)
  <2>1. UNCHANGED <<head, tree>> /\ coder[r].at \in {"pushed", "opened"}
    BY <1>10 DEF CoderOpens, CoderReports
  <2>2. ~Writing(r)'
    <3>1. CASE CoderOpens(r)
      BY <1>2, <3>1 DEF CoderOpens, Writing
    <3>2. CASE CoderReports(r)
      BY <1>2, <3>2 DEF CoderReports, Writing
    <3>. QED
      BY <1>10, <3>1, <3>2
  <2>3. Len(commits') = Len(commits) /\ \A c \in Commits : commits'[c].pushed = commits[c].pushed
    <3>1. CASE CoderOpens(r)
      BY <3>1 DEF CoderOpens
    <3>2. CASE CoderReports(r)
      <4>1. Posts(coder[r].on, {"impl"})
        BY <1>2, <3>2, ImplPosts DEF CoderReports, Commits
      <4>. QED
        BY <4>1 DEF Posts, Fields, Commits
    <3>. QED
      BY <1>10, <3>1, <3>2
  <2>4. \A q \in Runs : coder'[q] = coder[q] \/ (~Writing(q)' /\ coder[q].at # "committed")
    BY <1>1, <2>1, <2>2
  <2>. QED
    BY <1>1, <1>3, <1>4, <2>1, <2>3, <2>4, UnwrittenStep
<1>. QED
  BY <1>7, <1>8, <1>9, <1>10, NoRunFails DEF CoderStep

LEMMA NextAnswered ==
  ASSUME Typed, Control, Waits, Quiet, Pinned, Reports, Answered, [Next]_factoryVars
  PROVE  Answered'
<1>. SUFFICES ASSUME Undisturbed, pr' # "merged" PROVE Answered'
  BY WorldFrame DEF Answered, Undisturbed
<1>1. ASSUME pr # "merged", OtherStep, UNCHANGED <<head, coder, tree>>,
             \A q \in Runs : wf'[q] = wf[q] \/ wf[q].at = "none"
      PROVE  Answered'
  <2>1. Len(commits') = Len(commits) /\ \A c \in Commits : commits'[c].pushed = commits[c].pushed
    BY <1>1, OthersPost
  <2>2. \A q \in Runs : Alive(q)' => wf'[q].at \in {"driven", "await"}
    BY <1>1 DEF Answered, Alive
  <2>3. \A q \in Runs : Pending(q) => Pending(q)'
    BY <1>1 DEF Pending
  <2>. QED
    BY <1>1, <2>1, <2>2, <2>3, UnwrittenStep
<1>2. CASE \E r \in Runs : RunStep(r)
  BY <1>2, RunFrame, RunKeepsAnswered
<1>3. ASSUME NEW r \in Runs, CoderStep(r)
      PROVE  Answered'
  <2>1. pr # "merged"
    BY <1>3, CoderStage DEF Control
  <2>. QED
    BY <1>3, <2>1, CoderKeepsAnswered
<1>4. ASSUME NEW v \in Comments, Comment(v) \/ Revise(v)
      PROVE  Answered'
  BY <1>1, <1>4, RoundFrame, RoundStage DEF OtherStep, Fixes
<1>5. CASE Approve \/ MergeStep
  <2>1. UNCHANGED <<pr, head, wf, coder, tree>>
    BY <1>5 DEF Approve, MergeStep, MergeReads, MergePasses, MergeRefuses, MergePuts
  <2>. QED
    BY <1>1, <1>5, <2>1 DEF OtherStep
<1>6. CASE (\E c \in 1..Len(commits) : BotStep(c)) \/ UNCHANGED factoryVars
  BY <1>1, <1>6, BotFrame DEF OtherStep, factoryVars
<1>. QED
  BY <1>2, <1>3, <1>4, <1>5, <1>6, Participants

-----------------------------------------------------------------------------
(***************************************************************************)
(* The verdicts: what was posted on a commit is about that commit.         *)
(***************************************************************************)

\* Everything the branch, the coders and the fans keep, together.
Factory ==
  /\ Typed /\ Control /\ OwnBranch /\ TreeLeads /\ Reports
  /\ Waits /\ Quiet /\ Pinned /\ Grades /\ Answered

LEMMA InitFactory == Init => Factory
  BY InitTyped, InitControl, InitBranch, InitReports, InitQuiet, InitGrades, InitAnswered DEF Factory

LEMMA NextFactory ==
  ASSUME Factory, [Next]_factoryVars
  PROVE  Factory'
  BY NextTyped, NextControl, NextOwnBranch, NextTreeLeads, NextReports, NextWaits, NextQuiet, NextGrades,
     NextAnswered DEF Factory

\* Factory is an invariant: what all the theorems below rest on.
LEMMA AlwaysFactory == Spec => []Factory
<1>. QED
  BY InitFactory, NextFactory, PTL DEF Spec

\* While the pull request is open, what security-wait.js goes by is a verdict on the head.
LEMMA VerdictIsHeads ==
  ASSUME Factory, AnswersFindTheirHead, pr = "open", NEW r \in Runs, SecurityMirrors(r)
  PROVE  commits[head].review # "none" /\ BotVerdict(wf[r].awaited) = Grade(head, "security")
<1>1. wf[r].awaited # 0 /\ BotVerdict(wf[r].awaited) # "none"
  BY DEF SecurityMirrors
<1>2. wf[r].awaited = head /\ timely \subseteq Commits
  BY <1>1 DEF Factory, Pinned, AnswersFindTheirHead, Typed, Branches
<1>3. CASE ReviewOf(head)
  BY <1>2, <1>3 DEF ReviewOf, BotVerdict
<1>4. CASE CleanCommentFor(head) /\ ~ReviewOf(head)
  <2>1. PICK c \in Commits : commits[c].review = "comment" /\ commits[c].known >= head
    BY <1>2, <1>4 DEF CleanCommentFor
  <2>2. "comment" \in world.forms /\ "security" \notin commits[c].defects
    BY <2>1 DEF Factory, Grades
  <2>3. Undisturbed
    BY <2>2 DEF AnswersFindTheirHead, Undisturbed
  <2>4. head \in Commits /\ commits[head].review # "none" /\ head = Len(commits)
    BY <2>3, AnswersHead, HeadIsLast DEF Factory, Quiet, Undisturbed, SecurityMirrors, Verifying
  <2>5. c = head
    BY <2>1, <2>3, <2>4 DEF Factory, Answered, Commits, Typed, Branches
  <2>. QED
    BY <1>2, <1>4, <2>2, <2>4, <2>5 DEF BotVerdict, Grade
<1>. QED
  BY <1>1, <1>2, <1>3, <1>4 DEF BotVerdict

Mirrored ==
  AnswersFindTheirHead => \A c \in Commits :
    commits[c].security \in {"success", "failure"} =>
      commits[c].review # "none" /\ commits[c].security = Grade(c, "security")

\* Only security-wait.js posts it, by the verdict on the head.
LEMMA NextMirrored ==
  ASSUME Factory, Mirrored, [Next]_factoryVars
  PROVE  Mirrored'
<1>1. Typed
  BY DEF Factory
<1>. SUFFICES ASSUME AnswersFindTheirHead, NEW c \in 1..Len(commits'), commits'[c].security \in {"success", "failure"}
              PROVE  commits'[c].review # "none" /\ commits'[c].security = Grade(c, "security")'
  BY <1>1, WorldFrame DEF Mirrored, AnswersFindTheirHead, Commits
<1>2. c \in Commits /\ Kept(c) /\ Grade(c, "security")' = Grade(c, "security") /\ Authors(c)
  BY <1>1, OneMore, CommitsKept, GradeStays, WhoPosts
<1>3. CASE commits'[c].security = commits[c].security
  BY <1>2, <1>3 DEF Mirrored, Kept
<1>4. CASE commits'[c].security # commits[c].security
  <2>1. PICK r \in Runs : SecurityMirrors(r) /\ commits'[c].security = BotVerdict(wf[r].awaited)
    BY <1>2, <1>4 DEF Authors
  <2>2. pr = "open" /\ c = head
    BY <1>2, <1>4 DEF Authors
  <2>3. commits[head].review # "none" /\ BotVerdict(wf[r].awaited) = Grade(head, "security")
    BY <2>1, <2>2, VerdictIsHeads
  <2>. QED
    BY <1>2, <2>1, <2>2, <2>3 DEF Kept
<1>. QED
  BY <1>3, <1>4

\* In a MicroVM the status on a commit is the bot's own verdict on that commit.
THEOREM MirrorsAreOfTheirHead == Spec => []VerdictsMirrorTheirHead
<1>1. Init => Mirrored
  BY DEF Init, Mirrored, Commits
<1>2. Factory /\ Mirrored /\ [Next]_factoryVars => Mirrored'
  BY NextMirrored
<1>3. Mirrored => VerdictsMirrorTheirHead
  BY DEF Mirrored, VerdictsMirrorTheirHead, Commits
<1>. QED
  BY <1>1, <1>2, <1>3, AlwaysFactory, PTL DEF Spec

\* A gate that is done with has left its verdict on the head, or has ended without one.
GatesPosted ==
  OnLambda /\ pr = "open" => \A r \in Runs : wf[r].at = "fan" =>
    /\ "security" \in wf[r].todo \/ "security_error" \in world.faults \/ commits[head].security # "none"
    /\ "devops" \in wf[r].todo \/ "devops_timeout" \in world.faults \/ commits[head].devops # "none"

\* A gate leaves the todo list of its run when it has posted or given up.
LEMMA RunPostsGates ==
  ASSUME Typed, NEW r \in Runs, RunStep(r), wf'[r].at = "fan", pr = "open"
  PROVE  /\ \/ "security" \in wf'[r].todo \/ (wf[r].at = "fan" /\ "security" \notin wf[r].todo)
            \/ "security_error" \in world.faults \/ commits'[head].security # "none"
         /\ \/ "devops" \in wf'[r].todo \/ (wf[r].at = "fan" /\ "devops" \notin wf[r].todo)
            \/ "devops_timeout" \in world.faults \/ commits[head].devops # "none"
<1>1. wf \in [Runs -> Workflow] /\ wf[r] \in Workflow /\ commits \in Seq(Commit) /\ head \in 1..Len(commits)
  BY DEF Typed, Branches
<1>2. CASE wf[r].at # "fan"
  BY <1>2, RunAwaits DEF Gates
<1>3. CASE HoldoutClones(r) \/ SecurityStarts(r)
  <2>1. wf[r].at = "fan" /\ wf'[r].todo = wf[r].todo
    BY <1>1, <1>3 DEF HoldoutClones, SecurityStarts, Verifying, Workflow
  <2>. QED
    BY <2>1
<1>4. CASE HoldoutPosts(r)
  <2>1. wf[r].at = "fan" /\ wf'[r].todo = wf[r].todo \ {"holdout"}
    BY <1>1, <1>4 DEF HoldoutPosts, Verifying, Done, Workflow
  <2>. QED
    BY <2>1
<1>5. CASE SecurityMirrors(r) \/ SecurityGivesUp(r)
  <2>1. wf[r].at = "fan" /\ wf'[r].todo = wf[r].todo \ {"security"}
    BY <1>1, <1>5 DEF SecurityMirrors, SecurityGivesUp, Verifying, Done, Workflow
  <2>2. CASE SecurityMirrors(r)
    <3>1. BotVerdict(wf[r].awaited) \in {"success", "failure"} /\ PostsSecurity(BotVerdict(wf[r].awaited))
      BY <2>2 DEF SecurityMirrors, BotVerdict, Grade
    <3>2. commits'[head].security # "none"
      BY <1>1, <3>1, SecurityPosts
    <3>. QED
      BY <2>1, <3>2
  <2>3. CASE PostsSecurity("pending")
    BY <1>1, <2>1, <2>3, SecurityPosts
  <2>. QED
    BY <1>5, <2>1, <2>2, <2>3 DEF SecurityGivesUp
<1>6. CASE DevopsReports(r)
  <2>1. wf[r].at = "fan" /\ wf'[r].todo = wf[r].todo \ {"devops"}
    BY <1>1, <1>6 DEF DevopsReports, Verifying, Done, Workflow
  <2>. QED
    BY <1>6, <2>1 DEF DevopsReports
<1>7. CASE \/ Acquire(r) \/ Drive(r) \/ ReadStart(r) \/ AwaitSucceeds(r) \/ AwaitFails(r)
           \/ PostStatus(r) \/ Complete(r)
  BY <1>1, <1>2, <1>7 DEF Acquire, Drive, ReadStart, AwaitSucceeds, AwaitFails, SeesNewHead, PostStatus, Complete,
     Ends, Ended, NoRun
<1>8. CASE StepFails(r)
  BY <1>1, <1>8 DEF StepFails, Ends, Ended, NoRun
<1>. QED
  BY <1>3, <1>4, <1>5, <1>6, <1>7, <1>8 DEF RunStep

\* No coder moves the head from under the gates.
LEMMA NextGatesPosted ==
  ASSUME Factory, GatesPosted, [Next]_factoryVars
  PROVE  GatesPosted'
<1>. SUFFICES ASSUME OnLambda, pr' = "open", NEW r \in Runs, wf'[r].at = "fan"
              PROVE  /\ "security" \in wf'[r].todo \/ "security_error" \in world.faults \/ commits'[head'].security # "none"
                     /\ "devops" \in wf'[r].todo \/ "devops_timeout" \in world.faults \/ commits'[head'].devops # "none"
  BY WorldFrame DEF GatesPosted, Factory
<1>1. Typed /\ Control /\ Quiet
  BY DEF Factory
<1>2. ASSUME pr = "open", UNCHANGED head, wf'[r] = wf[r]
      PROVE  /\ "security" \in wf'[r].todo \/ "security_error" \in world.faults \/ commits'[head'].security # "none"
             /\ "devops" \in wf'[r].todo \/ "devops_timeout" \in world.faults \/ commits'[head'].devops # "none"
  <2>1. head \in Commits
    BY <1>1, <1>2 DEF Typed, Branches, Commits
  <2>2. Kept(head)
    BY <1>1, <2>1, CommitsKept
  <2>. QED
    BY <1>2, <2>2 DEF GatesPosted, Kept
<1>3. ASSUME NEW q \in Runs, RunStep(q)
      PROVE  /\ "security" \in wf'[r].todo \/ "security_error" \in world.faults \/ commits'[head'].security # "none"
             /\ "devops" \in wf'[r].todo \/ "devops_timeout" \in world.faults \/ commits'[head'].devops # "none"
  <2>1. UNCHANGED <<pr, head>> /\ (q # r => wf'[r] = wf[r])
    BY <1>1, <1>3, RunFrame, RunStage
  <2>2. CASE q = r
    <3>1. head \in Commits
      BY <1>1, <2>1 DEF Typed, Branches, Commits
    <3>2. Kept(head)
      BY <1>1, <3>1, CommitsKept
    <3>. QED
      BY <1>1, <1>3, <2>1, <2>2, <3>2, RunPostsGates DEF GatesPosted, Kept
  <2>. QED
    BY <1>2, <2>1, <2>2
<1>4. ASSUME NEW q \in Runs, CoderStep(q)
      PROVE  FALSE
  BY <1>1, <1>4, CoderFrame, CoderStage DEF Quiet
<1>5. ASSUME NEW v \in Comments, Comment(v) \/ Revise(v)
      PROVE  pr = "open" /\ UNCHANGED head /\ wf'[r] = wf[r]
  <2>1. wf'[r] = wf[r]
    <3>1. ASSUME NEW n \in Fixes, wf'[n] = [wf[n] EXCEPT !.at = "queued"]
          PROVE  wf'[n].at = "queued"
      BY <1>1, <3>1 DEF Typed, Fixes, Workflow
    <3>. QED
      BY <1>1, <1>5, <3>1, RoundStage
  <2>. QED
    BY <1>5, <2>1, RoundFrame
<1>6. CASE Approve \/ MergeStep
  BY <1>2, <1>6 DEF Approve, MergeStep, MergeReads, MergePasses, MergeRefuses, MergePuts
<1>7. CASE (\E c \in 1..Len(commits) : BotStep(c)) \/ UNCHANGED factoryVars
  BY <1>2, <1>7, BotFrame DEF factoryVars
<1>. QED
  BY <1>2, <1>3, <1>4, <1>5, <1>6, <1>7, Participants

Cleared ==
  AnswersFindTheirHead /\ world.faults \cap {"security_error", "devops_timeout"} = {} => \A c \in Commits :
    commits[c].verdict = "success" =>
      commits[c].review # "none" /\ commits[c].devops = "success" /\ "security" \notin commits[c].defects

\* The verdict of the status step goes by what is posted on the head itself.
LEMMA StatusIsOfHead ==
  ASSUME Factory, Mirrored, GatesPosted, AnswersFindTheirHead, world.faults \cap {"security_error", "devops_timeout"} = {},
         pr = "open", NEW r \in Runs, PostStatus(r), Overall(head) = "success"
  PROVE  commits[head].review # "none" /\ commits[head].devops = "success" /\ "security" \notin commits[head].defects
<1>1. head \in Nat /\ head # 0 /\ head \in Commits /\ commits \in Seq(Commit) /\ commits[head] \in Commit
  BY DEF Factory, Typed, Branches, Commits
<1>2. commits[head].security # "none" /\ commits[head].devops # "none"
  BY DEF PostStatus, GatesPosted, AnswersFindTheirHead
<1>3. Latest(head, "security") = commits[head].security /\ Latest(head, "devops") = commits[head].devops
  BY <1>1, <1>2, LatestOfHead
<1>4. Security(head) = commits[head].security
  BY <1>2, <1>3 DEF Security
<1>5. "failure" \notin Signals(head) /\ "pending" \notin Signals(head)
  BY DEF Overall
<1>6. commits[head].security = "success" /\ commits[head].devops = "success"
  BY <1>1, <1>2, <1>3, <1>4, <1>5 DEF Signals, Commit
<1>. QED
  BY <1>1, <1>6 DEF Mirrored, Grade

\* What cleared the head is not taken back.
LEMMA NextCleared ==
  ASSUME Factory, Mirrored, GatesPosted, Cleared, [Next]_factoryVars
  PROVE  Cleared'
<1>1. Typed
  BY DEF Factory
<1>. SUFFICES ASSUME AnswersFindTheirHead, world.faults \cap {"security_error", "devops_timeout"} = {},
                     NEW c \in 1..Len(commits'), commits'[c].verdict = "success"
              PROVE  commits'[c].review # "none" /\ commits'[c].devops = "success" /\ "security" \notin commits'[c].defects
  BY <1>1, WorldFrame DEF Cleared, AnswersFindTheirHead, Commits
<1>2. c \in Commits /\ Kept(c) /\ Authors(c)
  BY <1>1, OneMore, CommitsKept, WhoPosts
<1>3. commits[c].review # "none" /\ commits[c].devops = "success" /\ "security" \notin commits[c].defects
  <2>1. CASE commits[c].verdict = "success"
    BY <1>2, <2>1 DEF Cleared
  <2>2. CASE commits[c].verdict # "success"
    BY <1>2, <2>2, StatusIsOfHead DEF Authors
  <2>. QED
    BY <2>1, <2>2
<1>4. commits'[c].devops = "success"
  <2>1. Grade(c, "devops") = "success"
    BY <1>2, <1>3 DEF Factory, Grades
  <2>. QED
    BY <1>2, <1>3, <2>1 DEF Authors
<1>. QED
  BY <1>2, <1>3, <1>4 DEF Kept

\* A verdict that clears the head is that of the agents that looked at that head.
THEOREM ClearedHeadsWereSeen == Spec => []ClearVerdictsAreOfTheirHead
<1>1. Init => Mirrored /\ GatesPosted /\ Cleared
  BY DEF Init, Mirrored, GatesPosted, Cleared, Commits
<1>2. Factory /\ Mirrored /\ GatesPosted /\ Cleared /\ [Next]_factoryVars => Mirrored' /\ GatesPosted' /\ Cleared'
  BY NextMirrored, NextGatesPosted, NextCleared
<1>3. Cleared => ClearVerdictsAreOfTheirHead
  BY DEF Cleared, ClearVerdictsAreOfTheirHead, Commits
<1>. QED
  BY <1>1, <1>2, <1>3, AlwaysFactory, PTL DEF Spec

-----------------------------------------------------------------------------
(***************************************************************************)
(* The merge.                                                              *)
(***************************************************************************)

\* The gate of merge.js lets through what deserves no failure: what it reads as green
\* was graded, and a grade is not posted on the wrong commit.
GatedIsSound ==
  merge.at = "gated" =>
    commits[merge.sha].defects \subseteq (IF AnswersFindTheirHead THEN {} ELSE {"security"})

\* Between the gate and the merge only more is posted.
LEMMA NextGatedIsSound ==
  ASSUME Factory, Mirrored, GatedIsSound, [Next]_factoryVars
  PROVE  GatedIsSound'
<1>. SUFFICES ASSUME merge'.at = "gated" PROVE GatedIsSound'
  BY DEF GatedIsSound
<1>1. /\ Typed /\ commits \in Seq(Commit)
      /\ merge \in [of : 0..Len(commits), sha : 0..Len(commits), at : {"none", "read", "gated"}]
      /\ merge.at # "none" => merge.sha \in Commits
  BY DEF Factory, Typed, Branches, Merging, Commits
<1>2. AnswersFindTheirHead' <=> AnswersFindTheirHead
  BY <1>1, WorldFrame DEF AnswersFindTheirHead
<1>3. ASSUME merge.sha \in Commits, merge'.sha = merge.sha,
             commits[merge.sha].defects \subseteq (IF AnswersFindTheirHead THEN {} ELSE {"security"})
      PROVE  GatedIsSound'
  <2>1. Kept(merge.sha)
    BY <1>1, <1>3, CommitsKept
  <2>. QED
    BY <1>2, <1>3, <2>1 DEF Kept, GatedIsSound
<1>4. CASE UNCHANGED merge
  BY <1>1, <1>3, <1>4 DEF GatedIsSound
<1>5. CASE MergePasses
  <2>1. PICK c \in Commits : c = merge.sha
    BY <1>1, <1>5 DEF MergePasses
  <2>2. /\ commits[c].holdout = "success" /\ commits[c].security = "success" /\ commits[c].devops = "success"
        /\ merge' = [merge EXCEPT !.at = "gated"]
    BY <1>5, <2>1 DEF MergePasses, Green
  <2>3. "holdout" \notin commits[c].defects /\ "devops" \notin commits[c].defects
    BY <2>2 DEF Factory, Grades, Grade
  <2>4. AnswersFindTheirHead => "security" \notin commits[c].defects
    BY <2>2 DEF Mirrored, Grade
  <2>5. commits[c].defects \in SUBSET Gates
    <3>1. commits[c] \in Commit
      BY <1>1 DEF Commits
    <3>. QED
      BY <3>1 DEF Commit
  <2>. QED
    BY <1>1, <1>3, <2>1, <2>2, <2>3, <2>4, <2>5 DEF Gates
<1>6. CASE \E h \in approved : MergeReads(h)
  BY <1>6 DEF MergeReads
<1>7. CASE MergeRefuses \/ MergePuts
  BY <1>7 DEF MergeRefuses, MergePuts, NoMerge
<1>8. CASE Approve
  BY <1>4, <1>8 DEF Approve
<1>. QED
  BY <1>4, <1>5, <1>6, <1>7, <1>8, Participants, RunFrame, CoderFrame, BotFrame, RoundFrame DEF MergeStep, factoryVars

\* merged changes by PUT merge alone.
LEMMA OnlyPutsMerge ==
  ASSUME [Next]_factoryVars, merged' # merged
  PROVE  MergePuts
<1>1. Approve \/ MergeStep
  BY Participants, RunFrame, CoderFrame, BotFrame, RoundFrame DEF factoryVars
<1>. QED
  BY <1>1 DEF Approve, MergeStep, MergeReads, MergePasses, MergeRefuses

\* What is merged at the head the gate read deserves none of the gates' failures.
THEOREM MergesAreSound == Spec => UnmovedMergesAreSound
<1>1. Init => Mirrored /\ GatedIsSound
  BY DEF Init, Mirrored, GatedIsSound, Commits, NoMerge
<1>2. Factory /\ Mirrored /\ GatedIsSound /\ [Next]_factoryVars => Mirrored' /\ GatedIsSound'
  BY NextMirrored, NextGatedIsSound
<1>3. Factory /\ GatedIsSound /\ [Next]_factoryVars
        => [merged' # merged /\ merged' = merge.sha =>
              commits[merged'].defects \subseteq (IF AnswersFindTheirHead THEN {} ELSE {"security"})]_factoryVars
  <2>1. ASSUME Factory, GatedIsSound, [Next]_factoryVars, merged' # merged, merged' = merge.sha
        PROVE  commits[merged'].defects \subseteq (IF AnswersFindTheirHead THEN {} ELSE {"security"})
    <3>1. merge.at = "gated"
      BY <2>1, OnlyPutsMerge DEF MergePuts
    <3>. QED
      BY <2>1, <3>1 DEF GatedIsSound
  <2>. QED
    BY <2>1
<1>. QED
  BY <1>1, <1>2, <1>3, AlwaysFactory, PTL DEF Spec, UnmovedMergesAreSound

=============================================================================
