-------------------------- MODULE StatusLabels_proofs --------------------------
(***************************************************************************)
(* What StatusLabels.tla promises, for any set of pull requests, commits   *)
(* and scoreboards and any number of failures.                             *)
(*                                                                         *)
(* A pull request's invariant mentions only its own records, labels and    *)
(* jobs, so each action is looked at for the pull request it is about and  *)
(* leaves the invariant of the others alone (lemma Others).  The functions *)
(* that derive a status are never expanded: the argument is about when     *)
(* records are read, not about what is made of them.                       *)
(***************************************************************************)
EXTENDS StatusLabels, TLAPS

\* What a status is made of stays within its types.
LEMMA CiType == ASSUME NEW s PROVE ci_status(s) \in CiStates
  BY DEF ci_status, CiStates

LEMMA LabelType ==
  ASSUME NEW l \in Lifecycles, NEW x \in CiStates, NEW r, NEW i
  PROVE  derived_label(l, x, r, i) \in StatusLabels \cup {NoLabel}
  <1>1. CASE l # "open"
    BY <1>1 DEF derived_label
  <1>2. CASE l = "open"
    BY <1>2 DEF derived_label, StatusLabels, NoLabel, CiStates
  <1> QED BY <1>1, <1>2

LEMMA NoLabelIsNone == NoLabel \notin StatusLabels
  BY DEF NoLabel, StatusLabels

\* A job's locals are replaced as a whole.
LEMMA SetType ==
  ASSUME job \in [PRs -> [Callers -> Job]],
         NEW p \in PRs, NEW c \in Callers, NEW r \in Job, Set(p, c, r)
  PROVE  job' \in [PRs -> [Callers -> Job]]
  BY DEF Set

LEMMA IdleJobType == IdleJob \in Job
  BY DEF IdleJob, Job, Locals, Steps, CiStates

\* All variables of StatusLabels keep their types, for every value of the
\* constants: labels.py writes status labels only, one failure at a time.
THEOREM TypeCorrect == Spec => []TypeOK
<1> USE FaultsAssumption
<1>1. Init => TypeOK
  BY IdleJobType DEF Init, TypeOK, Lifecycles, BuildStates
<1>2. TypeOK /\ [Next]_vars => TypeOK'
  <2> SUFFICES ASSUME TypeOK, [Next]_vars PROVE TypeOK'
    OBVIOUS
  <2> USE DEF TypeOK
  <2>1. ASSUME NEW p \in PRs, People(p) PROVE TypeOK'
    <3> USE DEF truth, ci, sweep
    <3>1. ASSUME NEW h \in Heads, Push(p, h) PROVE TypeOK'
      BY <3>1 DEF Push, Request
    <3>2. ASSUME NEW h \in Heads, PostMarker(p, h) PROVE TypeOK'
      BY <3>2 DEF PostMarker, Request
    <3>3. ASSUME NEW how \in {"closed", "merged"}, Close(p, how) PROVE TypeOK'
      BY <3>3 DEF Close, Request, Lifecycles
    <3>4. CASE Reopen(p)
      BY <3>4 DEF Reopen, Request, Lifecycles
    <3>5. ASSUME NEW b \in Boards, PostScoreboard(p, b) PROVE TypeOK'
      BY <3>5 DEF PostScoreboard, Request
    <3>6. CASE DispatchBuild(p)
      BY <3>6 DEF DispatchBuild
    <3>7. CASE Resync(p)
      BY <3>7 DEF Resync, Request
    <3> QED BY <2>1, <3>1, <3>2, <3>3, <3>4, <3>5, <3>6, <3>7 DEF People
  <2>2. ASSUME NEW p \in PRs, NEW c \in Callers, Begin(p, c)
        PROVE  job' \in [PRs -> [Callers -> Job]] /\ disturbed' \in [PRs -> BOOLEAN]
    <3>1. [IdleJob EXCEPT !.pc = "pr"] \in Job
      BY DEF IdleJob, Job, Locals, Steps, CiStates
    <3> QED BY <2>2, <3>1, SetType DEF Begin
  <2>3. ASSUME NEW p \in PRs, NEW h \in Heads, Builds(p, h) PROVE TypeOK'
    <3> USE DEF truth, ci, sweep
    <3>1. ASSUME NEW s \in PostedStates, PostBuild(p, h, s) PROVE TypeOK'
      BY <3>1, StatesAssumption DEF PostBuild
    <3>2. ASSUME NEW s \in PostedStates, PostDispatchedBuild(p, h, s) PROVE TypeOK'
      BY <3>2, StatesAssumption DEF PostDispatchedBuild
    <3>3. CASE CompleteBuild(p, h)
      <4>1. /\ pending' \in [PRs -> BOOLEAN]
            /\ resolving' \in [PRs -> SUBSET Heads]
        <5>1. CASE p \in Forks
          BY <3>3, <5>1 DEF CompleteBuild
        <5>2. CASE p \notin Forks
          BY <3>3, <5>2 DEF CompleteBuild, Request
        <5> QED BY <5>1, <5>2
      <4> QED BY <3>3, <4>1 DEF CompleteBuild
    <3>4. CASE CompleteDispatchedBuild(p, h)
      BY <3>4 DEF CompleteDispatchedBuild
    <3>5. CASE Resolve(p, h)
      BY <3>5 DEF Resolve, Request
    <3>6. CASE ExpireMarker(p, h)
      BY <3>6 DEF ExpireMarker
    <3>7. ASSUME NEW s \in PostedStates, PostOthersBuild(p, h, s) PROVE TypeOK'
      BY <3>7, StatesAssumption DEF PostOthersBuild
    <3>8. ASSUME Missed(p, h) PROVE disturbed' \in [PRs -> BOOLEAN]
      BY <3>8 DEF Missed
    <3>9. CASE CompleteBuildForOther(p, h)
      BY <3>8, <3>9 DEF CompleteBuildForOther
    <3>10. CASE ResolveAmbiguous(p, h)
      BY <3>8, <3>10 DEF ResolveAmbiguous
    <3>11. CASE ResolveFails(p, h)
      BY <3>8, <3>11 DEF ResolveFails
    <3>12. CASE Share(p, h)
      BY <3>12 DEF Share
    <3> QED BY <2>3, <3>1, <3>2, <3>3, <3>4, <3>5, <3>6, <3>7, <3>9, <3>10, <3>11,
               <3>12 DEF Builds
  <2>4. ASSUME NEW p \in PRs, NEW c \in Callers, Reconcile(p, c) PROVE TypeOK'
    <3> DEFINE j == job[p][c]
    <3> j \in Job
      OBVIOUS
    <3>1. CASE ReadPR(p, c)
      <4>1. /\ [IdleJob EXCEPT !.pc = "build", !.head = head[p]] \in Job
            /\ [IdleJob EXCEPT !.pc = "labels"] \in Job
        BY DEF IdleJob, Job, Locals, Steps, CiStates
      <4> QED BY <3>1, <4>1, SetType DEF ReadPR, truth, ci, sweep
    <3>2. CASE ReadBuild(p, c)
      <4>1. [j EXCEPT !.pc = "comments", !.ci = ci_status(build[p][j.head])] \in Job
        BY CiType DEF Job, Locals, Steps
      <4> QED BY <3>2, <4>1, SetType DEF ReadBuild, truth, ci, sweep
    <3>3. CASE ReadComments(p, c)
      <4> DEFINE l == derived_label("open", j.ci, review_state(board[p], j.head),
                                    j.head \in marker[p])
      <4>1. l \in StatusLabels \cup {NoLabel}
        BY LabelType DEF Job, Locals, Lifecycles
      <4>2. [IdleJob EXCEPT !.pc = "labels", !.want = l] \in Job
        BY <4>1 DEF IdleJob, Job, Locals, Steps, CiStates
      <4> QED BY <3>3, <4>2, SetType DEF ReadComments, truth, ci, sweep
    <3>4. CASE ReadLabels(p, c)
      <4>1. [j EXCEPT !.pc = "write", !.drop = labels[p] \ {j.want},
                      !.add = /\ j.want # NoLabel
                              /\ j.want \notin labels[p]] \in Job
        BY DEF Job, Locals, Steps
      <4> QED BY <3>4, <4>1, SetType DEF ReadLabels, truth, ci, sweep
    <3>5. ASSUME NEW l \in StatusLabels, RemoveLabel(p, c, l) PROVE TypeOK'
      <4>1. [j EXCEPT !.drop = @ \ {l}] \in Job
        BY DEF Job, Locals
      <4> QED BY <3>5, <4>1, SetType DEF RemoveLabel, truth, ci, sweep
    <3>6. CASE AddLabel(p, c)
      <4>1. j.add => j.want \in StatusLabels
        BY DEF Job, Locals
      <4> QED BY <3>6, <4>1, IdleJobType, SetType DEF AddLabel, truth, ci, sweep
    <3> QED BY <2>4, <3>1, <3>2, <3>3, <3>4, <3>5, <3>6 DEF Reconcile
  <2>5. ASSUME NEW p \in PRs, NEW c \in Callers, Die(p, c) PROVE TypeOK'
    BY <2>5, IdleJobType, SetType DEF Die, truth, ci, sweep
  <2>6. CASE Sweep
    BY <2>2, <2>6 DEF Sweep, ListAwaitingReview, ListReviewInProgress, List,
                Listed, SweepVisit, SweepEnd, Callers, truth, ci, sweep
  <2>7. CASE UNCHANGED vars
    BY <2>7 DEF vars, truth, ci, sweep
  <2>8. ASSUME NEW p \in PRs, StartJob(p) PROVE TypeOK'
    BY <2>2, <2>8 DEF StartJob, Callers, truth, ci, sweep
  <2> QED
    BY <2>1, <2>3, <2>4, <2>5, <2>6, <2>7, <2>8 DEF Next
<1> QED
  BY <1>1, <1>2, PTL DEF Spec

-------------------------------------------------------------------------------
(* The invariant of one pull request, and the two ways an action that does *)
(* not belong to one of its jobs leaves it true.                           *)

RestIsRight(p) ==
    Idle(p) /\ ~disturbed[p] =>
        /\ \A l, m \in labels[p] : l = m
        /\ ~Owed(p) => labels[p] = WantedSet(p)

LabelInv(p) ==
    /\ RestIsRight(p)
    /\ \A c \in Callers :
         job[p][c].pc # "idle" /\ ~disturbed[p] => JobIsCurrent(p, c)

\* The records a job goes by, as far as the job has come to rely on them.
SameRecords(p) ==
    /\ Wanted(p)' = Wanted(p)
    /\ life[p] = "open" =>
         UNCHANGED <<life[p], head[p], ci_status(build[p][head[p]])>>

\* All that the invariant of p speaks of.
Same(p) ==
    UNCHANGED <<life[p], head[p], build[p], board[p], marker[p], labels[p],
                runs[p], resolving[p], pending[p], job[p], disturbed[p]>>

\* Records may change under a job if another job is due.
LEMMA Preserve ==
  ASSUME NEW p \in PRs, LabelInv(p),
         UNCHANGED <<labels[p], job[p], disturbed[p]>>,
         Owed(p)' \/ (~Owed(p) /\ SameRecords(p))
  PROVE  LabelInv(p)'
<1>1. RestIsRight(p)'
  BY DEF LabelInv, RestIsRight, SameRecords, Idle, WantedSet
<1>2. ASSUME NEW c \in Callers, job'[p][c].pc # "idle", ~disturbed'[p]
      PROVE  JobIsCurrent(p, c)'
  <2>1. JobIsCurrent(p, c)
    BY <1>2 DEF LabelInv
  <2>2. CASE Owed(p)'
    BY <2>1, <2>2 DEF JobIsCurrent
  <2>3. CASE ~Owed(p) /\ SameRecords(p)
    BY <2>1, <2>3 DEF JobIsCurrent, SameRecords
  <2> QED BY <2>2, <2>3
<1> QED BY <1>1, <1>2 DEF LabelInv

LEMMA Elsewhere ==
  ASSUME NEW p \in PRs, LabelInv(p), Same(p)
  PROVE  LabelInv(p)'
<1>1. Owed(p)' = Owed(p)
  BY DEF Owed, Same
<1>2. SameRecords(p)
  BY DEF SameRecords, Same, Wanted
<1>3. UNCHANGED <<labels[p], job[p], disturbed[p]>>
  BY DEF Same
<1> QED BY <1>1, <1>2, <1>3, Preserve

\* Nothing is claimed of a disturbed pull request.
LEMMA Disturb ==
  ASSUME NEW p \in PRs, disturbed'[p]
  PROVE  LabelInv(p)'
BY DEF LabelInv, RestIsRight

-------------------------------------------------------------------------------
(* What happens around the jobs.                                           *)

LEMMA PeopleStep ==
  ASSUME TypeOK, NEW q \in PRs, People(q), NEW p \in PRs, LabelInv(p)
  PROVE  LabelInv(p)'
<1> USE DEF TypeOK, truth, ci, sweep
<1> DEFINE Announced == Same(p) \/ (/\ UNCHANGED <<labels[p], job[p], disturbed[p]>>
                                    /\ Owed(p)')
<1> SUFFICES Announced
  BY Elsewhere, Preserve
<1>1. ASSUME NEW h \in Heads, Push(q, h) PROVE Announced
  BY <1>1 DEF Push, Request, Same, Owed
<1>2. ASSUME NEW h \in Heads, PostMarker(q, h) PROVE Announced
  BY <1>2 DEF PostMarker, Request, Same, Owed
<1>3. ASSUME NEW how \in {"closed", "merged"}, Close(q, how) PROVE Announced
  BY <1>3 DEF Close, Request, Same, Owed
<1>4. CASE Reopen(q)
  BY <1>4 DEF Reopen, Request, Same, Owed
<1>5. ASSUME NEW b \in Boards, PostScoreboard(q, b) PROVE Announced
  BY <1>5 DEF PostScoreboard, Request, Same, Owed
<1>6. CASE DispatchBuild(q)
  BY <1>6 DEF DispatchBuild, Same
<1>7. CASE Resync(q)
  BY <1>7 DEF Resync, Request, Same, Owed
<1> QED BY <1>1, <1>2, <1>3, <1>4, <1>5, <1>6, <1>7 DEF People

\* The end of a build that names nobody, or somebody else: either nothing was to
\* be learnt from it, or the pull request is disturbed from now on.
LEMMA MissedStep ==
  ASSUME TypeOK, NEW q \in PRs, NEW h \in Heads, Missed(q, h),
         runs' \in {runs, [runs EXCEPT ![q] = @ \ {h}]},
         resolving' \in {resolving, [resolving EXCEPT ![q] = @ \ {h}]},
         UNCHANGED <<truth, labels, pending, job>>,
         NEW p \in PRs, LabelInv(p)
  PROVE  LabelInv(p)'
<1> USE DEF TypeOK, truth
<1>1. CASE disturbed'[p]
  BY <1>1, Disturb
<1>2. CASE ~disturbed'[p]
  <2>1. disturbed'[p] = disturbed[p] /\ (q = p => life[p] # "open" \/ head[p] # h)
    BY <1>2 DEF Missed
  <2>2. Owed(p)' = Owed(p)
    <3>1. life[p] = "open" =>
            (head[p] \in runs'[p] \cup resolving'[p] <=> head[p] \in runs[p] \cup resolving[p])
      BY <2>1
    <3> QED BY <3>1 DEF Owed
  <2>3. SameRecords(p)
    BY DEF SameRecords, Wanted
  <2> QED BY <2>1, <2>2, <2>3, Preserve
<1> QED BY <1>1, <1>2

LEMMA BuildsStep ==
  ASSUME TypeOK, NEW q \in PRs, NEW h \in Heads, Builds(q, h),
         NEW p \in PRs, LabelInv(p)
  PROVE  LabelInv(p)'
<1> USE DEF TypeOK, truth, ci, sweep
<1> DEFINE Quiet == UNCHANGED <<labels[p], job[p], disturbed[p]>>
<1>1. ASSUME NEW s \in PostedStates, PostBuild(q, h, s) PROVE LabelInv(p)'
  <2>1. Quiet /\ UNCHANGED <<life[p], head[p], board[p], marker[p], runs[p],
                             resolving[p], pending[p]>>
    BY <1>1 DEF PostBuild
  <2>2. CASE q = p /\ h = head[p] /\ life[p] = "open"
    <3>1. Owed(p)'
      BY <1>1, <2>1, <2>2 DEF PostBuild, Owed
    <3> QED BY <2>1, <3>1, Preserve
  <2>3. CASE ~(q = p /\ h = head[p])
    <3>1. build'[p][head[p]] = build[p][head[p]]
      BY <1>1, <2>3 DEF PostBuild
    <3>2. SameRecords(p) /\ Owed(p)' = Owed(p)
      BY <2>1, <3>1 DEF SameRecords, Wanted, Owed
    <3> QED BY <2>1, <3>2, Preserve
  <2>4. CASE life[p] # "open"
    <3>1. SameRecords(p) /\ Owed(p)' = Owed(p)
      BY <2>1, <2>4 DEF SameRecords, Wanted, Owed, derived_label
    <3> QED BY <2>1, <3>1, Preserve
  <2> QED BY <2>2, <2>3, <2>4
<1>2. ASSUME NEW s \in PostedStates, PostDispatchedBuild(q, h, s)
      PROVE  LabelInv(p)'
  <2>1. disturbed'[p] \/ Same(p)
    BY <1>2 DEF PostDispatchedBuild, Same
  <2> QED BY <2>1, Disturb, Elsewhere
<1>3. CASE CompleteBuild(q, h)
  <2>1. Quiet /\ UNCHANGED <<life[p], head[p], build[p], board[p], marker[p]>>
    BY <1>3 DEF CompleteBuild
  <2>2. SameRecords(p)
    BY <2>1 DEF SameRecords, Wanted
  <2>3. Owed(p) => Owed(p)'
    BY <1>3, <2>1 DEF CompleteBuild, Request, Owed
  <2> QED BY <2>1, <2>2, <2>3, Preserve
<1>4. CASE CompleteDispatchedBuild(q, h)
  BY <1>4, Elsewhere DEF CompleteDispatchedBuild, Same
<1>5. CASE Resolve(q, h)
  <2>1. Quiet /\ UNCHANGED <<life[p], head[p], build[p], board[p], marker[p]>>
    BY <1>5 DEF Resolve
  <2>2. SameRecords(p)
    BY <2>1 DEF SameRecords, Wanted
  <2>3. Owed(p) => Owed(p)'
    BY <1>5, <2>1 DEF Resolve, Request, Owed
  <2> QED BY <2>1, <2>2, <2>3, Preserve
<1>6. CASE ExpireMarker(q, h)
  <2>1. disturbed'[p] \/ Same(p)
    BY <1>6 DEF ExpireMarker, Same
  <2> QED BY <2>1, Disturb, Elsewhere
<1>7. ASSUME NEW s \in PostedStates, PostOthersBuild(q, h, s) PROVE LabelInv(p)'
  <2>1. disturbed'[p] \/ Same(p)
    BY <1>7 DEF PostOthersBuild, Same
  <2> QED BY <2>1, Disturb, Elsewhere
<1>8. CASE CompleteBuildForOther(q, h) \/ ResolveAmbiguous(q, h) \/ ResolveFails(q, h)
  BY <1>8, MissedStep DEF CompleteBuildForOther, ResolveAmbiguous, ResolveFails
<1>9. CASE Share(q, h)
  BY <1>9, Elsewhere DEF Share, Same
<1> QED BY <1>1, <1>2, <1>3, <1>4, <1>5, <1>6, <1>7, <1>8, <1>9 DEF Builds

-------------------------------------------------------------------------------
(* The reconcile itself.                                                   *)

\* A job that starts alone has read nothing yet, so there is nothing to claim.
LEMMA BeginStep ==
  ASSUME TypeOK, NEW q \in PRs, NEW c \in Callers, Begin(q, c),
         UNCHANGED <<truth, labels, ci>>,
         NEW p \in PRs, LabelInv(p), p # q => pending'[p] = pending[p]
  PROVE  LabelInv(p)'
<1> USE DEF TypeOK, truth, ci
<1>1. CASE p # q
  BY <1>1, Elsewhere DEF Begin, Set, Same
<1>2. CASE p = q /\ disturbed'[p]
  BY <1>2, Disturb
<1>3. CASE p = q /\ ~disturbed'[p]
  <2>1. /\ job'[p][c].pc = "pr"
        /\ job'[p][Other(c)].pc = "idle"
        /\ \A d \in Callers : d = c \/ d = Other(c)
    BY <1>3 DEF Begin, Set, Other, Callers, IdleJob
  <2>2. ~Idle(p)'
    BY <2>1 DEF Idle
  <2>3. JobIsCurrent(p, c)'
    BY <2>1 DEF JobIsCurrent
  <2> QED BY <1>3, <2>1, <2>2, <2>3 DEF LabelInv, RestIsRight
<1> QED BY <1>1, <1>2, <1>3

\* A step of p's own job keeps the other caller's locals.
LEMMA OwnStep ==
  ASSUME TypeOK, NEW p \in PRs, NEW c \in Callers, NEW r \in Job, Set(p, c, r)
  PROVE  /\ job'[p][c] = r
         /\ job'[p][Other(c)] = job[p][Other(c)]
         /\ \A d \in Callers : d = c \/ d = Other(c)
BY DEF TypeOK, Set, Other, Callers


LEMMA OwnStepKeeps ==
  ASSUME TypeOK, NEW p \in PRs, NEW c \in Callers, NEW r \in Job, Set(p, c, r),
         r.pc # "idle", JobIsCurrent(p, c)'
  PROVE  LabelInv(p)'
<1>1. /\ job'[p][c].pc # "idle"
      /\ job'[p][Other(c)].pc = "idle"
      /\ \A d \in Callers : d = c \/ d = Other(c)
  BY OwnStep DEF JobIsCurrent
<1> QED BY <1>1 DEF LabelInv, RestIsRight, Idle

LEMMA ReconcileStep ==
  ASSUME TypeOK, TypeOK', NEW q \in PRs, NEW c \in Callers, Reconcile(q, c),
         NEW p \in PRs, LabelInv(p)
  PROVE  LabelInv(p)'
<1> DEFINE j == job[p][c]
<1> USE DEF truth, ci, sweep
<1>1. \/ ReadPR(q, c) \/ ReadBuild(q, c) \/ ReadComments(q, c)
      \/ ReadLabels(q, c) \/ AddLabel(q, c)
      \/ \E l \in StatusLabels : RemoveLabel(q, c, l)
  BY DEF Reconcile
<1>2. /\ job[q][c].pc # "idle"
      /\ UNCHANGED <<truth, runs, resolving, pending, disturbed>>
      /\ \A x \in PRs \ {q} : labels'[x] = labels[x] /\ job'[x] = job[x]
  BY <1>1 DEF ReadPR, ReadBuild, ReadComments, ReadLabels, AddLabel,
              RemoveLabel, Set, TypeOK
<1>3. CASE p # q
  BY <1>2, <1>3, Elsewhere DEF Same
<1>4. CASE disturbed[p]
  BY <1>2, <1>4, Disturb
<1>5. CASE p = q /\ ~disturbed[p]
  <2> USE <1>5
  <2>1. JobIsCurrent(p, c)
    BY <1>2 DEF LabelInv
  <2>2. /\ Owed(p)' = Owed(p)
        /\ Wanted(p)' = Wanted(p)
        /\ life'[p] = life[p] /\ head'[p] = head[p] /\ build'[p] = build[p]
    BY <1>2 DEF Owed, Wanted
  <2>3. j \in Job /\ job'[p][c] \in Job
    BY DEF TypeOK
  <2>4. ASSUME NEW r, Set(p, c, r) PROVE job'[p][c] = r /\ r \in Job
    BY <2>3, <2>4 DEF Set, TypeOK
  <2>5. CASE ReadPR(p, c)
    <3> DEFINE r == IF life[p] = "open"
                    THEN [IdleJob EXCEPT !.pc = "build", !.head = head[p]]
                    ELSE [IdleJob EXCEPT !.pc = "labels"]
    <3>1. Set(p, c, r)
      BY <2>5 DEF ReadPR
    <3>2. r.pc \in {"build", "labels"}
          /\ (r.pc = "build" => life[p] = "open" /\ r.head = head[p])
          /\ (r.pc = "labels" => life[p] # "open" /\ r.want = NoLabel)
      BY DEF IdleJob
    <3>3. life[p] # "open" => Wanted(p) = NoLabel
      BY DEF Wanted, derived_label
    <3>4. job'[p][c] = r /\ r \in Job /\ job'[p][Other(c)] = job[p][Other(c)]
      BY <2>4, <3>1, OwnStep
    <3>5. JobIsCurrent(p, c)'
      BY <2>1, <2>2, <3>2, <3>3, <3>4 DEF JobIsCurrent
    <3> QED BY <3>1, <3>2, <3>4, <3>5, OwnStepKeeps
  <2>6. CASE ReadBuild(p, c)
    <3> DEFINE r == [j EXCEPT !.pc = "comments", !.ci = ci_status(build[p][j.head])]
    <3>1. Set(p, c, r) /\ j.pc = "build"
      BY <2>6 DEF ReadBuild
    <3>2. r.pc = "comments" /\ r.head = j.head /\ r.ci = ci_status(build[p][j.head])
      BY <2>3 DEF Job, Locals
    <3>3. job'[p][c] = r /\ r \in Job /\ job'[p][Other(c)] = job[p][Other(c)]
      BY <2>4, <3>1, OwnStep
    <3>4. JobIsCurrent(p, c)'
      BY <2>1, <2>2, <3>1, <3>2, <3>3 DEF JobIsCurrent
    <3> QED BY <3>1, <3>2, <3>3, <3>4, OwnStepKeeps
  <2>7. CASE ReadComments(p, c)
    <3> DEFINE w == derived_label("open", j.ci, review_state(board[p], j.head),
                                  j.head \in marker[p])
               r == [IdleJob EXCEPT !.pc = "labels", !.want = w]
    <3>1. Set(p, c, r) /\ j.pc = "comments"
      BY <2>7 DEF ReadComments
    <3>2. r.pc = "labels" /\ r.want = w
      BY DEF IdleJob
    <3>3. ~Owed(p) => w = Wanted(p)
      BY <2>1, <3>1 DEF JobIsCurrent, Wanted
    <3>4. job'[p][c] = r /\ r \in Job /\ job'[p][Other(c)] = job[p][Other(c)]
      BY <2>4, <3>1, OwnStep
    <3>5. JobIsCurrent(p, c)'
      BY <2>1, <2>2, <3>2, <3>3, <3>4 DEF JobIsCurrent
    <3> QED BY <3>1, <3>2, <3>4, <3>5, OwnStepKeeps
  <2>8. CASE ReadLabels(p, c)
    <3> DEFINE r == [j EXCEPT !.pc = "write",
                              !.drop = labels[p] \ {j.want},
                              !.add = /\ j.want # NoLabel
                                      /\ j.want \notin labels[p]]
    <3>1. Set(p, c, r) /\ j.pc = "labels" /\ labels' = labels
      BY <2>8 DEF ReadLabels
    <3>2. /\ r.pc = "write" /\ r.want = j.want
          /\ r.drop = labels[p] \ {j.want}
          /\ r.add = (j.want # NoLabel /\ j.want \notin labels[p])
      BY <2>3 DEF Job, Locals
    <3>3. job'[p][c] = r /\ r \in Job /\ job'[p][Other(c)] = job[p][Other(c)]
      BY <2>4, <3>1, OwnStep
    <3> HIDE DEF r
    <3>4. JobIsCurrent(p, c)'
      <4>1. job'[p][Other(c)].pc = "idle"
        BY <2>1, <3>3 DEF JobIsCurrent
      <4>2. /\ r.drop = labels'[p] \ {r.want}
            /\ r.add = (r.want # NoLabel /\ r.want \notin labels'[p])
        BY <3>1, <3>2
      <4>3. ~Owed(p)' => r.want = Wanted(p)'
        BY <2>1, <2>2, <3>1, <3>2 DEF JobIsCurrent
      <4> QED BY <3>2, <3>3, <4>1, <4>2, <4>3 DEF JobIsCurrent
    <3> QED BY <3>1, <3>2, <3>3, <3>4, OwnStepKeeps
  <2>9. ASSUME NEW l \in StatusLabels, RemoveLabel(p, c, l) PROVE LabelInv(p)'
    <3> DEFINE r == [j EXCEPT !.drop = @ \ {l}]
    <3>1. /\ Set(p, c, r) /\ j.pc = "write" /\ l \in j.drop
          /\ labels'[p] = labels[p] \ {l}
      BY <2>9 DEF RemoveLabel, TypeOK
    <3>2. /\ r.pc = "write" /\ r.want = j.want /\ r.add = j.add
          /\ r.drop = j.drop \ {l}
      BY <2>3, <3>1 DEF Job, Locals
    <3>3. /\ r.drop = labels'[p] \ {r.want}
          /\ r.add = (r.want # NoLabel /\ r.want \notin labels'[p])
      BY <2>1, <3>1, <3>2 DEF JobIsCurrent
    <3>4. job'[p][c] = r /\ r \in Job /\ job'[p][Other(c)] = job[p][Other(c)]
      BY <2>4, <3>1, OwnStep
    <3>5. JobIsCurrent(p, c)'
      BY <2>1, <2>2, <3>1, <3>2, <3>3, <3>4 DEF JobIsCurrent
    <3> QED BY <3>1, <3>2, <3>4, <3>5, OwnStepKeeps
  <2>10. CASE AddLabel(p, c)
    <3>1. /\ Set(p, c, IdleJob) /\ j.pc = "write" /\ j.drop = {}
          /\ labels'[p] = IF j.add THEN labels[p] \cup {j.want} ELSE labels[p]
      BY <2>10 DEF AddLabel, TypeOK
    <3>2. labels'[p] = {j.want} \ {NoLabel}
      <4>1. labels[p] \subseteq {j.want} /\ NoLabel \notin labels[p]
        BY <2>1, <3>1, NoLabelIsNone DEF JobIsCurrent, TypeOK
      <4>2. j.add = (j.want # NoLabel /\ j.want \notin labels[p])
        BY <2>1, <3>1 DEF JobIsCurrent
      <4> QED BY <3>1, <4>1, <4>2
    <3>3. ~Owed(p) => j.want = Wanted(p)
      BY <2>1, <3>1 DEF JobIsCurrent
    <3>4. job'[p][c].pc = "idle" /\ job'[p][Other(c)].pc = "idle"
          /\ \A d \in Callers : d = c \/ d = Other(c)
      BY <2>1, <3>1, OwnStep, IdleJobType DEF JobIsCurrent, IdleJob
    <3>5. WantedSet(p)' = {Wanted(p)} \ {NoLabel}
      BY <2>2 DEF WantedSet
    <3>6. RestIsRight(p)'
      BY <2>2, <3>2, <3>3, <3>5 DEF RestIsRight
    <3> QED BY <3>4, <3>6 DEF LabelInv
  <2> QED BY <1>1, <2>5, <2>6, <2>7, <2>8, <2>9, <2>10
<1> QED BY <1>3, <1>4, <1>5

LEMMA DieStep ==
  ASSUME TypeOK, NEW q \in PRs, NEW c \in Callers, Die(q, c),
         NEW p \in PRs, LabelInv(p)
  PROVE  LabelInv(p)'
<1>1. disturbed'[p] \/ Same(p)
  BY DEF Die, Set, Same, TypeOK, truth, ci
<1> QED BY <1>1, Disturb, Elsewhere

LEMMA SweepStep ==
  ASSUME TypeOK, Sweep, NEW p \in PRs, LabelInv(p)
  PROVE  LabelInv(p)'
<1> USE DEF truth, ci, Same
<1>1. CASE ListAwaitingReview
  BY <1>1, Elsewhere DEF ListAwaitingReview, List
<1>2. CASE ListReviewInProgress
  BY <1>2, Elsewhere DEF ListReviewInProgress, List
<1>3. ASSUME NEW q \in PRs, SweepVisit(q) PROVE LabelInv(p)'
  BY <1>3, BeginStep DEF SweepVisit, Callers
<1>4. CASE SweepEnd
  BY <1>4, Elsewhere DEF SweepEnd
<1> QED BY <1>1, <1>2, <1>3, <1>4 DEF Sweep

-------------------------------------------------------------------------------
(* The results.                                                            *)

IInv == AtMostOneLabel /\ SettledIsRight /\ JobsAreCurrent

LEMMA IInvIsLabelInv == IInv <=> \A p \in PRs : LabelInv(p)
BY DEF IInv, AtMostOneLabel, SettledIsRight, JobsAreCurrent, LabelInv, RestIsRight

LEMMA LabelInvStep ==
  ASSUME TypeOK, TypeOK', [Next]_vars, NEW p \in PRs, LabelInv(p)
  PROVE  LabelInv(p)'
<1>1. ASSUME NEW q \in PRs, StartJob(q) PROVE LabelInv(p)'
  BY <1>1, BeginStep DEF StartJob, Callers, TypeOK
<1>2. CASE UNCHANGED vars
  BY <1>2, Elsewhere DEF vars, truth, ci, Same
<1> QED BY <1>1, <1>2, PeopleStep, BuildsStep, ReconcileStep, DieStep,
           SweepStep DEF Next

\* For any number of pull requests, commits, shared commits and failures (of jobs,
\* listings and the `resolve` of a fork's build): at rest and undisturbed, at
\* most one status label, and the right one as soon as no job is owed; no job
\* that has not been disturbed writes from outdated records with no other job to follow.
THEOREM LabelsAreRight ==
  Spec => [](AtMostOneLabel /\ SettledIsRight /\ JobsAreCurrent)
<1>1. Init => IInv
  BY DEF Init, IInv, AtMostOneLabel, SettledIsRight, JobsAreCurrent, Owed, IdleJob
<1>2. TypeOK /\ TypeOK' /\ IInv /\ [Next]_vars => IInv'
  <2> SUFFICES ASSUME TypeOK, TypeOK', IInv, [Next]_vars PROVE IInv'
    OBVIOUS
  <2>1. \A p \in PRs : LabelInv(p)'
    BY LabelInvStep, IInvIsLabelInv
  <2> QED
    BY <2>1 DEF IInv, AtMostOneLabel, SettledIsRight, JobsAreCurrent,
                LabelInv, RestIsRight
<1> QED
  BY <1>1, <1>2, TypeCorrect, PTL DEF Spec, IInv

\* Whatever jobs die and however the sweep overlaps them: an undisturbed pull
\* request at rest shows one status label at most.
THEOREM OneLabel == Spec => []AtMostOneLabel
BY LabelsAreRight, PTL

================================================================================
