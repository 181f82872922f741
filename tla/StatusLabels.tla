----------------------------- MODULE StatusLabels -----------------------------
(***************************************************************************)
(* The workflow "PR status labels" (.github/workflows/pr-labels.yml) and   *)
(* the script it runs, scripts/pr_status/labels.py.                        *)
(*                                                                         *)
(* Every event that can change a pull request's status asks for a          *)
(* reconcile job; the jobs of one pull request share a concurrency group,  *)
(* where GitHub keeps one running and one pending.  An hourly sweep runs   *)
(* the same script in another group, so it can overlap a job.  The script  *)
(* reads the pull request, the build status, the comments and the labels   *)
(* by one API call each and then writes one label per call: the records    *)
(* may change between any two of its steps, and it may die at each.        *)
(***************************************************************************)
EXTENDS DerivedStatus, Naturals

CONSTANTS
    PRs,            \* open pull requests
    Forks,          \* those whose head is in a fork
    NoHead,         \* a job that has not read the head yet
    Boards,         \* the scoreboards a reviewer may post
    PostedStates,   \* the build statuses pr-build may post
    Sweeping,       \* whether the hourly sweep runs
    Dispatching,    \* whether pr-build may be started by hand
    Sharing,        \* whether two pull requests may be at one commit
    MaxFaults       \* bound on failed jobs and failed listings

ASSUME PRsAssumption == Forks \subseteq PRs
ASSUME BoardsAssumption == Boards \subseteq Scoreboard /\ NoBoard \notin Boards
ASSUME StatesAssumption == PostedStates \subseteq BuildStates
ASSUME SwitchAssumption == {Sweeping, Dispatching, Sharing} \subseteq BOOLEAN
ASSUME FaultsAssumption == MaxFaults \in Nat

VARIABLES
    life,       \* GitHub: the pull request's lifecycle
    head,       \* GitHub: its head commit
    build,      \* GitHub: the `build` commit status of each of its commits
    board,      \* GitHub: its newest scoreboard comment
    marker,     \* GitHub: the heads with an unexpired in-progress marker
    labels,     \* GitHub: the status labels on it
    runs,       \* pr-build runs in progress, by head
    dispatched, \* pr-build runs in progress that were started by hand
    resolving,  \* `resolve` jobs under way, by head_sha of the finished run
    shared,     \* the commit that another open pull request is at as well, if any
    pending,    \* the concurrency group holds a pending job
    job,        \* the script's local state, per pull request and caller
    sweepPc,    \* where the sweep is
    sweepTodo,  \* the pull requests it still has to visit
    disturbed,  \* history: since its last undisturbed start, see below
    faults      \* history: failures so far

truth == <<life, head, build, board, marker>>
ci == <<runs, dispatched, resolving, shared>>
sweep == <<sweepPc, sweepTodo>>
vars == <<truth, labels, ci, pending, job, sweep, disturbed, faults>>

-------------------------------------------------------------------------------

Callers == {"event", "sweep"}

\* Where labels.reconcile is: the next thing it reads or writes.
Steps == {"idle", "pr", "build", "comments", "labels", "write"}

Locals == [pc   : Steps,
           head : Heads \cup {NoHead},
           ci   : CiStates,
           want : StatusLabels \cup {NoLabel},
           drop : SUBSET StatusLabels,
           add  : BOOLEAN]

Job == {j \in Locals : j.add => j.want # NoLabel}

\* The locals of a script that is not running, or has not set them yet.
IdleJob == [pc |-> "idle", head |-> NoHead, ci |-> "none", want |-> NoLabel,
            drop |-> {}, add |-> FALSE]

\* The label that the records call for at this moment.
Wanted(p) == derived_label(life[p], ci_status(build[p][head[p]]),
                           review_state(board[p], head[p]),
                           head[p] \in marker[p])

WantedSet(p) == {Wanted(p)} \ {NoLabel}

Idle(p) == \A c \in Callers : job[p][c].pc = "idle"

Other(c) == IF c = "event" THEN "sweep" ELSE "event"

TypeOK ==
    /\ life \in [PRs -> Lifecycles]
    /\ head \in [PRs -> Heads]
    /\ build \in [PRs -> [Heads -> BuildStates]]
    /\ board \in [PRs -> Boards \cup {NoBoard}]
    /\ marker \in [PRs -> SUBSET Heads]
    /\ labels \in [PRs -> SUBSET StatusLabels]
    /\ runs \in [PRs -> SUBSET Heads]
    /\ dispatched \in [PRs -> SUBSET Heads]
    /\ resolving \in [PRs -> SUBSET Heads]
    /\ shared \in [PRs -> SUBSET Heads]
    /\ pending \in [PRs -> BOOLEAN]
    /\ job \in [PRs -> [Callers -> Job]]
    /\ sweepPc \in {"idle", "listing", "loop"}
    /\ sweepTodo \in SUBSET PRs
    /\ disturbed \in [PRs -> BOOLEAN]
    /\ faults \in 0..MaxFaults

\* The pull request was just opened: its event asked for a job and for a
\* build, and it carries no label yet.
Init ==
    /\ life = [p \in PRs |-> "open"]
    /\ head \in [PRs -> Heads]
    /\ build = [p \in PRs |-> [h \in Heads |-> "absent"]]
    /\ board = [p \in PRs |-> NoBoard]
    /\ marker = [p \in PRs |-> {}]
    /\ labels = [p \in PRs |-> {}]
    /\ runs = [p \in PRs |-> {head[p]}]
    /\ dispatched = [p \in PRs |-> {}]
    /\ resolving = [p \in PRs |-> {}]
    /\ shared = [p \in PRs |-> {}]
    /\ pending = [p \in PRs |-> TRUE]
    /\ job = [p \in PRs |-> [c \in Callers |-> IdleJob]]
    /\ sweepPc = "idle"
    /\ sweepTodo = {}
    /\ disturbed = [p \in PRs |-> FALSE]
    /\ faults = 0

-------------------------------------------------------------------------------
(* What authors, maintainers and reviewers do.  An event the workflow      *)
(* subscribes to leaves a pending job, replacing the one that was pending. *)

Request(p) == pending' = [pending EXCEPT ![p] = TRUE]

\* pull_request_target: synchronize
Push(p, h) ==
    /\ life[p] = "open"
    /\ h # head[p]
    /\ head' = [head EXCEPT ![p] = h]
    /\ runs' = [runs EXCEPT ![p] = @ \cup {h}]
    /\ Request(p)
    /\ UNCHANGED <<life, build, board, marker, labels, dispatched, resolving,
                   shared, job, sweep, disturbed, faults>>

\* pull_request_target: closed, by hand or by a merge
Close(p, how) ==
    /\ life[p] = "open"
    /\ life' = [life EXCEPT ![p] = how]
    /\ Request(p)
    /\ UNCHANGED <<head, build, board, marker, labels, ci, job, sweep,
                   disturbed, faults>>

\* pull_request_target: reopened
Reopen(p) ==
    /\ life[p] = "closed"
    /\ life' = [life EXCEPT ![p] = "open"]
    /\ runs' = [runs EXCEPT ![p] = @ \cup {head[p]}]
    /\ Request(p)
    /\ UNCHANGED <<head, build, board, marker, labels, dispatched, resolving,
                   shared, job, sweep, disturbed, faults>>

\* issue_comment: the scoreboard was posted or edited
PostScoreboard(p, b) ==
    /\ board[p] # b
    /\ board' = [board EXCEPT ![p] = b]
    /\ Request(p)
    /\ UNCHANGED <<life, head, build, marker, labels, ci, job, sweep,
                   disturbed, faults>>

\* issue_comment: a review of this head begins
PostMarker(p, h) ==
    /\ h \notin marker[p]
    /\ marker' = [marker EXCEPT ![p] = @ \cup {h}]
    /\ Request(p)
    /\ UNCHANGED <<life, head, build, board, labels, ci, job, sweep,
                   disturbed, faults>>

\* workflow_dispatch: a maintainer asks for the pull request to be reconciled.
Resync(p) ==
    /\ Request(p)
    /\ UNCHANGED <<truth, labels, ci, job, sweep, disturbed, faults>>

\* The marker's expires_at passes: nothing happens on GitHub.
ExpireMarker(p, h) ==
    /\ h \in marker[p]
    /\ marker' = [marker EXCEPT ![p] = @ \ {h}]
    /\ disturbed' = [disturbed EXCEPT ![p] = TRUE]
    /\ UNCHANGED <<life, head, build, board, labels, ci, pending, job, sweep,
                   faults>>

-------------------------------------------------------------------------------
(* pr-build: it posts the `build` status on its head and later completes.  *)

PostBuild(p, h, s) ==
    /\ h \in runs[p]
    /\ build' = [build EXCEPT ![p][h] = s]
    /\ UNCHANGED <<life, head, board, marker, labels, ci, pending, job, sweep,
                   disturbed, faults>>

\* Nobody will be told of a build's end: it matters if p is still at that head.
Missed(p, h) ==
    disturbed' = [disturbed EXCEPT ![p] = @ \/ (life[p] = "open" /\ head[p] = h)]

\* Wrong on purpose: the end of a build asks for nothing.
CompleteBuildUnheard(p, h) ==
    /\ h \in runs[p]
    /\ runs' = [runs EXCEPT ![p] = @ \ {h}]
    /\ UNCHANGED <<truth, labels, dispatched, resolving, shared, pending, job,
                   sweep, disturbed, faults>>

\* workflow_run: completed.  The payload names a same-repository pull
\* request; for a fork's the `resolve` job has to look for it.
CompleteBuild(p, h) ==
    /\ h \in runs[p]
    /\ runs' = [runs EXCEPT ![p] = @ \ {h}]
    /\ IF p \in Forks
       THEN /\ resolving' = [resolving EXCEPT ![p] = @ \cup {h}]
            /\ UNCHANGED pending
       ELSE /\ Request(p)
            /\ UNCHANGED resolving
    /\ UNCHANGED <<truth, labels, dispatched, shared, job, sweep, disturbed, faults>>

\* The same, and pull_requests[0] is the other pull request at that commit.
CompleteBuildForOther(p, h) ==
    /\ h \in runs[p] \cap shared[p]
    /\ runs' = [runs EXCEPT ![p] = @ \ {h}]
    /\ Missed(p, h)
    /\ UNCHANGED <<truth, labels, dispatched, resolving, shared, pending, job,
                   sweep, faults>>

\* Wrong on purpose: `resolve` asks for no job while one is under way.
ResolveUnlessRunning(p, h) ==
    /\ h \in resolving[p] \ shared[p]
    /\ resolving' = [resolving EXCEPT ![p] = @ \ {h}]
    /\ IF life[p] = "open" /\ head[p] = h /\ job[p]["event"].pc = "idle"
       THEN Request(p)
       ELSE UNCHANGED pending
    /\ UNCHANGED <<truth, labels, runs, dispatched, shared, job, sweep, disturbed, faults>>

\* `resolve` scans the open pull requests for the head of the finished run,
\* and finds that p, and nobody else, is at it, or that p is not.
Resolve(p, h) ==
    /\ h \in resolving[p] \ shared[p]
    /\ resolving' = [resolving EXCEPT ![p] = @ \ {h}]
    /\ IF life[p] = "open" /\ head[p] = h
       THEN Request(p)
       ELSE UNCHANGED pending
    /\ UNCHANGED <<truth, labels, runs, dispatched, shared, job, sweep, disturbed, faults>>

\* It finds two pull requests at that head and names neither, or the other only.
ResolveAmbiguous(p, h) ==
    /\ h \in resolving[p] \cap shared[p]
    /\ resolving' = [resolving EXCEPT ![p] = @ \ {h}]
    /\ Missed(p, h)
    /\ UNCHANGED <<truth, labels, runs, dispatched, shared, pending, job, sweep, faults>>

\* The listing fails (`set -e` ends the job), its pages shift while it reads
\* them and show p twice or not at all, or the runner is lost.
ResolveFails(p, h) ==
    /\ h \in resolving[p]
    /\ faults < MaxFaults
    /\ faults' = faults + 1
    /\ resolving' = [resolving EXCEPT ![p] = @ \ {h}]
    /\ Missed(p, h)
    /\ UNCHANGED <<truth, labels, runs, dispatched, shared, pending, job, sweep>>

\* Another pull request is opened at p's commit or pushed to it, or leaves it.
Share(p, h) ==
    /\ Sharing
    /\ shared' = [shared EXCEPT ![p] = IF h \in @ THEN {} ELSE {h}]
    /\ UNCHANGED <<truth, labels, runs, dispatched, resolving, pending, job,
                   sweep, disturbed, faults>>

\* Its build posts on that commit, which is all a status is keyed by.
PostOthersBuild(p, h, s) ==
    /\ h \in shared[p]
    /\ build' = [build EXCEPT ![p][h] = s]
    /\ disturbed' = [disturbed EXCEPT ![p] = TRUE]
    /\ UNCHANGED <<life, head, board, marker, labels, ci, pending, job, sweep,
                   faults>>

\* pr-build started by hand for this pull request.  Its completion is a
\* workflow_run event that both `if` conditions turn away.
DispatchBuild(p) ==
    /\ Dispatching
    /\ life[p] = "open"
    /\ dispatched' = [dispatched EXCEPT ![p] = @ \cup {head[p]}]
    /\ UNCHANGED <<truth, labels, runs, resolving, shared, pending, job, sweep,
                   disturbed, faults>>

PostDispatchedBuild(p, h, s) ==
    /\ h \in dispatched[p]
    /\ build' = [build EXCEPT ![p][h] = s]
    /\ disturbed' = [disturbed EXCEPT ![p] = TRUE]
    /\ UNCHANGED <<life, head, board, marker, labels, ci, pending, job, sweep,
                   faults>>

CompleteDispatchedBuild(p, h) ==
    /\ h \in dispatched[p]
    /\ dispatched' = [dispatched EXCEPT ![p] = @ \ {h}]
    /\ UNCHANGED <<truth, labels, runs, resolving, shared, pending, job, sweep,
                   disturbed, faults>>

-------------------------------------------------------------------------------
(* labels.reconcile, run by an event's job or by the sweep.                *)

Set(p, c, locals) == job' = [job EXCEPT ![p][c] = locals]

\* disturbed[p] remembers that something happened to p which the events do
\* not announce (an expired marker, a dispatched build, a build of another pull
\* request at the same commit), that the end of its build named nobody or
\* somebody else, that a reconcile died, or that two of them overlapped.  A
\* reconcile that starts alone forgets it.
Begin(p, c) ==
    /\ job[p][c].pc = "idle"
    /\ Set(p, c, [IdleJob EXCEPT !.pc = "pr"])
    /\ disturbed' = [disturbed EXCEPT ![p] = job[p][Other(c)].pc # "idle"]

\* The group's pending job starts once no other job of the group runs.
StartJob(p) ==
    /\ pending[p]
    /\ pending' = [pending EXCEPT ![p] = FALSE]
    /\ Begin(p, "event")
    /\ UNCHANGED <<truth, labels, ci, sweep, faults>>

\* core.pr_state; a terminal pull request is not looked at any further.
ReadPR(p, c) ==
    /\ job[p][c].pc = "pr"
    /\ Set(p, c, IF life[p] = "open"
                 THEN [IdleJob EXCEPT !.pc = "build", !.head = head[p]]
                 ELSE [IdleJob EXCEPT !.pc = "labels"])
    /\ UNCHANGED <<truth, labels, ci, pending, sweep, disturbed, faults>>

\* core.ci_status of the head read before
ReadBuild(p, c) ==
    /\ job[p][c].pc = "build"
    /\ Set(p, c, [job[p][c] EXCEPT !.pc = "comments",
                                   !.ci = ci_status(build[p][job[p][c].head])])
    /\ UNCHANGED <<truth, labels, ci, pending, sweep, disturbed, faults>>

\* core.issue_comments, then the rest of core.derive and derived_label
ReadComments(p, c) ==
    /\ job[p][c].pc = "comments"
    /\ LET h == job[p][c].head IN
       Set(p, c, [IdleJob EXCEPT !.pc = "labels",
                                 !.want = derived_label("open", job[p][c].ci,
                                                        review_state(board[p], h),
                                                        h \in marker[p])])
    /\ UNCHANGED <<truth, labels, ci, pending, sweep, disturbed, faults>>

\* Wrong on purpose: the labels that are no longer wanted are left on.
ReadLabelsAddOnly(p, c) ==
    /\ job[p][c].pc = "labels"
    /\ LET want == job[p][c].want IN
       Set(p, c, [job[p][c] EXCEPT !.pc = "write",
                                   !.add = want \notin labels[p] \cup {NoLabel}])
    /\ UNCHANGED <<truth, labels, ci, pending, sweep, disturbed, faults>>

\* labels.current_status_labels
ReadLabels(p, c) ==
    /\ job[p][c].pc = "labels"
    /\ LET want == job[p][c].want IN
       Set(p, c, [job[p][c] EXCEPT !.pc = "write",
                                   !.drop = labels[p] \ {want},
                                   !.add = /\ want # NoLabel
                                           /\ want \notin labels[p]])
    /\ UNCHANGED <<truth, labels, ci, pending, sweep, disturbed, faults>>

\* labels.remove_label: a label that is gone already is no error
RemoveLabel(p, c, l) ==
    /\ job[p][c].pc = "write"
    /\ l \in job[p][c].drop
    /\ labels' = [labels EXCEPT ![p] = @ \ {l}]
    /\ Set(p, c, [job[p][c] EXCEPT !.drop = @ \ {l}])
    /\ UNCHANGED <<truth, ci, pending, sweep, disturbed, faults>>

\* labels.add_label, when the label was missing; then the job ends
AddLabel(p, c) ==
    /\ job[p][c].pc = "write"
    /\ job[p][c].drop = {}
    /\ labels' = [labels EXCEPT ![p] =
                    IF job[p][c].add THEN @ \cup {job[p][c].want} ELSE @]
    /\ Set(p, c, IdleJob)
    /\ UNCHANGED <<truth, ci, pending, sweep, disturbed, faults>>

\* An API call raises, or the runner is lost.  `set -e` ends the sweep too.
Die(p, c) ==
    /\ job[p][c].pc # "idle"
    /\ faults < MaxFaults
    /\ faults' = faults + 1
    /\ Set(p, c, IdleJob)
    /\ disturbed' = [disturbed EXCEPT ![p] = TRUE]
    /\ IF c = "sweep"
       THEN sweepPc' = "idle" /\ sweepTodo' = {}
       ELSE UNCHANGED sweep
    /\ UNCHANGED <<truth, labels, ci, pending>>

-------------------------------------------------------------------------------
(* The hourly sweep.                                                       *)

Listed(l) == {p \in PRs : life[p] = "open" /\ l \in labels[p]}

\* `gh pr list --label ...`: a listing that fails contributes nothing
List(from, to, l, before) ==
    /\ Sweeping
    /\ sweepPc = from
    /\ sweepPc' = to
    /\ \/ /\ sweepTodo' = before \cup Listed(l)
          /\ UNCHANGED faults
       \/ /\ faults < MaxFaults
          /\ faults' = faults + 1
          /\ sweepTodo' = before
    /\ UNCHANGED <<truth, labels, ci, pending, job, disturbed>>

\* Wrong on purpose: only review-in-progress is listed.
ListNothing == List("idle", "listing", NoLabel, {})

ListAwaitingReview == List("idle", "listing", "awaiting-review", {})

ListReviewInProgress ==
    List("listing", "loop", "review-in-progress", sweepTodo)

SweepBusy == \E p \in PRs : job[p]["sweep"].pc # "idle"

SweepVisit(p) ==
    /\ sweepPc = "loop"
    /\ p \in sweepTodo
    /\ ~SweepBusy
    /\ sweepTodo' = sweepTodo \ {p}
    /\ Begin(p, "sweep")
    /\ UNCHANGED <<truth, labels, ci, pending, sweepPc, faults>>

SweepEnd ==
    /\ sweepPc = "loop"
    /\ sweepTodo = {}
    /\ ~SweepBusy
    /\ sweepPc' = "idle"
    /\ UNCHANGED <<truth, labels, ci, pending, job, sweepTodo, disturbed, faults>>

-------------------------------------------------------------------------------

People(p) ==
    \/ \E h \in Heads : Push(p, h) \/ PostMarker(p, h)
    \/ \E how \in {"closed", "merged"} : Close(p, how)
    \/ Reopen(p)
    \/ \E b \in Boards : PostScoreboard(p, b)
    \/ DispatchBuild(p)
    \/ Resync(p)

Builds(p, h) ==
    \/ \E s \in PostedStates : \/ PostBuild(p, h, s) \/ PostDispatchedBuild(p, h, s)
                               \/ PostOthersBuild(p, h, s)
    \/ CompleteBuild(p, h) \/ CompleteBuildForOther(p, h)
    \/ CompleteDispatchedBuild(p, h)
    \/ Resolve(p, h) \/ ResolveAmbiguous(p, h) \/ ResolveFails(p, h)
    \/ Share(p, h)
    \/ ExpireMarker(p, h)

Reconcile(p, c) ==
    \/ ReadPR(p, c)
    \/ ReadBuild(p, c)
    \/ ReadComments(p, c)
    \/ ReadLabels(p, c)
    \/ \E l \in StatusLabels : RemoveLabel(p, c, l)
    \/ AddLabel(p, c)

Sweep ==
    \/ ListAwaitingReview
    \/ ListReviewInProgress
    \/ \E p \in PRs : SweepVisit(p)
    \/ SweepEnd

Next ==
    \/ \E p \in PRs : People(p) \/ StartJob(p)
    \/ \E p \in PRs, h \in Heads : Builds(p, h)
    \/ \E p \in PRs, c \in Callers : Reconcile(p, c) \/ Die(p, c)
    \/ Sweep

Spec == Init /\ [][Next]_vars

\* Runners pick up jobs, jobs and builds come to an end, the cron fires.
\* Nobody is obliged to push, to review or to report a build's result.
Fairness ==
    /\ \A p \in PRs : WF_vars(StartJob(p))
    /\ \A p \in PRs, h \in Heads : /\ WF_vars(CompleteBuild(p, h))
                                   /\ WF_vars(Resolve(p, h) \/ ResolveAmbiguous(p, h))
    /\ \A p \in PRs, c \in Callers : WF_vars(Reconcile(p, c))
    /\ WF_vars(Sweep)

FairSpec == Spec /\ Fairness

-------------------------------------------------------------------------------
(* Properties                                                              *)

\* A job that will read p's records has been, or is going to be, asked for.
Owed(p) ==
    \/ pending[p]
    \/ life[p] = "open" /\ head[p] \in runs[p] \cup resolving[p]

\* Unless disturbed, a pull request at rest carries at most one status label,
\* whatever happened before: a reconcile that starts alone settles what an
\* overlap or a dead job left behind (pr-labels.yml 85-91, labels.py 183-192).
AtMostOneLabel ==
    \A p \in PRs : Idle(p) /\ ~disturbed[p] =>
        \A l, m \in labels[p] : l = m

\* No event is lost, but for the end of a build whose `resolve` fails or finds two
\* pull requests at the commit: once no job is running or owed, an undisturbed
\* pull request shows exactly the label its records call for, and none when it
\* is closed, although each job read those records one by one while they changed
\* and the group keeps only the newest of the pending jobs
\* (pr-labels.yml 25-37, 85-94, 126-189).
SettledIsRight ==
    \A p \in PRs : Idle(p) /\ ~Owed(p) /\ ~disturbed[p] =>
        labels[p] = WantedSet(p)

\* Why: a reconcile that runs alone has read current records unless another
\* one is owed, and the labels it saw are those it has not written over.
JobIsCurrent(p, c) ==
    LET j == job[p][c] IN
    /\ job[p][Other(c)].pc = "idle"
    /\ j.pc = "write" =>
         /\ j.drop = labels[p] \ {j.want}
         /\ j.add = (j.want # NoLabel /\ j.want \notin labels[p])
    /\ ~Owed(p) =>
         /\ j.pc \in {"build", "comments"} => life[p] = "open" /\ j.head = head[p]
         /\ j.pc = "comments" => j.ci = ci_status(build[p][head[p]])
         /\ j.pc \in {"labels", "write"} => j.want = Wanted(p)

\* An undisturbed job never writes from records that changed since it read
\* them, unless a later job is due to correct it; nor does it overlap another
\* (pr-labels.yml 85-94, core.py 283-293, labels.py 184-186).
JobsAreCurrent ==
    \A p \in PRs, c \in Callers :
        job[p][c].pc # "idle" /\ ~disturbed[p] => JobIsCurrent(p, c)

\* What the records say of p does not change any more.
Stable(p) ==
    <>[][UNCHANGED <<life[p], head[p], build[p], board[p], marker[p]>>]_vars

\* When its records stop changing and nothing disturbs it any more, a pull
\* request's label becomes right and stays right: jobs keep being asked for and
\* each reads live records (pr-labels.yml 16-17 "idempotent and convergent").
Converges ==
    \A p \in PRs : Stable(p) /\ <>[]~disturbed[p] => <>[](labels[p] = WantedSet(p))

\* The two labels the sweep lists do not outlive their reason on an open pull
\* request, even when a marker expires without an event, a job dies or a
\* sweep and a job overlapped (pr-labels.yml 38-39, 214-217).
SweepHeals ==
    \A p \in PRs : Stable(p) =>
        <>[](life[p] = "open" =>
               labels[p] \cap {"awaiting-review", "review-in-progress"}
                   \subseteq WantedSet(p))

-------------------------------------------------------------------------------
(* What comments in the workflow say, and the code does not do.            *)

\* "the worst case is a PR that briefly shows two labels until the next event
\* settles it" (pr-labels.yml 222-223): short of showing two labels, a pull
\* request at rest shows the right one.  (A marker that expires unannounced can
\* only matter where awaiting-review is wanted, which is left out here.)
WorstCaseIsTwoLabels ==
    \A p \in PRs : Idle(p) /\ ~Owed(p) /\ Wanted(p) # "awaiting-review"
                   /\ (\A l, m \in labels[p] : l = m)
        => labels[p] = WantedSet(p)

\* "Build finished -> ci-failed / review / ready" (pr-labels.yml 29): no build
\* in progress and no job owed, so the label is not about an older result.
BuildFinishedIsLabelled ==
    \A p \in PRs : Idle(p) /\ ~Owed(p) /\ Wanted(p) # "awaiting-review"
                   /\ dispatched[p] = {}
        => labels[p] = WantedSet(p)
===============================================================================
