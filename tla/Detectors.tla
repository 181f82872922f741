------------------------------ MODULE Detectors ------------------------------
(***************************************************************************)
(* The ten detectors of scripts/pr_status/stuck_alerts.py: what each reads *)
(* on GitHub, how that comes about, and when it raises its alert.          *)
(* StuckAlerts.tla has what becomes of the alerts, and of detectors whose  *)
(* calls fail.  Hours are ticks of `now`, and an alert's key is its prefix:*)
(* there is one pull request, one issue and one scheduled workflow.        *)
(***************************************************************************)
EXTENDS Naturals, Sequences, FiniteSets

CONSTANTS
    STRANDED_HOURS, EVICTION_LOOP_MIN, EVICTION_WINDOW_HOURS,
    MISSING_STATUS_HOURS, BUMP_STUCK_HOURS, PIN_STALE_HOURS, FKB_STALE_HOURS,
    SCHEDULER_HOURS, MAIN_CI_WINDOW,
    Scopes,     \* the paths a pull request may touch
    Never,      \* no time
    MaxHeads,   \* bound on the pull request's heads
    MaxTime,    \* bound on the clock
    MaxEvents   \* bound on what happens

Thresholds == {STRANDED_HOURS, EVICTION_WINDOW_HOURS, MISSING_STATUS_HOURS,
               BUMP_STUCK_HOURS, PIN_STALE_HOURS, FKB_STALE_HOURS, SCHEDULER_HOURS}

ASSUME ThresholdsAssumption ==
    /\ Thresholds \subseteq Nat \ {0}
    /\ EVICTION_LOOP_MIN \in Nat \ {0} /\ MAIN_CI_WINDOW \in Nat \ {0}
ASSUME WorldAssumption ==
    /\ MaxHeads \in Nat \ {0} /\ MaxTime \in Nat /\ MaxEvents \in Nat
    /\ Never \notin Nat

VARIABLES
    now,      \* the clock
    events,   \* history: events so far
    scene,    \* which part of GitHub changes: no detector looks at two
    pr,       \* a pull request
    status,   \* the newest `build` status of each of its heads
    runs,     \* the pr-build runs of each head, newest first
    reported, \* what the run that goes on for a head has posted already
    label,    \* the events of the label ready-to-merge, oldest first
    evicted,  \* when the merge queue removed the pull request
    ci,       \* main's runs of ci.yml, newest first
    watch,    \* the bump, the pin, the issues and a scheduled workflow
    ready,    \* history: since when it is labelled with one green status
    ghost     \* history: what the records above are traces of

prWorld == <<pr, status, runs, reported, label, evicted>>
worldVars == <<now, events, scene, prWorld, ci, watch, ready, ghost>>

Heads == 1..MaxHeads

Times == 0..MaxTime

ASSUME ScopesAssumption == Scopes \subseteq {"library", "pin", "other"}

\* Of a run that goes on, "none": the script makes it the empty string.
Conclusions == {"none", "success", "failure", "cancelled"}

Scenes == {"pull request", "main", "schedules"}

-------------------------------------------------------------------------------
(* What the detectors make of it                                           *)

\* Wrong on purpose: timedelta.seconds, which starts again every day (of 3 hours).
hours_since_midnight(t) == (now - t) % 3

hours_since(t) == now - t

Last(s) == s[Len(s)]

\* Wrong on purpose: the first labelling.
ready_label_first_applied_at == IF label = <<>> THEN Never ELSE Head(label).at

ready_label_applied_at ==
    IF label = <<>> \/ Last(label).event = "unlabeled" THEN Never ELSE Last(label).at

detect_eviction_loops ==
    LET applied == ready_label_applied_at IN
    /\ ~pr.draft /\ applied # Never
    /\ EVICTION_LOOP_MIN <= Cardinality({i \in DOMAIN evicted :
          hours_since(evicted[i]) < EVICTION_WINDOW_HOURS /\ evicted[i] > applied})

\* Wrong on purpose: a cancelled run is one that should have reported.
Concluded(rs) == {i \in DOMAIN rs : rs[i].conclusion # "none"}

\* The run whose verdict is the newest: a cancelled one never reports.
Verdicts(rs) == {i \in DOMAIN rs : rs[i].conclusion \notin {"none", "cancelled"}}

Oldest(S) == CHOOSE i \in S : \A k \in S : i <= k

detect_missing_required_status ==
    LET rs == runs[pr.head] IN
    /\ ~pr.draft
    /\ status[pr.head].state = "none"
    /\ \A i \in DOMAIN rs : rs[i].completed
    /\ Verdicts(rs) # {}
    /\ hours_since(rs[Oldest(Verdicts(rs))].at) >= MISSING_STATUS_HOURS

detect_diverged_head == pr.repo /\ pr.tip # pr.head

\* The paths it touches: the library's, the pin's as well, or others.
is_automerge_scope == pr.scope \in {"library", "pin"}

Mergeable ==
    /\ is_automerge_scope
    /\ pr.scope = "pin" => pr.guarded
    /\ pr.mergeable = "true"

\* Wrong on purpose, and how it once was: queue churn moves `updated_at`.
detect_stranded_by_update ==
    /\ ~pr.draft /\ ~pr.held
    /\ status[pr.head].state = "success" /\ ready_label_applied_at # Never
    /\ hours_since(status[pr.head].at) >= STRANDED_HOURS
    /\ hours_since(pr.updated_at) >= STRANDED_HOURS
    /\ pr.approved /\ Mergeable

detect_stranded_prs ==
    LET build == status[pr.head]
        applied == ready_label_applied_at IN
    /\ ~pr.draft /\ ~pr.held
    /\ build.state = "success" /\ applied # Never
    /\ hours_since(build.at) >= STRANDED_HOURS
    /\ hours_since(applied) >= STRANDED_HOURS
    /\ pr.approved /\ Mergeable

\* Wrong on purpose: the status's own age.
detect_stuck_bump_by_status ==
    /\ watch.bump # Never /\ watch.build = "failure"
    /\ hours_since(watch.built) >= BUMP_STUCK_HOURS

\* The bump's status is newer with every forced push; its age is not.
detect_stuck_bump ==
    /\ watch.bump # Never /\ watch.build = "failure"
    /\ hours_since(watch.bump) >= BUMP_STUCK_HOURS

detect_stale_pin == hours_since(watch.pin) >= PIN_STALE_HOURS

detect_stale_fkb == watch.fkb # Never /\ hours_since(watch.fkb) >= FKB_STALE_HOURS

\* flagged_pr_is_finished is FALSE in doubt: see StuckAlerts!ItemAssumed.
detect_review_stuck == watch.flagged /\ ~watch.finished

\* Wrong on purpose: whatever started it.
AnyRun == DOMAIN watch.cron

Scheduled == {i \in DOMAIN watch.cron : watch.cron[i].event = "schedule"}

detect_dead_schedulers ==
    \/ ~watch.active
    \/ Scheduled = {}
    \/ hours_since(watch.cron[Oldest(Scheduled)].at) >= SCHEDULER_HOURS

Window == {i \in DOMAIN ci : i <= MAIN_CI_WINDOW}

Conclusive == {i \in Window : ci[i].conclusion \in {"success", "failure"}}

\* Wrong on purpose: no news is good news.
detect_main_red_or_clear ==
    IF Conclusive # {} /\ ci[Oldest(Conclusive)].conclusion = "failure"
    THEN "red" ELSE "clear"

\* "unknown" is an exception: the window has nothing to go by.
detect_main_red ==
    IF Conclusive # {}
    THEN IF ci[Oldest(Conclusive)].conclusion = "failure" THEN "red" ELSE "clear"
    ELSE IF Cardinality(Window) = MAIN_CI_WINDOW THEN "unknown" ELSE "clear"

DETECTORS == {"stuck_bump", "stale_pin", "stranded_pr", "eviction_loop", "missing_status",
              "diverged_head", "review_stuck", "dead_scheduler", "main_red", "stale_fkb"}

Raised(d) ==
    CASE d = "stuck_bump"     -> detect_stuck_bump
      [] d = "stale_pin"      -> detect_stale_pin
      [] d = "stranded_pr"    -> detect_stranded_prs
      [] d = "eviction_loop"  -> detect_eviction_loops
      [] d = "missing_status" -> detect_missing_required_status
      [] d = "diverged_head"  -> detect_diverged_head
      [] d = "review_stuck"   -> detect_review_stuck
      [] d = "dead_scheduler" -> detect_dead_schedulers
      [] d = "main_red"       -> detect_main_red = "red"
      [] d = "stale_fkb"      -> detect_stale_fkb

Alerts == {d \in DETECTORS : Raised(d)}

-------------------------------------------------------------------------------

PullRequests ==
    [head : Heads, tip : Heads, repo : BOOLEAN, draft : BOOLEAN, held : BOOLEAN,
     scope : Scopes, guarded : BOOLEAN, approved : BOOLEAN,
     mergeable : {"true", "false", "null"}, updated_at : Times]

WorldTypeOK ==
    /\ now \in Times /\ events \in 0..MaxEvents /\ scene \in Scenes
    /\ pr \in PullRequests
    /\ status \in [Heads -> [state : {"none", "success", "failure"}, at : Times]]
    /\ runs \in [Heads ->
                    Seq([completed : BOOLEAN, conclusion : Conclusions, at : Times])]
    /\ reported \in [Heads -> {"none", "success", "failure"}]
    /\ label \in Seq([event : {"labeled", "unlabeled"}, at : Times])
    /\ evicted \in Seq(Times)
    /\ ci \in Seq([going : BOOLEAN, conclusion : Conclusions])
    /\ watch \in
          [bump : Times \cup {Never}, build : {"none", "success", "failure"},
           built : Times, pin : Times, fkb : Times \cup {Never}, flagged : BOOLEAN,
           finished : BOOLEAN, active : BOOLEAN,
           cron : Seq([event : {"schedule", "push"}, at : Times])]
    /\ ready \in Times \cup {Never}
    /\ ghost \in [lost : [Heads -> Times \cup {Never}], bounces : Seq(Times),
                  red : BOOLEAN, wedged : Times \cup {Never}, fired : Times]

Started(t) == [completed |-> FALSE, conclusion |-> "none", at |-> t]

\* The pull request's first build goes on; it is reviewed already.
WorldInit ==
    /\ now = 0 /\ events = 0
    /\ scene \in Scenes
    /\ \E scope \in Scopes :
          pr = [head |-> 1, tip |-> 1, repo |-> TRUE, draft |-> FALSE,
                held |-> FALSE, scope |-> scope, guarded |-> FALSE,
                approved |-> TRUE, mergeable |-> "true", updated_at |-> 0]
    /\ status = [h \in Heads |-> [state |-> "none", at |-> 0]]
    /\ runs = [h \in Heads |-> IF h = 1 THEN <<Started(0)>> ELSE <<>>]
    /\ reported = [h \in Heads |-> "none"]
    /\ label = <<>> /\ evicted = <<>> /\ ci = <<>>
    /\ watch = [bump |-> Never, build |-> "none", built |-> 0, pin |-> 0, fkb |-> Never,
                flagged |-> FALSE, finished |-> FALSE, active |-> TRUE,
                cron |-> <<[event |-> "schedule", at |-> 0]>>]
    /\ ready = Never
    /\ ghost = [lost |-> [h \in Heads |-> Never], bounces |-> <<>>,
                red |-> FALSE, wedged |-> Never, fired |-> 0]

Event(s) ==
    /\ scene = s
    /\ events < MaxEvents
    /\ events' = events + 1
    /\ UNCHANGED <<now, scene>>

-------------------------------------------------------------------------------
(* A pull request                                                          *)

PrEvent == Event("pull request") /\ UNCHANGED <<ci, watch>>

\* Something about it that GitHub counts as an update
Update(r) == pr' = [r EXCEPT !.updated_at = now]

\* A new head, which has no status yet.
Push ==
    /\ PrEvent
    /\ pr.tip < MaxHeads
    /\ Update([pr EXCEPT !.head = pr.tip + 1, !.tip = @ + 1, !.guarded = FALSE,
                         !.approved = FALSE, !.mergeable = "null"])
    /\ UNCHANGED <<status, runs, reported, label, evicted, ghost>>

\* The branch moves and the pull request does not follow.
MoveBranch ==
    /\ PrEvent
    /\ pr.tip < MaxHeads
    /\ pr' = [pr EXCEPT !.tip = @ + 1]
    /\ UNCHANGED <<status, runs, reported, label, evicted, ghost>>

\* Its flags and the reviewer's verdict change, or its repository goes.
Edit ==
    /\ PrEvent
    /\ \/ \E b \in BOOLEAN : Update([pr EXCEPT !.draft = b]) \/ Update([pr EXCEPT !.held = b])
       \/ \E b \in BOOLEAN : Update([pr EXCEPT !.approved = b])
       \/ \E m \in {"true", "false", "null"} : pr' = [pr EXCEPT !.mergeable = m]
       \/ pr' = [pr EXCEPT !.repo = FALSE]
    /\ pr' # pr
    /\ UNCHANGED <<status, runs, reported, label, evicted, ghost>>

\* A run of pr-build goes on for h.
Builds(h) == runs[h] # <<>> /\ ~Head(runs[h]).completed

\* pr-build starts, by a push or by hand.
BuildStarts ==
    /\ PrEvent
    /\ ~Builds(pr.head)
    /\ runs' = [runs EXCEPT ![pr.head] = <<Started(now)>> \o @]
    /\ UNCHANGED <<pr, status, reported, label, evicted, ghost>>

\* Its last step posts `bump-guard` first ...
GuardReports ==
    /\ PrEvent
    /\ Builds(pr.head) /\ reported[pr.head] = "none"
    /\ pr.scope = "pin"
    /\ pr' = [pr EXCEPT !.guarded = ~@]
    /\ UNCHANGED <<status, runs, reported, label, evicted, ghost>>

\* ... and then `build`, while the run still goes on.
BuildReports(h, state) ==
    /\ scene = "pull request" /\ UNCHANGED <<now, scene, events, ci, watch>>
    /\ Builds(h) /\ reported[h] = "none"
    /\ status' = [status EXCEPT ![h] = [state |-> state, at |-> now]]
    /\ reported' = [reported EXCEPT ![h] = state]
    /\ UNCHANGED <<pr, runs, label, evicted, ghost>>

\* It is cancelled at any time, succeeds only if it has reported a success, and
\* fails otherwise: then the report may be lost.
BuildConcludes(h, conclusion) ==
    /\ PrEvent
    /\ Builds(h)
    /\ conclusion = "success" => reported[h] = "success"
    /\ runs' = [runs EXCEPT ![h][1] =
                   [completed |-> TRUE, conclusion |-> conclusion, at |-> now]]
    /\ reported' = [reported EXCEPT ![h] = "none"]
    /\ ghost' = IF conclusion = "failure" /\ reported[h] = "none"
                THEN [ghost EXCEPT !.lost[h] = now] ELSE ghost
    /\ UNCHANGED <<pr, status, label, evicted>>

\* The labels workflow puts ready-to-merge on, or takes it off.
Label(event) ==
    /\ PrEvent
    /\ event = IF ready_label_applied_at = Never THEN "labeled" ELSE "unlabeled"
    /\ label' = Append(label, [event |-> event, at |-> now])
    /\ Update(pr)
    /\ ghost' = [ghost EXCEPT !.bounces = <<>>]
    /\ UNCHANGED <<status, runs, reported, evicted>>

\* The merge queue took it, and throws it out again.
Evict ==
    /\ PrEvent
    /\ evicted' = Append(evicted, now)
    /\ Update(pr)
    /\ ghost' = [ghost EXCEPT !.bounces = Append(@, now)]
    /\ UNCHANGED <<status, runs, reported, label>>

-------------------------------------------------------------------------------
(* Main                                                                    *)

MainEvent == Event("main") /\ UNCHANGED <<prWorld, watch>>

Going == {i \in DOMAIN ci : ci[i].going}

\* A push to main: one run goes on, one waits, and a newer one cancels that.
MainPush ==
    /\ MainEvent
    /\ ci' = <<[going |-> TRUE, conclusion |-> "none"]>> \o
             [i \in DOMAIN ci |->
                 IF ci[i].going /\ \E k \in Going : i < k
                 THEN [going |-> FALSE, conclusion |-> "cancelled"] ELSE ci[i]]
    /\ UNCHANGED ghost

\* Runs end in the order of their creation.
MainConcludes(conclusion) ==
    /\ MainEvent
    /\ \E i \in Going :
          /\ \A k \in Going : k <= i
          /\ ci' = [ci EXCEPT ![i] = [going |-> FALSE, conclusion |-> conclusion]]
    /\ ghost' = CASE conclusion = "failure" -> [ghost EXCEPT !.red = TRUE]
                  [] conclusion = "success" -> [ghost EXCEPT !.red = FALSE]
                  [] OTHER -> ghost

\* The newest verdict is red and its run is run again: nobody knows any more.
MainRunsAgain ==
    /\ MainEvent
    /\ Going = {}
    /\ \E i \in DOMAIN ci :
          /\ ci[i].conclusion = "failure"
          /\ \A k \in 1..(i - 1) : ci[k].conclusion = "cancelled"
          /\ ci' = [ci EXCEPT ![i] = [going |-> TRUE, conclusion |-> "none"]]
    /\ ghost' = [ghost EXCEPT !.red = FALSE]

-------------------------------------------------------------------------------
(* The bump, the pin, the issues and a scheduled workflow                  *)

WatchEvent(w) ==
    /\ Event("schedules")
    /\ w # watch
    /\ watch' = w
    /\ UNCHANGED <<prWorld, ci>>

\* update.yml opens the bump's pull request, or pushes to it by force.
PushBump ==
    /\ WatchEvent([watch EXCEPT !.bump = IF @ = Never THEN now ELSE @, !.build = "none"])
    /\ UNCHANGED ghost

BumpBuilds(state) ==
    /\ watch.bump # Never
    /\ WatchEvent([watch EXCEPT !.build = state, !.built = now])
    /\ ghost' = [ghost EXCEPT !.wedged = IF state = "success" THEN Never
                                         ELSE IF @ = Never THEN now ELSE @]

\* The bump is merged, which moves the pin, or closed.
EndBump(merged) ==
    /\ watch.bump # Never
    /\ WatchEvent([watch EXCEPT !.bump = Never, !.build = "none",
                                !.pin = IF merged THEN now ELSE @])
    /\ ghost' = [ghost EXCEPT !.wedged = Never]

Issues ==
    /\ \/ WatchEvent([watch EXCEPT !.fkb = IF @ = Never THEN now ELSE Never])
       \/ \E b \in BOOLEAN :
             WatchEvent([watch EXCEPT !.flagged = b]) \/ WatchEvent([watch EXCEPT !.finished = b])
    /\ UNCHANGED ghost

CronFires ==
    /\ watch.active
    /\ WatchEvent([watch EXCEPT !.cron = <<[event |-> "schedule", at |-> now]>> \o @])
    /\ ghost' = [ghost EXCEPT !.fired = now]

OtherRun ==
    /\ WatchEvent([watch EXCEPT !.cron = <<[event |-> "push", at |-> now]>> \o @])
    /\ UNCHANGED ghost

Switch ==
    /\ WatchEvent([watch EXCEPT !.active = ~@])
    /\ UNCHANGED ghost

-------------------------------------------------------------------------------

Tick ==
    /\ now < MaxTime
    /\ now' = now + 1
    /\ UNCHANGED <<events, scene, prWorld, ci, watch, ghost>>

Happens ==
    \/ Push \/ MoveBranch \/ Edit \/ BuildStarts \/ GuardReports \/ Evict
    \/ \E h \in Heads :
          \/ \E state \in {"success", "failure"} : BuildReports(h, state)
          \/ \E c \in Conclusions \ {"none"} : BuildConcludes(h, c)
    \/ \E event \in {"labeled", "unlabeled"} : Label(event)
    \/ MainPush \/ MainRunsAgain
    \/ \E c \in Conclusions \ {"none"} : MainConcludes(c)
    \/ PushBump \/ Issues \/ CronFires \/ OtherRun \/ Switch
    \/ \E state \in {"success", "failure"} : BumpBuilds(state)
    \/ \E merged \in BOOLEAN : EndBump(merged)
    \/ Tick

Ready == ready_label_applied_at # Never /\ status[pr.head].state = "success"

\* `ready` begins anew with a new head or a newer status of the head.
Noted ==
    ready' = IF ~Ready' THEN Never
             ELSE IF Ready /\ pr'.head = pr.head /\ status'[pr.head] = status[pr.head]
                  THEN ready
             ELSE now

WorldNext == Happens /\ Noted

WorldSpec == WorldInit /\ [][WorldNext]_worldVars

-------------------------------------------------------------------------------
(* What the alerts mean                                                    *)

\* A pull request that may be merged raises the alert exactly when it has been
\* labelled, with one green build of its head, for all of the window: neither the
\* merge queue's coming and going nor an older cycle counts
\* (stuck_alerts.py:451-468).
StrandedIsRight ==
    "stranded_pr" \in Alerts <=>
        /\ ~pr.draft /\ ~pr.held /\ pr.approved /\ Mergeable
        /\ ready # Never /\ now - ready >= STRANDED_HOURS

\* Evictions raise the alert only if so many belong to the label's current cycle,
\* and they do unless they fall into the hour of the labelling
\* (stuck_alerts.py:331-345).
EvictionsAreCounted ==
    LET recent(t) == Cardinality({i \in DOMAIN ghost.bounces :
            /\ now - ghost.bounces[i] < EVICTION_WINDOW_HOURS
            /\ ghost.bounces[i] >= t}) IN
    /\ "eviction_loop" \in Alerts => recent(0) >= EVICTION_LOOP_MIN
    /\ (~pr.draft /\ ready # Never /\ recent(ready + 1) >= EVICTION_LOOP_MIN)
          => "eviction_loop" \in Alerts

\* The alert for a missing status is raised exactly when nothing will post one:
\* the newest run of the head that was not cancelled has lost its report, no run
\* has reported before or since, and none goes on (stuck_alerts.py:362-392).
MissingIsWedged ==
    "missing_status" \in Alerts <=>
        /\ ~pr.draft /\ status[pr.head].state = "none"
        /\ \A i \in DOMAIN runs[pr.head] : runs[pr.head][i].completed
        /\ ghost.lost[pr.head] # Never
        /\ now - ghost.lost[pr.head] >= MISSING_STATUS_HOURS

\* A red main stays red, or unknown, until a newer run succeeds or the red one is
\* run again, however many runs are cancelled on top of it
\* (stuck_alerts.py:614-639).
RedIsKept == ghost.red => detect_main_red # "clear"

\* A bump that failed at every build for all of the window, and failed last, is
\* an alert, however often it was pushed to (stuck_alerts.py:225-232).
BumpWedgeIsSeen ==
    watch.build = "failure" /\ ghost.wedged # Never
        /\ now - ghost.wedged >= BUMP_STUCK_HOURS => "stuck_bump" \in Alerts

\* A cron that does not fire is an alert, whatever else starts the workflow
\* (stuck_alerts.py:586-588).
DeadCronIsSeen == now - ghost.fired >= SCHEDULER_HOURS => "dead_scheduler" \in Alerts

\* No alert goes away by the passing of time, but for evictions that are out of
\* the window: the ages all detectors go by only grow, over midnight as well, so
\* that what clears an alert is something that happened (stuck_alerts.py:168-169).
NothingFadesAway == [][now' # now => Alerts \ {"eviction_loop"} \subseteq Alerts']_worldVars

==============================================================================
