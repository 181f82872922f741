---------------------------- MODULE ToolchainTags ----------------------------
(***************************************************************************)
(* scripts/toolchain_tags.py: the report that toolchain-tags.yml posts     *)
(* after a push to main that changes lean-toolchain, and `--create`, which *)
(* a maintainer runs by hand.  Both audit the releases in the same way:    *)
(* main, the tags, mathlib's releases, then CI and the cache one release   *)
(* after another, while main, CI, the cache and other people go on.        *)
(***************************************************************************)
EXTENDS Naturals, Sequences

CONSTANTS
    Releases,    \* Lean releases, numbered in the order of release_key
    Nightly,     \* a toolchain that is no release
    Earliest,    \* EARLIEST_RELEASE
    NoCommit,    \* no commit, no tag
    OffMain,     \* a commit that was constructed by hand, off main
    Nothing,     \* no report in the topic
    MaxCommits,  \* bound on main's length
    MaxMoves,    \* bound on what happens outside the runs
    MaxFaults    \* bound on failing calls

Pins == Releases \cup {Nightly}

Commits == 1..MaxCommits

ASSUME ReleasesAssumption ==
    /\ Releases \subseteq Nat /\ Earliest \in Nat /\ Nightly \notin Releases
ASSUME CommitsAssumption ==
    /\ MaxCommits \in Nat \ {0} /\ NoCommit \notin Nat /\ OffMain \notin Nat
    /\ OffMain # NoCommit
ASSUME BoundsAssumption == MaxMoves \in Nat /\ MaxFaults \in Nat

VARIABLES
    main,     \* the toolchain of each commit of main's first-parent line
    mathlib,  \* the releases mathlib has tagged
    ci,       \* the conclusion of each commit's newest completed ci.yml run
    cache,    \* the commits whose outputs are published
    tags,     \* the commit each release is tagged at
    topic,    \* the newest report in the Zulip topic: its digest, and which it is
    queue,    \* the pending job of the concurrency group toolchain-tags
    run,      \* the report that is under way, and the `--create`
    rerun,    \* history: whose CI was run again since each run began
    news,     \* history: since the last report's audit, and since this one's
    moves,    \* history: how much happened so far
    faults    \* history: failures so far

world == <<main, mathlib, ci, cache, tags>>
vars == <<world, topic, queue, run, rerun, news, moves, faults>>

-------------------------------------------------------------------------------
(* The audit's judgement                                                   *)

Conclusions == {"none", "success", "failure"}

Places == Commits \cup {OffMain}

\* "asked" and "green" are on their way to a verdict.
Statuses == {"none", "asked", "green", "tagged", "ready", "pending", "ahead", "blocked",
             "unreachable", "out-of-scope"}

Rows == [status : Statuses, commit : Places \cup {NoCommit}, ci : Conclusions]

NoRow == [status |-> "none", commit |-> NoCommit, ci |-> "none"]

\* The commits of m at which the toolchain changes.
EraStarts(m) == {i \in DOMAIN m : i = 1 \/ m[i] # m[i - 1]}

\* The releases that m has run on.
Ran(m) == {m[i] : i \in EraStarts(m)} \cap Releases

\* by_release[r]: a later era of the same release replaces an earlier one.
RuleCommit(m, r) ==
    CHOOSE i \in EraStarts(m) :
        m[i] = r /\ \A j \in EraStarts(m) : m[j] = r => j <= i

Below(r, S) == \E s \in S : r < s

\* The releases a report is about: none older than the oldest that main ran on.
InScope(l) ==
    {r \in mathlib \cup Ran(l.main) : \E s \in Ran(l.main) : s <= r}

UnreachableRow(l, r) ==
    [NoRow EXCEPT
        !.status = IF l.tags[r] # NoCommit THEN "tagged"
                   ELSE IF r < Earliest THEN "out-of-scope"
                   ELSE IF Below(r, Ran(l.main)) THEN "unreachable" ELSE "ahead",
        !.commit = l.tags[r]]

\* What can be said of r before CI is asked; "asked" if it must be.
FirstRow(l, r) ==
    IF r \notin InScope(l) THEN NoRow
    ELSE IF r \notin Ran(l.main) THEN UnreachableRow(l, r)
    ELSE LET c == RuleCommit(l.main, r) IN
         [status |-> IF r < Earliest THEN "out-of-scope"
                     ELSE IF l.tags[r] = c THEN "tagged"
                     ELSE IF l.tags[r] # NoCommit THEN "blocked" ELSE "asked",
          commit |-> c, ci |-> "none"]

\* Wrong on purpose: a release that waits for CI is news, too.
DigestOfAll(rows) ==
    {<<r, rows[r]>> : r \in {s \in Releases :
        rows[s].status \notin {"none", "ahead", "out-of-scope"}}}

state_digest(rows) ==
    {<<r, rows[r]>> : r \in {s \in Releases :
        rows[s].status \notin {"none", "pending", "ahead", "out-of-scope"}}}

-------------------------------------------------------------------------------

Runs == {"report", "create"}

Steps == {"idle", "wait", "fetch", "tags", "mathlib", "judge"}

\* One report is told from the one before it by its parity.
Topics == [digest : (SUBSET (Releases \X Rows)) \cup {Nothing}, odd : BOOLEAN]

\* A run's arguments and what it has read so far.
Local == [step : Steps,
          sha  : Commits \cup {NoCommit},
          main : Seq(Pins),
          tags : [Releases -> Places \cup {NoCommit}],
          rows : [Releases -> Rows],
          wanted : SUBSET Releases]

NoTags == [r \in Releases |-> NoCommit]

Idle == [step |-> "idle", sha |-> NoCommit, main |-> <<>>, tags |-> NoTags,
         rows |-> [r \in Releases |-> NoRow], wanted |-> {}]

\* A job asked for by a push waits for that commit, a dispatched one may.
Jobs == Commits \cup {NoCommit}

TypeOK ==
    /\ main \in Seq(Pins) /\ Len(main) \in Commits
    /\ mathlib \in SUBSET Releases
    /\ ci \in [Commits -> Conclusions]
    /\ cache \in SUBSET Places
    /\ tags \in [Releases -> Places \cup {NoCommit}]
    /\ topic \in Topics
    /\ queue \in SUBSET Jobs
    /\ run \in [Runs -> Local]
    /\ rerun \in [Runs -> SUBSET Commits]
    /\ news \in [last : BOOLEAN, audit : BOOLEAN]
    /\ moves \in 0..MaxMoves
    /\ faults \in 0..MaxFaults

Init ==
    /\ main \in UNION {[1..n -> Pins] : n \in Commits}
    /\ mathlib = Ran(main)
    /\ ci = [c \in Commits |-> "none"]
    /\ cache = {}
    /\ tags = NoTags
    /\ topic = [digest |-> Nothing, odd |-> FALSE]
    /\ queue = {}
    /\ run = [k \in Runs |-> Idle]
    /\ rerun = [k \in Runs |-> {}]
    /\ news = [last |-> FALSE, audit |-> FALSE]
    /\ moves = 0
    /\ faults = 0

-------------------------------------------------------------------------------
(* What people, GitHub, ci.yml and mathlib do.                             *)

\* Something to tell anybody about has happened, or not.
News(b) == news' = [last |-> news.last \/ b, audit |-> news.audit \/ b]

Move ==
    /\ moves < MaxMoves
    /\ moves' = moves + 1
    /\ UNCHANGED <<topic, run, faults>>

\* The pending job of the group gives way to a newer one.
Request(j) == queue' = {j}

\* A bump that goes straight on to the next release is no news by itself.
Strays(t) ==
    /\ t \in Releases
    /\ \E r \in mathlib \cup Ran(main) \cup {t} :
          \/ t <= r /\ r \in Ran(main)
          \/ r = t /\ tags[t] # NoCommit
          \/ r < t /\ ~Below(r, Ran(main)) /\ r \notin Ran(main)

Commit(t) ==
    /\ Move
    /\ Len(main) < MaxCommits
    /\ main' = Append(main, t)
    /\ IF t # main[Len(main)]
       THEN Request(Len(main) + 1) /\ News(Strays(t))
       ELSE UNCHANGED <<queue, news>>
    /\ UNCHANGED <<mathlib, ci, cache, tags, rerun>>

MathlibTags(r) ==
    /\ Move
    /\ r \notin mathlib
    /\ mathlib' = mathlib \cup {r}
    /\ News(Below(r, Ran(main)) \/ tags[r] # NoCommit)
    /\ UNCHANGED <<main, ci, cache, tags, queue, rerun>>

\* ci.yml concludes on a commit, if it runs there at all.
Conclude(c, conclusion) ==
    /\ Move
    /\ c \in DOMAIN main
    /\ ci[c] = "none"
    /\ ci' = [ci EXCEPT ![c] = conclusion]
    /\ News(TRUE)
    /\ UNCHANGED <<main, mathlib, cache, tags, queue, rerun>>

\* A run that is run again is not completed any more.
RunAgain(c) ==
    /\ Move
    /\ ci[c] # "none"
    /\ ci' = [ci EXCEPT ![c] = "none"]
    /\ rerun' = [k \in Runs |-> rerun[k] \cup {c}]
    /\ News(TRUE)
    /\ UNCHANGED <<main, mathlib, cache, tags, queue>>

Publish(c) ==
    /\ Move
    /\ c \in DOMAIN main \ cache
    /\ cache' = cache \cup {c}
    /\ News(TRUE)
    /\ UNCHANGED <<main, mathlib, ci, tags, queue, rerun>>

\* A tag is made by hand, off main or at any commit of it.
TagByHand(r, c) ==
    /\ Move
    /\ tags[r] = NoCommit
    /\ c \in DOMAIN main \cup {OffMain}
    /\ tags' = [tags EXCEPT ![r] = c]
    /\ News(TRUE)
    /\ UNCHANGED <<main, mathlib, ci, cache, queue, rerun>>

\* workflow_dispatch, with or without waiting for main's newest commit
Dispatch(wait) ==
    /\ Move
    /\ Request(IF wait THEN Len(main) ELSE NoCommit)
    /\ UNCHANGED <<world, rerun, news>>

-------------------------------------------------------------------------------
(* toolchain_tags.main                                                     *)

Set(k, l) == run' = [run EXCEPT ![k] = l]

Begin(k, sha, wanted) ==
    /\ run[k].step = "idle"
    /\ Set(k, [Idle EXCEPT !.step = IF sha = NoCommit THEN "fetch" ELSE "wait",
                           !.sha = sha, !.wanted = wanted])
    /\ rerun' = [rerun EXCEPT ![k] = {}]

\* One report at a time.
StartReport ==
    /\ \E sha \in queue : Begin("report", sha, {})
    /\ queue' = {}
    /\ UNCHANGED <<world, topic, news, moves, faults>>

\* --create --all, or --create of one release
StartCreate ==
    /\ \E w \in {Releases} \cup {{r} : r \in Releases} : Begin("create", NoCommit, w)
    /\ UNCHANGED <<world, topic, queue, news, moves, faults>>

wait_for_ci(k) ==
    /\ run[k].step = "wait"
    /\ ci[run[k].sha] # "none"
    /\ Set(k, [run[k] EXCEPT !.step = "fetch"])
    /\ UNCHANGED <<world, topic, queue, rerun, news, moves, faults>>

\* Wrong on purpose: a run that has waited long enough reports what there is.
TimeOutQuietly(k) ==
    /\ run[k].step = "wait"
    /\ ci[run[k].sha] = "none"
    /\ Set(k, [run[k] EXCEPT !.step = "fetch"])
    /\ UNCHANGED <<world, topic, queue, rerun, news, moves, faults>>

\* Wrong on purpose: the deadline is never looked at.
WaitOn(k) == run[k].step = "wait" /\ UNCHANGED vars

\* After --wait-minutes the run ends red, and says nothing.
TimeOut(k) ==
    /\ run[k].step = "wait"
    /\ ci[run[k].sha] = "none"
    /\ Set(k, Idle)
    /\ UNCHANGED <<world, topic, queue, rerun, news, moves, faults>>

fetch_main(k) ==
    /\ run[k].step = "fetch"
    /\ Set(k, [run[k] EXCEPT !.step = "tags", !.main = main])
    /\ news' = IF k = "report" THEN [news EXCEPT !.audit = FALSE] ELSE news
    /\ UNCHANGED <<world, topic, queue, rerun, moves, faults>>

\* existing_tags; then eras, which ends the run if there are none.
existing_tags(k) ==
    /\ run[k].step = "tags"
    /\ Set(k, IF Ran(run[k].main) = {} THEN Idle
              ELSE [run[k] EXCEPT !.step = "mathlib", !.tags = tags])
    /\ UNCHANGED <<world, topic, queue, rerun, news, moves, faults>>

\* What follows from main, the tags and mathlib's releases alone.
mathlib_releases(k) ==
    /\ run[k].step = "mathlib"
    /\ Set(k, [run[k] EXCEPT !.step = "judge", !.main = <<>>, !.tags = NoTags,
                             !.rows = [r \in Releases |-> FirstRow(run[k], r)]])
    /\ UNCHANGED <<world, topic, queue, rerun, news, moves, faults>>

\* The rows still without a verdict.
Open(l) == {r \in Releases : l.rows[r].status \in {"asked", "green"}}

\* One release after another
Judging(k, r) ==
    /\ run[k].step = "judge"
    /\ r \in Open(run[k])
    /\ \A s \in Open(run[k]) : r <= s

SetStatus(k, r, row, status) ==
    /\ Set(k, [run[k] EXCEPT !.rows[r] = [row EXCEPT !.status = status]])
    /\ UNCHANGED <<world, topic, queue, rerun, news, moves, faults>>

\* Wrong on purpose: that ci.yml has run is good enough.
CiVerdictAny(c) == IF ci[c] = "none" THEN "pending" ELSE "green"

CiVerdict(c) == CASE ci[c] = "none"    -> "pending"
                  [] ci[c] = "failure" -> "blocked"
                  [] ci[c] = "success" -> "green"

ci_passed(k, r) ==
    /\ Judging(k, r)
    /\ LET row == run[k].rows[r] IN
       /\ row.status = "asked"
       /\ SetStatus(k, r, [row EXCEPT !.ci = ci[row.commit]], CiVerdict(row.commit))

cache_published(k, r) ==
    /\ Judging(k, r)
    /\ LET row == run[k].rows[r] IN
       /\ row.status = "green"
       /\ SetStatus(k, r, row, IF row.commit \in cache THEN "ready" ELSE "blocked")

Audited(k) == run[k].step = "judge" /\ Open(run[k]) = {}

send_message(digest) == topic' = [digest |-> digest, odd |-> ~topic.odd]

\* Wrong on purpose: the digest is posted without a look at the topic.
PostAlways(digest) == send_message(digest)

\* last_posted_report is looked up, and the digest posted if it is another one.
PostIfChanged(digest) ==
    IF topic.digest = digest THEN UNCHANGED topic ELSE send_message(digest)

post_if_changed ==
    /\ Audited("report")
    /\ PostIfChanged(state_digest(run["report"].rows))
    /\ news' = [news EXCEPT !.last = news.audit]
    /\ Set("report", Idle)
    /\ UNCHANGED <<world, queue, rerun, moves, faults>>

\* What a run is still to create.
Wanted(l) == {r \in l.wanted : l.rows[r].status = "ready"}

\* create_tag: GitHub refuses a ref that exists, which ends the run.
create_tag(r) ==
    /\ Audited("create")
    /\ r \in Wanted(run["create"])
    /\ \A s \in Wanted(run["create"]) : r <= s
    /\ IF tags[r] = NoCommit
       THEN /\ tags' = [tags EXCEPT ![r] = run["create"].rows[r].commit]
            /\ Set("create", [run["create"] EXCEPT !.rows[r].status = "tagged"])
            /\ News(TRUE)
       ELSE Set("create", Idle) /\ UNCHANGED <<tags, news>>
    /\ UNCHANGED <<main, mathlib, ci, cache, topic, queue, rerun, moves, faults>>

EndCreate ==
    /\ Audited("create")
    /\ Wanted(run["create"]) = {}
    /\ Set("create", Idle)
    /\ UNCHANGED <<world, topic, queue, rerun, news, moves, faults>>

\* A call fails or the job is cancelled: the run ends red.  A message may have
\* been posted all the same.
Fail(k) ==
    /\ run[k].step # "idle"
    /\ faults < MaxFaults
    /\ faults' = faults + 1
    /\ \/ UNCHANGED <<topic, news>>
       \/ /\ k = "report" /\ Audited(k)
          /\ PostIfChanged(state_digest(run[k].rows))
          /\ news' = [news EXCEPT !.last = news.audit]
    /\ Set(k, Idle)
    /\ UNCHANGED <<world, queue, rerun, moves>>

-------------------------------------------------------------------------------

World ==
    \/ \E t \in Pins : Commit(t)
    \/ \E r \in Releases : MathlibTags(r) \/ (\E c \in Places : TagByHand(r, c))
    \/ \E c \in Commits :
          \/ \E conclusion \in Conclusions \ {"none"} : Conclude(c, conclusion)
          \/ RunAgain(c)
          \/ Publish(c)
    \/ \E wait \in BOOLEAN : Dispatch(wait)

Step(k) ==
    \/ wait_for_ci(k) \/ TimeOut(k)
    \/ fetch_main(k) \/ existing_tags(k) \/ mathlib_releases(k)
    \/ \E r \in Releases : ci_passed(k, r) \/ cache_published(k, r)

Report == StartReport \/ Step("report") \/ post_if_changed

Create == Step("create") \/ (\E r \in Releases : create_tag(r)) \/ EndCreate

Next ==
    \/ World \/ Report \/ StartCreate \/ Create
    \/ \E k \in Runs : Fail(k)

Spec == Init /\ [][Next]_vars

\* GitHub starts the job, and a job that can go on goes on.
FairSpec == Spec /\ WF_vars(Report)

-------------------------------------------------------------------------------
(* What the reports and the tags promise                                   *)

\* A tag that `--create` makes is what its message says: on the first commit of
\* an era of main on that release, not an old one, with its outputs in the cache
\* and its CI green, unless that CI was run again under the run's eyes.
\* toolchain_tags.py:464-475 and 485-513, between the audit and the POST.
TagIsPromise ==
    [][\A r \in Releases :
          tags'[r] # tags[r] /\ run'["create"] # run["create"] =>
             LET c == tags'[r] IN
             /\ r >= Earliest
             /\ c \in DOMAIN main /\ main[c] = r /\ (c = 1 \/ main[c - 1] # r)
             /\ c \in cache
             /\ ci[c] = "success" \/ c \in rerun["create"]]_vars

\* A report is posted only if it says something else than the newest one, and
\* only if something to tell happened since the audit behind that one, however
\* many runs there were, some of which posted without learning that they did: a
\* bump that waits for CI is no news, nor is a release that mathlib tags ahead of
\* main (toolchain_tags.py:406-418 and 597-605).
OnlyNewsIsPosted ==
    [][topic' # topic =>
          /\ topic'.digest # topic.digest
          /\ news.last \/ topic.digest = Nothing]_vars

\* A report that waited for a bump's CI says how it ended: the bump's release is
\* not left out of the digest as pending, which would look like a quiet night
\* (toolchain_tags.py:632-640), unless that CI was run again meanwhile.
WaitedForIsReported ==
    [][LET l == run["report"] IN
       Audited("report") /\ topic'.digest = state_digest(l.rows) /\ l.sha # NoCommit =>
          \A r \in Releases :
             l.rows[r].commit = l.sha /\ l.sha \notin rerun["report"] =>
                l.rows[r].status # "pending"]_vars

\* A report does not wait for ever: CI that never concludes ends it red
\* (toolchain_tags.py:524-541), which frees the concurrency group.
ReportsEnd == (run["report"].step # "idle") ~> (run["report"].step = "idle")

\* "`vX` is the first commit on `main` whose `lean-toolchain` is X"
\* (toolchain_tags.py:9): a tag that is created is at that commit.
FirstCommitIsTagged ==
    [][\A r \in Releases :
          tags'[r] # tags[r] /\ run'["create"] # run["create"] =>
             \A i \in DOMAIN main : main[i] = r => tags'[r] <= i]_vars

===============================================================================
