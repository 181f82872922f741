# Specifications of the TauCeti automation

TauCeti is a Lean library whose pull requests are built, reviewed, labelled,
merged and watched by workflows (`.github/workflows/`) and the scripts they run
(`scripts/`).  The mathematics is checked by Lean.  What is specified here is the
automation: programs that read and write GitHub's and Zulip's records one API call
at a time, next to each other and next to people, and that may be cancelled, fail
or be overtaken between any two calls.  No test runs two of them together.

Modules are checked with TLC on the instances of the `.cfg` files; the theorems in
the `*_proofs` modules are checked with TLAPS.  `PROJECT.json` maps each definition
to the lines it models, and lists the runs, the hazards, the theorems and the findings.

## Inventory

| Part | State it keeps | Operations | Interacts with | What makes it correct |
|---|---|---|---|---|
| Derived status (`pr_status/core.py`, `labels.derived_label`) | none: a function of GitHub's records | `ci_status`, `review_state`, `inprogress_from`, `derive`, `derived_label` | read by labels, Zulip, housekeeping, stuck alerts | one status for one set of records; red beats review; behind-HEAD boards never decide |
| PR status labels (`pr-labels.yml`, `labels.py`) | the labels on the PR; the jobs of a concurrency group | one trigger per event, `resolve`, `reconcile`, the hourly sweep | pr-build, reviewers, the derived status | exactly the right label once jobs are done; convergence; healing by the sweep |
| pr-build (`pr-build.yml`) | `build`, `scope`, `bump-guard` statuses; the cache | guards, sandboxed build, report, cache upload | labels, auto-merge, merge queue | statuses are about the commit they sit on; fail closed |
| Task claims (`claims_access.py`, COORDINATION.md §3) | leases on refs; collaborators | worker: acquire, renew, take over, release; hourly: `grant`, `sweep` | workers | one holder; dead leases cleared; live ones spared |
| Stuck alerts (`stuck_alerts.py`) | the Zulip topic | ten detectors, `reconcile` | all the other parts, by their records | an alert is raised exactly for what the emergency is; fail closed; one message per emergency; the topic converges |
| Housekeeping (`housekeeping.py`) | what a run listed | close PRs that are empty, spent, duplicates or stale | scoreboards, authors, maintainers | closes only for its reasons; spares `keep` and just-pushed work; strands nothing |
| Zulip mirror (`zulip.py`, `zulip-pr*.yml`) | a post per PR and its reactions | find or create, reword, set two groups of reactions, backfill | derived status, pr-build | one post; it shows the PR as it is; nothing is announced late |
| Toolchain tags (`toolchain_tags.py`, `toolchain-tags.yml`) | tags; the newest report; a concurrency group | wait for CI, audit, digest, post, `--create` | main, ci.yml, the lake cache, mathlib, maintainers | a tag keeps the promise of its message; a report is news; a wait ends |
| Roadmap labels (`roadmap_label.py`, `roadmap-label.yml`) | one `roadmap/*` label per PR | classify, apply, nudge, backfill | authors, runs by hand | the right label after the last event; a backfill reports what it did not do |
| PR statistics (`pr_lifecycle.py`, `pr_stats_graphs.py`, `pipeline_health.py`, steps of `pages.yml`) | a snapshot; the assets of the site | fetch by pages, derive clocks, chart, health report, replace, deploy | labels | charts and report agree; flows explain depths; what is published belongs together |
| Pages and doc-gen (`pages.yml`) | caches, the deployed site, a pointer ref | build, fold, deploy, advance | docs, Pages | the pointer never runs ahead of what was deployed |
| Merge path (`auto-merge.yml`, `merge-sweep.yml`, `review.yml`) | the merge queue | thin callers of another repository | pr-build, labels | — |
| Lake cache (`publish-lake-cache.yml`, `lake-cache-get.sh`, `lake_cache_probe.py`) | cached artefacts | publish, probe, download with retries | pr-build, tags | what is fetched belongs to the commit |
| Dependency bumps (`update.yml`, `check-bump.sh`) | bump PRs | open, guard | pr-build | only forward bumps |
| Linters, CI, nightly verification | none | sequential | — | — |

Hard behaviours: records read one by one while they change; a concurrency group that
drops all but the newest pending job, or cancels the running one; two groups working on one
PR; expiry by clock alone; clocks that differ; deletion by name of something judged by
content; a failed check that looks like good news; a message posted by a call that "failed";
two programs that derive the same thing by different ways.

## Modules

```
DerivedStatus <- StatusLabels <- MCStatusLabels          labels_events, labels_sweep
                      ^-- StatusLabels_proofs
TaskLocks <= ClaimLeases                                 claims, claims_race
                 ^-- ClaimLeases_proofs
AlertBoard <= StuckAlerts <- MCStuckAlerts               alerts
                   ^-- StuckAlerts_proofs
Detectors                                                detectors
    ^-- StuckAlerts_proofs
Housekeeping <- MCHousekeeping                           housekeeping
     ^-- Housekeeping_proofs
ZulipMirror                                              zulip, zulip_twice
     ^-- ZulipMirror_proofs
ToolchainTags <- MCToolchainTags                         toolchain
     ^-- ToolchainTags_proofs
PrLifecycle <- PrStatistics                              statistics
                    ^-- PrStatistics_proofs
RoadmapLabels <- MCRoadmapLabels                         roadmap
     ^-- RoadmapLabels_proofs
```

`<-` is EXTENDS, `<=` is a refinement (`INSTANCE ... WITH`).  In every module an action is one
API call with what the program does between that call and the next; `Die`, `Fail` and their
like end a run before a call, and where it matters after one that took effect.

### DerivedStatus and StatusLabels

`DerivedStatus` is the pure part: operators with the names of the functions, over
abstract records.  A scoreboard is reduced to its head, the set of states in its
durable map and the set of verdicts in its runs, which is all that `any()` and `all()`
see of them.

`StatusLabels` has GitHub's records (`life`, `head`, `build`, `board`, `marker`,
`labels`), the pr-build runs in progress (`runs`, and `dispatched` for those started by
hand), the `resolve` jobs (`resolving`), the commit another open PR is at as well (`shared`), the pending slot of the PR's concurrency group
(`pending`) and, per PR and caller, the script's locals (`job`).  The running slot of the
group is `job[p]["event"]`; the sweep's reconcile is `job[p]["sweep"]`.  `reconcile` is
one action per API call: `ReadPR`, `ReadBuild`, `ReadComments`, `ReadLabels`, one
`RemoveLabel` per label, `AddLabel`; it may `Die` before each.  A trigger is an action of
the people or of pr-build that also sets `pending`; a second one is absorbed, as GitHub
replaces the pending job.  For a fork's PR the end of a build goes through `Resolve`,
which looks for an open PR with that head when it runs, not when the build ended, and which is one of
three: it names the PR if it alone is at that head; it names nobody if two are (`ResolveAmbiguous`); or its
listing fails or its runner is lost (`ResolveFails`).  The status of a commit that two PRs share is written by the
builds of both (`PostOthersBuild`), and for a same-repository PR the payload may name the other
(`CompleteBuildForOther`).  `ExpireMarker` is time passing: no event.

`disturbed[p]` is a history variable: something happened to `p` that no event announces
(a marker expired, a build posted that was dispatched or another PR's), the end of its build
named nobody or somebody else, a reconcile died or two overlapped, and none has started alone since.  The properties are about undisturbed PRs, or say
which label heals in spite of the disturbance: a PR at rest carries at most one status label
(`AtMostOneLabel`) and the one its records call for (`SettledIsRight`); labels converge
(`Converges`); the sweep heals the two labels it lists after any disturbance (`SweepHeals`).
`JobsAreCurrent`, a job never acts on outdated records unless a later one is owed, is the
strengthening the proof needs; it is proved and has no run of its own.

### ClaimLeases and TaskLocks

The workers' side is another repository's `claim.sh`, modelled from COORDINATION.md
65-92 and marked external: compare-and-swap pushes, so reading and writing a lease is one
action.  `off` is how far each clock is ahead.  `claims_access.sweep` is one action per
call: list, take the cutoff, judge a lease (`SweepCondemn`/`SweepPassOver`), delete by
name (`SweepDelete`) or fail.  A ref may be `Foreign`, which is no lease; anybody who can push leases may push
or withdraw one, wherever the name is free (`ForeignPush`, `ForeignWithdraw`).  `clobbered`
remembers the refs that no longer held the condemned lease when they were deleted; the
finding `claims_race` is that this set can be non-empty.

`OneHolder` is mutual exclusion over what each worker *believes* (its record and its
clock), up to clobbered refs; `CondemnedIsUnheld` says that the grace period does what it
is for; `ForeignSpared` and `DeadLeaseIsSwept` are the two sides of the sweep's duty.  The former says what is
true of "not ours to delete" (79-80): a foreign ref that the sweep listed stays, and one that took the name of a
condemned lease after the listing is deleted with it, but only if that lease was over by every worker's clock.

`TaskLocks` is what a claim is for, with no clocks, refs or sweep: `Get` gives a claim nobody
goes by to one worker, `Lose` takes claims away, from many workers at once because time
does, and `Spoil` gives up what was deleted unjudged.  `ClaimLeases` implements it under `holders[k] <- the
workers that believe k`, none when k is clobbered, and `void <- clobbered`: `ImplementsLocks`.  It says
more than `OneHolder`, which it implies (`Get` starts from nobody, and nothing else adds a holder) and
which therefore has no place of its own in the run: a step in which one worker loses a claim and another gets it would
keep mutual exclusion, and is no step of `TaskLocks`.

### StuckAlerts, AlertBoard and Detectors

`StuckAlerts` is the watchdog with its detectors as black boxes.  `firing` is the truth: each
alert key is `Quiet` or has a body.  A run collects
(`Detect`, or one of three ways to fail that the detectors have), fetches the topic
(`Fetch`), posts or refreshes (`Post`, `Refresh`) and resolves (`Keep`, `Resolve`).
`Die` ends it anywhere, also after a call that took effect but whose answer was lost.
The workflow's concurrency group keeps runs from overlapping.  `calm` and `news` are
history: keys that were quiet at some time of this run, and since their last post.

`AlertBoard` is what the readers of the topic are promised, in six actions: emergencies begin
and end, the watchdog looks and looks away, and in between a notice is put up where none
stands or taken down if its emergency was over at some time of the look.  `StuckAlerts`
implements it under `emergency <- the keys that are not Quiet`, `board <- the red messages of each key`,
`relieved <- calm`; `ImplementsBoard` says so, is checked in `alerts` and proved in
`StuckAlerts_proofs`.  A detector, a fetch or a death is a stutter of the board; a message
that was posted by a call that failed is a notice put up.
`FailsClosed` and `OneNoticePerEmergency` are the docstring's promises for detectors that
do not swallow errors; `TopicConverges` is the point of the hourly reconcile.

`Detectors` opens the black boxes; its specification is `WorldSpec`.  `Raised` has one case per detector, computed from
GitHub's records as the script reads them; the actions are how these records come about: pushes,
builds that post their statuses while they go on, lose them, conclude or are cancelled, labels on and off, evictions from the queue, main's runs
cancelled by a concurrency group, forced pushes to the bump, cron runs.  The history
(`ready`, `ghost`) is what has really happened, and the properties compare the two.  `scene`
picks which part of GitHub changes in a behaviour, because no detector reads two parts.

### Housekeeping

GitHub's side is `state`, `flags` (draft, any label of `KEEP_LABELS`, the budget label),
`head`, the newest trusted `board` (its head, and whether it is clear, blocking, or
blocking at the round cap), the PRs whose diff is `empty`, and `age`, which stands for
`updatedAt` against the quiet window and the stale limit.  `run[r]` holds a run's locals: the
job, the candidates left, the one being decided on, the listed heads and budget labels.
Each job is `List`, then per candidate one action per call (`View`, `ReadSpent`,
`ReadBlocking`, `Decide`, `keep_label_live`, `Close`), then `EndJob`.  Candidates are taken
in any order.  Each job lists afresh; deduplication decides on its listing alone, and does not
spare the PR it kept from the stale job of the same run: the newer, active PR of a target may be closed for an older
one, and that one minutes later for being stale.  The workflow has no concurrency
group, so `Runs` may overlap.  `UsedFlags`, `Busy` and `MaxMoves` bound what people do.

`touched` is part of what GitHub shows: `updatedAt` is no longer before the run's cutoff.
`seen` is history: what has been so since the run's listing (no keep label, spent at its head,
pushed to, open when dedup listed it, closed or merged by somebody else since) and whether anything came after the last look, which no check can
see.  Properties are stated up to those facts: they say which races the checks close
and leave open exactly the window between the last look and `gh pr close`.

`KeepSpares`, `WorkIsNotRaced`, `SpentIsReviewed` and `OlderTwinStays` are the four reasons a
close may have.  The last one says that what dedup closes has an older twin that was open, and no draft, at the listing,
and that is open still but for what others did to it: what the run itself closes is no excuse.  `NeverStranded` is the script's purpose: what one of the jobs applies to does not
stay open for ever.

### ZulipMirror

One PR (`pr`, with its head's `build`, the pr-builds in progress `building`, and the `review`
state that core makes of the comments) and the bot's posts about it.
`queue[g]` is the pending job of a concurrency group and `job[g]` the running one; the groups are the
heads, as zulip-pr.yml and zulip-pr-status.yml share them, and the backfill.
`req.create` has three values: `"yes"` of `opened`, `"open"` of the label events, which create
only if the PR is open, and `"no"`.  A job reads the PR, finds its post or not, may
send one, rewords it, derives, and then removes and adds reactions one call at a time in two groups,
from the reactions it read (`mine`).  A send whose answer is lost is
`send_message` followed by `Fail`.  `settled` is history: a job saw the last change and
ran alone, and if its event told it that the build runs (`--ci running`), nothing has changed since it was asked
for (`Saw`): such a job goes by what it was told, however late it runs, see `TriggerOnlySaysWhen` under the findings; `lost` marks a request to create that was replaced or failed.  The workflow_run of Review carries main's
commit and so resolves to no PR: it is no action.

### ToolchainTags

`main` is the toolchain of each commit of the first-parent line; `EraStarts`, `RuleCommit`,
`Ran` and `FirstRow` are what `eras` and `audit` make of it.  `run["report"]` is the job of the
workflow's concurrency group, with `queue` its pending slot, and `run["create"]` a maintainer's
`--create`; both go through `wait_for_ci` (a report only), `fetch_main`, `existing_tags`,
`mathlib_releases`, then `ci_passed` and `cache_published` release by release.
Everybody else pushes, tags by hand, publishes, ends CI and runs it again, each a `Move`.
The newest report in the `topic` has its digest and a parity, which tells a second report of the same digest from the
first.  `rerun[k]` and `news` are history: whose CI was run again under a run's eyes, and
whether anything worth telling has happened since the audits behind the last report and
this one.  A release below the earliest one main ran on is out of scope, which is why `InScope`
looks at main first.

### RoadmapLabels

`classify` is a function of what the lines of a description say and of the kinds of
the paths in a diff.  `jobs[p]` is the workflow's run for a PR, which `Event` replaces wherever
it stands (`cancel-in-progress`); `jobs[h]` is the script run by hand by one of several `People`, for one PR with
`--nudge`, or inside that person's `backfill` with its plan, queue and failures.  An edit of labels is two
calls, in either order; `_gh` may take an edit or a comment for failed when some or all of it was done (`Retry`), and
makes all of it again, without another look for the comment's marker.  `LabelByHand` is somebody setting or taking a
label, which is no event of the workflow.  `wronged` is history: PRs whose last run failed, that a person's run
edited by an outdated description, or that somebody labelled; they are wrong until the next event.
`rivals[p]` is history, too: whose nudging runs of p were under way when its first nudge came.  Nothing locks those out
(302-306), so each of them may post with every try; any other run finds the marker.  That is `NudgesAreFew`.

### PrLifecycle and PrStatistics

`PrLifecycle` translates the loops of `pr_lifecycle.py` over a timeline: intervals, episodes, the author's
and the review's clocks; a loop is a recursive function of the number of events read.  `PrStatistics` has the PRs, a run of `pages.yml` that lists
them and reads their timelines page by page while they go on moving, the metrics of the charts,
the health report, the assets in `static` and the deployed `site`.  An asset is known by the
time of its snapshot.  Labels move as the labels workflow moves them (`MoveTo`), as overlapping jobs and people
do (`PutBeside`) and are taken off without an event (`TakeOff`: the query asks for `LABELED_EVENT` only).

## Runs

| Run | Instance | Shows |
|---|---|---|
| `labels_events` | a fork's PR, 2 heads (symmetric), either of which another PR may share, a blocking scoreboard for each, builds that succeed, 1 fault | the two invariants with every event and no sweep: 2 heads are enough for a job to hold an outdated one, and a fork's PR is the longer path (`resolve`); a build that fails differs in the label only, and its label from any other's is told in `DerivedStatus` and the theorems |
| `labels_sweep` | a same-repository PR, 1 head, a legacy approving scoreboard, sweep, dispatched builds, 1 fault | both liveness properties, with overlaps |
| `claims` | 2 workers, 1 claim, TTL 2, margin, skew and grace 1, time up to 5 | all four properties (mutual exclusion as part of `ImplementsLocks`); time 5 covers claim, expiry, takeover and a second expiry seen by the sweep, and a foreign ref in the place of what it has condemned |
| `claims_race` | TTL 1, time up to 4 | **fails**: see findings |
| `alerts` | one alert that may be assumed and one that may be swallowed, 2 bodies, 3 changes, 2 faults | the refinement and three properties: 3 changes are on, off and on again, 2 faults a death and a failed detector |
| `detectors` | 2 heads, thresholds of 2 hours (the pin's 3), a window of 2 runs of main, 3 hours, 4 events, any of the three scenes | six equivalences or bounds and one action property: with thresholds of 2 and 3 hours each wait can be too short, exact, and interrupted |
| `housekeeping` | 2 PRs of one target, the newer one worked on, 2 heads, 1 run at a time, 3 moves of people, 1 fault | all five properties: two PRs are a duplicate and its twin, 3 moves are a review, a push and a label, or a label and its removal with a push between |
| `zulip` | 2 heads, 2 contents, 2 review states, the backfill, 3 changes on GitHub, 1 fault | all four properties: 3 changes are a push, a build and a label, or a close and a reopening, next to jobs of both heads |
| `zulip_twice` | the same, no fault | **fails**: see findings |
| `toolchain` | 3 releases and a nightly, main just bumped and up to 3 commits long, 3 moves, 1 fault | all four properties: 3 moves take the bump's CI, its cache, and leave one for a rerun, a tag by hand or another bump between any two calls of an audit; a tag needs two and takes none itself |
| `statistics` | 2 PRs, 3 labels, pages of 1 event, hours 0 to 2, 4 moves and 2 disturbances of the run, windows of 1 hour | all five invariants: with pages of one event a label can come between two pages; 4 moves make a sibling swap, a bounce, or two merges |
| `roadmap` | 1 PR, from before the workflow or just opened (`MCRoadmapLabels!OpenedInit`), 1 roadmap, 2 kinds of description and diff, 1 event or label set by hand, 2 people and 2 runs by hand, 2 tries of a call, 2 faults | all three invariants: an event after the opening cancels the run of that; 2 runs by hand are two nudges side by side, a nudge beside a backfill, or one after another; 2 faults a retry of each, or a pull request that fails in both rounds of a backfill; the bound of `NudgesAreFew` is reached (2 rivals with 2 tries each post 4 nudges) |

In the label modules PRs do not interact, except that the sweep's script, or a backfill, handles one at a time, and that two may be at one
commit, which `Share` stands for; so one PR is enough; the theorems hold for any set of them.  Bounds are `MaxFaults`, `MaxChanges`,
`MaxMoves`, `MaxEvents`, `MaxCommands`, `MaxCommits`, `MaxHeads`, `MaxDisturbances` and `MaxTime`; nothing else is
capped.  Deadlock is checked but in `detectors`, `zulip`, `zulip_twice`, `toolchain`, `statistics` and `roadmap`,
where everybody may have done all that the bounds allow and no job is due.
`statistics` models one run of the page after another hour or two of life; what happens after the snapshot
is stamped cannot reach it, so nothing is let happen then.  `toolchain` begins with main on its second release
(`MCToolchainTags!BumpedInit`); the theorems begin with any main.  `roadmap` tries calls twice where the script does
three times, and the theorems any number of times.  In `statistics` the labels are two of the author's and one of the
reviewers', so sibling labels are swapped on the author's side; the theorem `AnswersAlike` has them all.

### Fairness

`StatusLabels`: runners pick up jobs, jobs and builds end, the cron fires.  Nobody has to
push, review or report a result; markers need not expire.  `ClaimLeases`: time passes, a
sweep that can take a step takes one, and (strong fairness) one that keeps being able to
judge and to delete a lease does not fail at it every time; workers owe nothing, not even a
renewal.  `StuckAlerts`: a run that can go on goes on; failures are bounded by
`MaxFaults`, which stands for "not every hour".  `Housekeeping`: the cron starts runs, a run
that can go on goes on, and untouched PRs grow old.  `ZulipMirror`: weak fairness of each group's jobs: one
that is pending starts and one that runs goes on.  `ToolchainTags`: weak fairness of the report, none of the
`--create`, which somebody may break off; a wait ends because `wait_for_ci` or `TimeOut` is always enabled, as the script looks at the clock
each time round.  CI owes no verdict.  People owe nothing anywhere.  All of them are what hourly
`schedule:` triggers and GitHub's runners give.

## Findings

* `claims_race`: claims_access.py 44-45 says that the grace period keeps the sweep from
  deleting a lease somebody actively holds.  It deletes by ref name after judging a listed
  commit; a takeover in between loses its lease.
* `zulip_twice`: zulip.py 4 says "exactly one bot-owned message per PR".  zulip-pr.yml 29 groups jobs by head
  commit: the job of `opened` and that of a label event after a push both search, find nothing and send.
  `OnePostPerHead` is what does hold, and `SettledIsRight` says the oldest post is the one kept up to date.

Other disagreements of code and documentation.  Each is stated as a property beside the model or as a remark
there, and comes out with TLC on the instance given:

* zulip-pr-status.yml 5-6 says that the trigger only decides when to refresh.  Line 94 passes `--ci running` when a
  build starts, and the job goes by that: if it runs after a push, when the build of the new head has ended, it
  paints a running build on a head whose build is done, and nothing is pending to put it right.  The proof of
  `SettledIsRight` brought this up; three changes on GitHub had been too few to bring it about, and the property
  now speaks of the other jobs only, for any number of changes.  `ZulipMirror!TriggerOnlySaysWhen` as an
  invariant, the constants of `zulip` with `UsedReviews = {"pending"}`, `MaxChanges = 4`, `MaxFaults = 0`.
* pr-labels.yml 222-223 calls two labels "until the next event" the worst case of a sweep overlapping a job.  A
  sweep that read the PR open can add its label after the job of the close removed it; no sweep lists a
  closed PR.  `StatusLabels!WorstCaseIsTwoLabels` as an invariant, the constants of `labels_sweep` with
  `Dispatching = FALSE`, `MaxFaults = 0`.
* pr-labels.yml 38-39, "Hourly backstop: ... self-heals any drift": when the end of a fork's build is lost, because
  `resolve` fails under `set -e` or finds two PRs at the commit (153-171), nobody asks again, and the sweep
  lists two labels only; `awaiting-CI` stays on a green PR until its next event.  `SettledIsRight` makes the exception.
* claims_access.py 79-80, "an unfamiliar ref in this namespace is not ours to delete": one pushed under the name of a
  condemned lease after the listing is deleted with it (182); `ForeignSpared` has the exception.
* pr-labels.yml 29 promises a label when a build finishes; one started with workflow_dispatch is filtered out
  (78, 131).  `StatusLabels!BuildFinishedIsLabelled` as an invariant, the constants of `labels_sweep` with
  `Sweeping = FALSE`, `MaxFaults = 0`.
* stuck_alerts.py 71-77, "FAIL CLOSED, never fail open", does not hold of `detect_dead_schedulers`, which swallows
  an error about one workflow (563-573).  `StuckAlerts!NeverFailsOpen`, the constants of `alerts`.
* housekeeping.py 194-195 says that a just-pushed fix that has not been re-reviewed is never closed; one pushed
  after the job's listing is (207).  `Housekeeping!FixIsSpared`, the constants of `housekeeping`.
* toolchain_tags.py 9, "`vX` is the first commit on `main` whose `lean-toolchain` is X": after a return to a release
  the later era replaces the earlier one (303).  `ToolchainTags!FirstCommitIsTagged`, with `Init` narrowed
  to `main = <<1, 2, 1>>`, `Releases = {1, 2}`, `Earliest = 1`, `MaxCommits = 3`, `MaxMoves = 3`.
* roadmap_label.py 35 calls changing an existing label opt-in.  A backfill skips by its listing and then removes
  whatever label the PR has by now (360-371).  `RoadmapLabels!RelabellingIsOptIn`, the constants of `roadmap`.
* pipeline_health.py 137-141 divides the merges of the whole baseline by its hours since `LIFECYCLE_EPOCH` only: shortly after
  the epoch a throughput that is steady looks fallen: the constants of `statistics` and
  the invariant `PrStatistics!FallIsRealFromTheStart`, with `EPOCH = 1`, `WINDOW = BASELINE = 2`,
  `MaxTime = 4`, `UsedLabels = {}`.  `FallIsReal`, which `statistics` checks and `FallReal` proves, begins when the
  baseline does not reach back before the epoch.
* housekeeping.py 23-24 says that a PR with a keep label is never auto-closed, but deduplication does not look at
  labels after its listing (`KeepSpares` makes the exception).
* pr-labels.yml 90-91 still says that the sweep looks only at review-in-progress (it lists awaiting-review too,
  257); "self-heals any drift" (39) is true of those two labels only.
* roadmap_label.py 303 says that the nudge is posted once, "idempotent via a hidden marker", and 228-229 that retries
  are safe because comments are guarded by one.  The marker is looked for once, before the first try: two runs that
  overlap both find none (304-306), and a comment whose answer was lost is posted again.
  `RoadmapLabels!NudgedOnce` as an invariant, the constants of `roadmap`, also with `MaxFaults = 0`.  And
  roadmap-label.yml 68 never passes `--nudge`.

What a reader of the models should also know: a third bump replaces the pending report of the second, whose outcome
then comes with the third's; running a red CI run of main again silences `main_red`, since a run that goes on has no verdict; the
bump alert goes away while a forced push builds; the review clock of the charts and `waiting_since` part after
a bounce through ready-to-merge, as the code says; a label that is added after a PR was closed has a negative
dwell; a detector that cannot know yet passes like any other, without an error to swallow: `detect_stranded_prs` while GitHub has
not computed `mergeable` (stuck_alerts.py 490-494), `detect_main_red` when it is given no tip (611-613);
`PrStatistics!Deploy` deploys the files of one run, and two runs of the page do not overlap (pages.yml 60-63);
`pipeline-health.json` may be newer than the charts beside it when these could not be made.

## Proofs

| Theorem | Says |
|---|---|
| `StatusLabels_proofs!TypeCorrect` | `Spec => []TypeOK` |
| `StatusLabels_proofs!LabelsAreRight`, `OneLabel` | `Spec => [](AtMostOneLabel /\ SettledIsRight /\ JobsAreCurrent)` |
| `ClaimLeases_proofs!LeaseTypes` | `Spec => []TypeOK` |
| `ClaimLeases_proofs!MutualExclusion` | `Spec => []OneHolder` |
| `ClaimLeases_proofs!GraceCoversSkew` | `Spec => []CondemnedIsUnheld` |
| `ClaimLeases_proofs!ForeignRefsAreSpared` | `Spec => ForeignSpared` |
| `ClaimLeases_proofs!LeasesAreLocks` | `Spec => ImplementsLocks` |
| `StuckAlerts_proofs!AlertTypes` | `Spec => []TypeOK` |
| `StuckAlerts_proofs!NoFalseAllClear` | `Spec => FailsClosed` |
| `StuckAlerts_proofs!WatchdogImplementsBoard` | `Spec => ImplementsBoard` |
| `StuckAlerts_proofs!AnnouncedOnce` | `Spec => OneNoticePerEmergency` |
| `StuckAlerts_proofs!DetectorTypes` | `WorldSpec => []WorldTypeOK` |
| `StuckAlerts_proofs!StrandedExactly` | `WorldSpec => []StrandedIsRight` |
| `StuckAlerts_proofs!EvictionsCounted` | `WorldSpec => []EvictionsAreCounted` |
| `StuckAlerts_proofs!MissingExactly` | `WorldSpec => []MissingIsWedged` |
| `StuckAlerts_proofs!RedKept` | `WorldSpec => []RedIsKept` |
| `StuckAlerts_proofs!BumpSeen` | `WorldSpec => []BumpWedgeIsSeen` |
| `StuckAlerts_proofs!CronSeen` | `WorldSpec => []DeadCronIsSeen` |
| `StuckAlerts_proofs!AlertsStand` | `WorldSpec => NothingFadesAway` |
| `Housekeeping_proofs!TypeCorrect` | `Spec => []TypeOK` |
| `Housekeeping_proofs!KeptIsSpared` | `Spec => KeepSpares` |
| `Housekeeping_proofs!WorkIsNotRacedHolds` | `Spec => WorkIsNotRaced` |
| `Housekeeping_proofs!SpentIsReviewedHolds` | `Spec => SpentIsReviewed` |
| `Housekeeping_proofs!OlderTwinStaysHolds` | `Spec => OlderTwinStays` |
| `ZulipMirror_proofs!Typed` | `Spec => []TypeOK` |
| `ZulipMirror_proofs!PostedOncePerHead` | `Spec => []OnePostPerHead` |
| `ZulipMirror_proofs!AnnouncedWhileOpen` | `Spec => NoLatePost` |
| `ZulipMirror_proofs!PostIsRight` | `Spec => []SettledIsRight` |
| `RoadmapLabels_proofs!Typed` | `Spec => []TypeOK` |
| `RoadmapLabels_proofs!LabelledRight` | `Spec => []SettledIsRight` |
| `RoadmapLabels_proofs!NoSilentGap` | `Spec => []BackfillLeavesNoGap` |
| `RoadmapLabels_proofs!Nudged` | `Spec => []NudgesAreFew` |
| `ToolchainTags_proofs!Typed` | `Spec => []TypeOK` |
| `ToolchainTags_proofs!TagKept` | `Spec => TagIsPromise` |
| `ToolchainTags_proofs!WaitedForKnown` | `Spec => WaitedForIsReported` |
| `ToolchainTags_proofs!OnlyNews` | `Spec => OnlyNewsIsPosted` |
| `PrStatistics_proofs!Typed` | `Spec => []TypeOK` |
| `PrStatistics_proofs!AnswersAlike` | `Spec => []AnswersAgree` |
| `PrStatistics_proofs!DepthsExplained` | `Spec => []DepthIsExplained` |
| `PrStatistics_proofs!NeverAccused` | `Spec => []FetchNeverAccuses` |
| `PrStatistics_proofs!ChartsDescribed` | `Spec => []StatsDescribeCharts` |
| `PrStatistics_proofs!FallReal` | `Spec => []FallIsReal` |

They hold for every value of the constants under the named assumptions of the modules
(`Skew <= Margin`, `Skew <= Grace` are the two that matter) and use nothing else.

*Labels.*  `SettledIsRight` is not inductive: it says nothing of a job under way, whose
last step must establish it.  `JobsAreCurrent` is the strengthening: an undisturbed job
runs alone, its `drop`/`add` plan is exactly the difference between the labels on the PR and
the one it wants, and unless another job is owed what it read is current.  Every
event that changes a record makes a job owed, every one that does not announce itself
sets `disturbed`, and the proof is the case analysis over actions that this suggests.  The end of a build that names nobody
disturbs a PR only if it is open and still at that head (`MissedStep`); otherwise there was nothing to learn.

*Claims.*  The invariant (`OwnLeases`, `HeldInRef`, and what the sweep has listed) says that
a worker's record names the worker itself, that a record still believed is what the ref holds
unless it was clobbered, and that a lease expired on one clock by the margin is
expired on every other.  Mutual exclusion follows because a ref holds one lease.  What the sweep has condemned is
a lease past the grace period, hence over by every clock (`DoomedIsDead`), and stays so; a foreign ref is lost, but to
its owner, only by a deletion, and only if it was not what the sweep had listed: that is `ForeignSpared`.  The refinement goes by action: `NobodyElse` shows, from the same invariant
and `Margin >= Skew`, that what a worker can claim nobody else goes by, so a push that was accepted is `Get`
or changes nothing (`ClaimIsGet`); the passing of time, releases and deaths are `Lose` (`QuietIsLose`), a
deletion is `Spoil` or nothing (`DeleteIsSpoil`).

*Alerts.*  An alert is resolved only if its detector ran cleanly and found nothing; the
invariant carries "found nothing" back to "was quiet at some time of this run" and "the fetched
message is the one that stands" to the step that resolves it.  The refinement adds `OneStanding`
(only the newest message about a key can be red) and `Untouched` (what the run fetched about a key it
has not come to is what the topic holds); then each action is a step of the board or leaves its
three variables alone.  `AnnouncedOnce` needs `Announced` besides: what may not be posted again has a message
that stands.

*Detectors.*  What a detector reads is a trace of what has happened, and each part of the invariant says why it is
enough.  `ReadySince`: the newer of the label's and the status' times is when the PR became ready.  `Bounced`: the
evictions of the label's present cycle are the last ones of the timeline, and the others are no younger than the
label; a lemma on the cardinality of the two sets of indices makes the count of it.  `AllReported`: what a run has
posted stays posted, and where a head has no status its newest verdict is the one whose report was lost, whatever was
cancelled or run again on top of it.  `MainInOrder` and `RedHasARun`: under a run of main that still goes on lie only
cancelled ones, and a red main has a failed run with no success above it.  `WedgeIsYounger`, `CronFired` and
`Dated` are the rest.  Two theorems are equivalences: the alert is neither missed nor false.  `AlertsStand` compares a
state with the next, in which only the clock differs.

*Housekeeping.*  `RInv(r)` says what a run knows from its listing and its looks and that it
still holds or `seen` says why not.  `Noted(r, q)` is the step relation of everybody
else: whatever happens to a PR is seen.  One lemma (`NotedKeeps`) carries `RInv` over every
step in which the run keeps its locals or drops candidates, so that people, other runs and
failures need no case analysis of their own, and the run's own steps have one lemma each.  For `OlderTwinStays` each
duplicate has the oldest of its target for its twin, which is no duplicate and so never among the candidates
(`OldestIsNone`, by well-foundedness of the numbers): the run itself will not close it (`Keeps`).
The theorems hold for any number of overlapping runs, of which TLC checks one.

*Zulip.*  `Sound` says of a running job that one which is about to send has found no post of its own
group, as nobody else of the group can have sent one since, and that what it has read of the PR is true
still unless `ok` was cleared, which `NoLatePost` excepts; `Due` says the latter of a pending job, and `Distinct`
of the posts what is to be shown.  `SettledIsRight` needs `SeenInv`: an undisturbed job is the only one that runs
(`ok` of one means that the others are idle); once it has looked it knows the oldest post as it is (`Knows`); what
it wants is what the PR calls for (`Judged`), a request that speaks of a running build included as long as nothing has
changed since (`Told`); and when it comes to the second group of reactions the first is in place (`Own`).

*Roadmap.*  `Own` says that the goal of a PR's own run is the right one for its present description,
since an event that changes the description restarts the run, and that its additions and removals are what is missing;
`Hand` the same of a person's run whose PR is not `wronged`; together they give `SettledIsRight`.
`Covered` and `Underway` follow a backfill: a PR that nobody moved is skipped, labelled, in the queue, in hand or
among the failures, at each moment.  An edit may be made half, and again, and by several runs at once: what counts is what
the present try has still to add and to drop, and a call of one run helps all runs of the same goal (`Helps`).
`NudgesAreFew` counts down: `Chances` are the tries left to those who were under way at the first nudge, each nudge
takes one of them, and who comes later finds the marker (`Counts`).

*Toolchain.*  `LocalOk` says what a run's locals are worth in the present world: the main it read is a beginning
of main, the commit it waited for has a verdict or was run again, and each row of the audit keeps `RowOk`:
one that is on its way to `ready` is the first commit of an era, verified in as far as its status says.  Main only
grows, outputs stay published, a verdict goes only by a rerun, which is noted: lemma `Stays` carries all rows over
every such step, and one lemma per call shows what the call adds.  `TagIsPromise` is then `RowOk` of a
`ready` row at the moment of the POST.  That the newest era exists at all is well-foundedness
of the natural numbers (`Newest`).  For `OnlyNewsIsPosted` the proof defines what an audit would come to if everything
stayed as it is (`Says`): the first rows and then the verdicts CI and the cache hold now.  `TopicInv` says that
without news since its audit the newest report is that; `ReportInv` that what the report under way has read so
far, main, then the tags, then rows and some of the verdicts, comes to the same.  A step that is news voids both; the
work is in the two that are not: a commit that is no stray bump (`QuietCommit`: its row is left out of the digest until
its CI ends, and no older release's row moves) and a release that mathlib tags ahead of main (`QuietMathlib`).

*Statistics.*  `WorldInv` and `SnapshotInv` say that a pull request, and a snapshot of it at the time of its stamp, is
`Sound`: no event or closing lies in the future, and what is closed has a time of closing.  `ReadInv` follows a timeline
through its pages: the pages read so far are the beginning of the one there is, because labels only add to its end, so
what comes with the last page is explained by all of them (`Explained`), which is `FetchNeverAccuses`.  `AssetsInv` says
that the charts before the one in hand are of the snapshot and the data is still the committed one.  The other three
properties follow from `Sound` alone, by lemmas about the lifecycle of one pull request.  All of them rest on
`EventByEvent`, which is induction over the events, stated for a set of numbers of events instead of a predicate and
proved by the least counterexample; `Loops` makes of it that a loop has a result after each event.  For
`AnswersAgree` the lemmas say of every number n of events where the spell of the n-th began (`BeganAt`), that the author's
clock is that of this spell, and that each review cycle read so far began with a spell of review, which is over once
another cycle has begun (`CyclesInv`).  For `DepthIsExplained` intervals are counted in two ways: each entered in
one span, and left in one or not at all (`IntervalTimes`), and those not left are in bijection with the pull requests
that carry the stage (`HoldingCounted`).  `FallIsReal` is arithmetic once both spans have all their hours.

Only model-checked: liveness (`Converges`, `SweepHeals`, `DeadLeaseIsSwept`, `TopicConverges`, `NeverStranded`,
`CreateIsHonoured`, `ReportsEnd`), which is out of this prover's reach.  Every invariant and every action property that a passing
run checks is proved.

## Not modelled, and the plan

In order of importance:

1. `DocgenPointer`: fold, deploy and advance of `pages.yml` under cancellation.
2. `PrBuild`: the report job, `head_moved`, the merge group and its cache, composed with
   `StatusLabels`.
3. `ClaimGrant`: invitations and memberships.
4. A further refinement: a register that jumps to the right label, refined by
   `StatusLabels` for undisturbed PRs.
5. The publication of merge-group builds by the lake cache and its retries.

Parts of modelled components that are left out: creating and recolouring labels; the parsing of comments, boards
and descriptions down to what decides; the window of the message search (the newest thousand, far beyond an instance);
the mirror's health check; the text of reports and notes; rolling and cumulative series and the drawing of charts;
`structure_nudge.py`.

Left out for good: the Lean library, linters and other text processing (their tests reach what
there is), plain sequential CI, and workflows of other repositories beyond what this one uses of
them.
