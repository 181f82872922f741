---------------------------- MODULE PrStatistics ----------------------------
(***************************************************************************)
(* scripts/pr_stats_graphs.py and scripts/pipeline_health.py as pages.yml  *)
(* runs them: a snapshot of every pull request is read call by call while  *)
(* the pipeline goes on, charts are made from it and moved over the        *)
(* committed ones, and the health of the queue is derived from the same    *)
(* snapshot.                                                               *)
(***************************************************************************)
EXTENDS PrLifecycle, FiniteSetsExt

CONSTANTS
    PRs,              \* numbers of pull requests, in the order of their creation
    UsedLabels,       \* the labels that come up
    PageSize,         \* events of one page of a timeline
    EPOCH,            \* LIFECYCLE_EPOCH
    WINDOW, BASELINE, \* the recent window and the one before it, in hours
    MIN_COMPLETIONS,  \* below this a median dwell is noise
    GROWTH_HOURS,     \* GROWTH_PER_HOUR is one in so many hours
    FALLBACKS,        \* clocks without a transition that are tolerated
    MaxTime,          \* bound on the clock
    MaxMoves,         \* bound on what happens to the pull requests
    MaxDisturbances   \* bound on what happens, time included, during a run

ASSUME PRsAssumption ==
    PRs \subseteq Nat \ {0} /\ IsFiniteSet(PRs) /\ UsedLabels \subseteq LIFECYCLE_LABELS
ASSUME WindowsAssumption == WINDOW \in Nat \ {0} /\ BASELINE \in Nat \ {0}
ASSUME ScaleAssumption ==
    /\ PageSize \in Nat \ {0} /\ EPOCH \in Nat /\ MIN_COMPLETIONS \in Nat \ {0}
    /\ GROWTH_HOURS \in Nat \ {0} /\ FALLBACKS \in Nat
ASSUME NeverAssumption == Never \notin Int

VARIABLES
    now,
    prs,      \* the pull requests
    static,   \* web/static_files: what each asset was made from
    site,     \* what has been deployed
    job,      \* the run of pages.yml that is under way
    moves     \* history: how much happened to the pull requests so far

vars == <<now, prs, static, site, job, moves>>

States == {"none", "OPEN", "CLOSED", "MERGED"}

Events == [label : UsedLabels, at : Nat]

PullRequests ==
    [state : States, draft : BOOLEAN, created : Nat \cup {Never}, merged : Nat \cup {Never},
     closed : Nat \cup {Never}, labels : SUBSET UsedLabels, events : Seq(Events)]

Unopened == [state |-> "none", draft |-> FALSE, created |-> Never, merged |-> Never,
             closed |-> Never, labels |-> {}, events |-> <<>>]

\* The five charts, in ASSET_NAMES' order, and last pr-stats.json.
ASSET_NAMES == <<"pr-queue-age.svg", "review-cycles-reached.svg",
                 "rolling-seven-day-history.svg", "cumulative-merges-by-contributor.svg",
                 "cumulative-reviews-by-contributor.svg", "pr-stats.json">>

Assets == {ASSET_NAMES[i] : i \in DOMAIN ASSET_NAMES} \cup {"pipeline-health.json"}

\* An asset is known by the time of its snapshot; Never for a committed file.
Fallback == [a \in Assets |-> Never]

-------------------------------------------------------------------------------
(* The charts' metrics of a snapshot s taken at time t                     *)

Open(s) == {p \in PRs : s[p].state = "OPEN"}

Known(s) == {p \in PRs : s[p].state # "none"}

AwaitsAuthor(pr) == ~pr.draft /\ pr.labels \cap STATE_AUTHOR_ACTION # {}

InReview(pr) == ~pr.draft /\ ~AwaitsAuthor(pr) /\ pr.labels \cap STATE_REVIEW # {}

\* When the clock of the state that a pull request is charted in began.
StateClock(pr) ==
    LET cycles == review_cycle_starts(pr) IN
    IF AwaitsAuthor(pr) THEN author_episode_start(pr)
    ELSE IF InReview(pr) /\ cycles # <<>> /\ latest_lifecycle_label(pr) \in STATE_REVIEW
    THEN Last(cycles) ELSE Never

queue_age_metrics(s, t) ==
    LET Hours(S) == [p \in S |-> t - (IF StateClock(s[p]) = Never THEN s[p].created
                                      ELSE StateClock(s[p]))]
        author == {p \in Open(s) : AwaitsAuthor(s[p])}
        review == {p \in Open(s) : InReview(s[p])}
    IN [total |-> [p \in Open(s) |-> t - s[p].created],
        awaiting_author |-> Hours(author),
        in_review |-> Hours(review),
        other |-> Cardinality(Open(s) \ (author \cup review)),
        missing |-> Cardinality({p \in author \cup review : StateClock(s[p]) = Never})]

-------------------------------------------------------------------------------
(* The health of the queue                                                 *)

\* Wrong on purpose: what happens on the boundary belongs to both spans.
WithinClosed(from, to, t) == from <= t /\ t <= to

Within(from, to, t) == from <= t /\ t < to

\* The two spans that are compared are disjoint.
WindowStart(t) == t - WINDOW

\* Wrong on purpose: the window is a part of the baseline.
BaselineEndLate(t) == t

BaselineEnd(t) == WindowStart(t)

BaselineStart(t) == WindowStart(t) - BASELINE

observable_hours(from, to) ==
    LET start == IF from < EPOCH THEN EPOCH ELSE from IN
    IF to > start THEN to - start ELSE 0

\* Intervals of a stage over a snapshot.
IntervalsOf(s, l) ==
    UNION {{[pr |-> p, i |-> i] : i \in {i \in label_intervals(s[p]) : i.label = l}} :
              p \in Known(s)}

Entered(s, l, from, to) ==
    Cardinality({x \in IntervalsOf(s, l) : Within(from, to, x.i.applied)})

LeftOf(s, l, from, to) ==
    {x \in IntervalsOf(s, l) : x.i.replaced # Never /\ Within(from, to, x.i.replaced)}

Left(s, l, from, to) == Cardinality(LeftOf(s, l, from, to))

\* Twice the median dwell; none for a stage nobody left.
MedianTwice(s, l, from, to) ==
    LET dwell == [x \in LeftOf(s, l, from, to) |-> x.i.replaced - x.i.applied]
        n == Cardinality(DOMAIN dwell)
        ordered == SetToSortSeq({<<dwell[x], x.pr, x.i.nth>> : x \in DOMAIN dwell},
                                LAMBDA a, b : a[1] < b[1])
    IN IF n = 0 THEN 0 ELSE ordered[(n + 1) \div 2][1] + ordered[n \div 2 + 1][1]

Depth(s, l) == {p \in Open(s) : ~s[p].draft /\ current_stage(s[p]) = l}

OldestWaiting(s, l, t) ==
    Max({t - waiting_since(s[p]) : p \in {p \in Depth(s, l) : waiting_since(s[p]) # Never}}
        \cup {0})

OWNED_BY_PROJECT == LIFECYCLE_LABELS \ STATE_AUTHOR_ACTION

\* Events after the window's start count, up to the end of the snapshot.
Filling(s, l, t) ==
    LET span == observable_hours(WindowStart(t), t)
        growth == Entered(s, l, WindowStart(t), t + 1) - Left(s, l, WindowStart(t), t + 1)
    IN span > 0 /\ growth * GROWTH_HOURS > span

Stalled(s, l, t) ==
    LET normal == MedianTwice(s, l, BaselineStart(t), BaselineEnd(t)) IN
    /\ Left(s, l, BaselineStart(t), BaselineEnd(t)) >= MIN_COMPLETIONS
    /\ normal > 0
    /\ OldestWaiting(s, l, t) >= normal  \* SLOWDOWN_FACTOR is 2

anomalies(s, t) ==
    {l \in OWNED_BY_PROJECT : Depth(s, l) # {} /\ (Filling(s, l, t) \/ Stalled(s, l, t))}

\* How many pull requests have this event in that span.
counted(s, field, from, to) ==
    Cardinality({p \in Known(s) : s[p][field] # Never /\ Within(from, to, s[p][field])})

\* n events in `span` hours are fewer than three quarters of m in `other`.
FellShort(n, span, m, other) == span > 0 /\ other > 0 /\ 4 * n * other < 3 * m * span

find_cause(s, t) ==
    LET b == observable_hours(BaselineStart(t), BaselineEnd(t))
        w == observable_hours(WindowStart(t), t)
        Recent(field) == counted(s, field, WindowStart(t), t)
        Before(field) == counted(s, field, BaselineStart(t), BaselineEnd(t))
        intake_down == /\ FellShort(Recent("created"), w, Before("created"), b)
                       /\ Before("created") >= MIN_COMPLETIONS
    IN IF b = 0 \/ Before("merged") < MIN_COMPLETIONS THEN "insufficient_data"
       ELSE IF ~FellShort(Recent("merged"), w, Before("merged"), b) THEN "none"
       ELSE IF anomalies(s, t) # {} THEN "stage"
       ELSE IF intake_down THEN "intake" ELSE "unexplained"

-------------------------------------------------------------------------------
(* The pull requests                                                       *)

NoJob == [step |-> "idle", begun |-> Never, prs |-> [p \in PRs |-> Unopened], todo |-> {},
          page |-> <<>>, asset |-> 1, fetched_at |-> Never, accused |-> FALSE, disturbed |-> 0]

Jobs ==
    [step : {"idle", "list", "timelines", "comments", "generate", "replace", "health", "deploy",
             "deployed"},
     begun : Nat \cup {Never}, prs : [PRs -> PullRequests], todo : SUBSET PRs,
     page : Seq(Events), asset : DOMAIN ASSET_NAMES, fetched_at : Nat \cup {Never},
     accused : BOOLEAN, disturbed : Nat]

TypeOK ==
    /\ now \in Nat
    /\ prs \in [PRs -> PullRequests]
    /\ static \in [Assets -> Nat \cup {Never}]
    /\ site \in [Assets -> Nat \cup {Never}]
    /\ job \in Jobs
    /\ moves \in Nat

Init ==
    /\ now = 0
    /\ prs = [p \in PRs |-> Unopened]
    /\ static = Fallback
    /\ site = Fallback
    /\ job = NoJob
    /\ moves = 0

\* Before a run anything happens; during it as much as is allowed, until the
\* snapshot is taken: the run looks at nothing after that.
Disturb ==
    \/ job.step = "idle" /\ UNCHANGED job
    \/ /\ job.step \in {"list", "timelines", "comments"}
       /\ job.disturbed < MaxDisturbances
       /\ job' = [job EXCEPT !.disturbed = @ + 1]

Becomes(p, pr) ==
    /\ moves < MaxMoves
    /\ moves' = moves + 1
    /\ Disturb
    /\ prs' = [prs EXCEPT ![p] = pr]
    /\ UNCHANGED <<now, static, site>>

OpenPR(p) ==
    /\ prs[p].state = "none"
    /\ \A q \in PRs : q < p => prs[q].state # "none"
    /\ \E draft \in BOOLEAN :
          Becomes(p, [Unopened EXCEPT !.state = "OPEN", !.draft = draft, !.created = now])

\* The labels workflow removes what is wrong and then adds one label.
Labelled(p, l, labels) ==
    /\ prs[p].state # "none"
    /\ now >= EPOCH
    /\ l \notin labels
    /\ Becomes(p, [prs[p] EXCEPT !.labels = labels \cup {l},
                                 !.events = Append(@, [label |-> l, at |-> now])])

MoveTo(p, l) == l \notin prs[p].labels /\ Labelled(p, l, {})

\* Two jobs overlap, or somebody adds a label by hand.
PutBeside(p, l) == prs[p].labels # {} /\ Labelled(p, l, prs[p].labels)

\* The timeline that is read has no event for this.
TakeOff(p, l) ==
    /\ l \in prs[p].labels
    /\ Becomes(p, [prs[p] EXCEPT !.labels = @ \ {l}])

ReadyForReview(p) ==
    /\ prs[p].state = "OPEN" /\ prs[p].draft
    /\ Becomes(p, [prs[p] EXCEPT !.draft = FALSE])

Close(p) ==
    /\ prs[p].state = "OPEN"
    /\ Becomes(p, [prs[p] EXCEPT !.state = "CLOSED", !.closed = now])

Merge(p) ==
    /\ prs[p].state = "OPEN" /\ ~prs[p].draft
    /\ Becomes(p, [prs[p] EXCEPT !.state = "MERGED", !.merged = now, !.closed = now])

Reopen(p) ==
    /\ prs[p].state = "CLOSED"
    /\ Becomes(p, [prs[p] EXCEPT !.state = "OPEN", !.closed = Never])

Tick ==
    /\ now < MaxTime
    /\ now' = now + 1
    /\ Disturb
    /\ UNCHANGED <<prs, static, site, moves>>

-------------------------------------------------------------------------------
(* A run of pages.yml                                                      *)

\* A fresh checkout, with the committed assets: no run depends on another, and
\* one is modelled.
Checkout ==
    /\ job.step = "idle"
    /\ job' = [NoJob EXCEPT !.step = "list", !.begun = now]
    /\ static' = Fallback
    /\ UNCHANGED <<now, prs, site, moves>>

\* Closed pull requests from before the labels have no timeline to ask for.
fetch_prs ==
    /\ job.step = "list"
    /\ job' = [job EXCEPT
                 !.step = "timelines",
                 !.prs = [p \in PRs |-> [prs[p] EXCEPT !.events = <<>>]],
                 !.todo = {p \in Known(prs) : prs[p].closed = Never \/ prs[p].closed >= EPOCH}]
    /\ UNCHANGED <<now, prs, static, site, moves>>

\* Wrong on purpose: the first page is the timeline.
FirstPageOnly(pages, page) == IF pages = <<>> THEN page ELSE pages

AllPages(pages, page) == pages \o page

\* Each page comes with the state of that moment; that of the last is kept.
fetch_timeline(p) ==
    /\ job.step = "timelines"
    /\ p \in job.todo /\ \A q \in job.todo : p <= q
    /\ LET from == Len(job.page)
           more == Len(prs[p].events) > from + PageSize
           page == SubSeq(prs[p].events, from + 1,
                          IF more THEN from + PageSize ELSE Len(prs[p].events))
       IN job' = IF more THEN [job EXCEPT !.page = @ \o page]
                 ELSE [job EXCEPT !.page = <<>>, !.todo = @ \ {p},
                                  !.prs[p] = [prs[p] EXCEPT !.events = AllPages(job.page, page)]]
    /\ UNCHANGED <<now, prs, static, site, moves>>

\* A state label on an open pull request that no event put there.
Unexplained(pr) ==
    /\ pr.state = "OPEN"
    /\ ~(pr.labels \cap STATE_LABELS \subseteq {pr.events[i].label : i \in DOMAIN pr.events})

CheckTransitions ==
    /\ job.step = "timelines" /\ job.todo = {}
    /\ job' = IF \E p \in PRs : Unexplained(job.prs[p])
              THEN [job EXCEPT !.step = "deploy", !.accused = TRUE]
              ELSE [job EXCEPT !.step = "comments"]
    /\ UNCHANGED <<now, prs, static, site, moves>>

Stamp == now

\* After the last call the snapshot is stamped and dumped.
fetch_snapshot ==
    /\ job.step = "comments"
    /\ job' = [job EXCEPT !.step = "generate", !.fetched_at = Stamp]
    /\ UNCHANGED <<now, prs, static, site, moves>>

\* A call that fails three times ends the script, and the run goes on.
FetchFails ==
    /\ job.step \in {"list", "timelines", "comments"}
    /\ job' = [job EXCEPT !.step = "deploy"]
    /\ UNCHANGED <<now, prs, static, site, moves>>

\* Everything is made before anything is replaced.
generate ==
    /\ job.step = "generate"
    /\ LET s == job.prs
           refused == Known(s) = {} \/ queue_age_metrics(s, job.fetched_at).missing > FALLBACKS
       IN \/ ~refused /\ job' = [job EXCEPT !.step = "replace"]
          \/ job' = [job EXCEPT !.step = "health"]  \* refused, or one cannot be made
    /\ UNCHANGED <<now, prs, static, site, moves>>

\* Wrong on purpose: the data first.
JsonFirst(k) == IF k = 1 THEN "pr-stats.json" ELSE ASSET_NAMES[k - 1]

NthAsset(k) == ASSET_NAMES[k]

ReplaceAsset ==
    /\ job.step = "replace"
    /\ \/ /\ static' = [static EXCEPT ![NthAsset(job.asset)] = job.fetched_at]
          /\ job' = IF job.asset = Len(ASSET_NAMES) THEN [job EXCEPT !.step = "health"]
                    ELSE [job EXCEPT !.asset = @ + 1]
       \/ /\ job' = [job EXCEPT !.step = "health"]
          /\ UNCHANGED static
    /\ UNCHANGED <<now, prs, site, moves>>

\* From the dump, whether or not there are charts of it.
pipeline_health ==
    /\ job.step = "health"
    /\ job' = [job EXCEPT !.step = "deploy"]
    /\ \/ static' = [static EXCEPT !["pipeline-health.json"] = job.fetched_at]
       \/ UNCHANGED static
    /\ UNCHANGED <<now, prs, site, moves>>

Deploy ==
    /\ job.step = "deploy"
    /\ site' = static
    /\ job' = [job EXCEPT !.step = "deployed"]
    /\ UNCHANGED <<now, prs, static, moves>>

-------------------------------------------------------------------------------

PullRequestMoves(p) ==
    \/ OpenPR(p) \/ ReadyForReview(p) \/ Close(p) \/ Merge(p) \/ Reopen(p)
    \/ \E l \in UsedLabels : MoveTo(p, l) \/ PutBeside(p, l) \/ TakeOff(p, l)

Next ==
    \/ \E p \in PRs : PullRequestMoves(p)
    \/ Tick
    \/ Checkout \/ fetch_prs \/ (\E p \in PRs : fetch_timeline(p)) \/ CheckTransitions
    \/ fetch_snapshot \/ FetchFails
    \/ generate \/ ReplaceAsset \/ pipeline_health \/ Deploy

Spec == Init /\ [][Next]_vars

-------------------------------------------------------------------------------
(* Properties                                                              *)

\* A snapshot that has been taken, and what is made from it.
Taken == job.step \in {"generate", "replace", "health"}

\* The charts and the health report answer alike: a pull request that waits
\* for its author has waited since the same time in both, siblings swapped or
\* not, and a review cycle begins where a spell of review began.
AnswersAgree ==
    Taken => \A p \in Known(job.prs) :
        LET pr == job.prs[p]
            spells == {e.entered : e \in {e \in episodes(pr) : e.group = "review"}}
            cycles == review_cycle_starts(pr)
        IN /\ pr.state = "OPEN" /\ current_stage(pr) \in STATE_AUTHOR_ACTION
                 => author_episode_start(pr) = waiting_since(pr)
           /\ \A i \in DOMAIN cycles :
                 \/ cycles[i] \in spells
                 \/ i = Len(cycles) /\ pr.state = "OPEN" /\ ~LastIsSeen(pr)

\* The report's flows explain its depths.  When the two spans cover all that
\* happened, each pull request that carries a stage entered it once more than
\* it left it: no event is counted in both spans, or in neither.  Labels that
\* are not the latest one any more are the exception the snapshot cannot see.
DepthIsExplained ==
    Taken /\ BaselineStart(job.fetched_at) <= 0 =>
        LET s == job.prs
            t == job.fetched_at
            In(l) == Entered(s, l, BaselineStart(t), BaselineEnd(t))
                     + Entered(s, l, WindowStart(t), t + 1)
            Out(l) == Left(s, l, BaselineStart(t), BaselineEnd(t))
                      + Left(s, l, WindowStart(t), t + 1)
            Here(l) == {p \in Open(s) : current_stage(s[p]) = l /\ LastIsSeen(s[p])}
        IN \A l \in UsedLabels : Cardinality(Here(l)) = In(l) - Out(l)

\* The labels that are read with a timeline are never ones it does not explain,
\* however the pull request is labelled between two pages.
FetchNeverAccuses == ~job.accused

\* A deployed pr-stats.json describes the charts beside it: whatever fails, it
\* is not replaced unless every chart has been replaced from that snapshot.
StatsDescribeCharts ==
    site["pr-stats.json"] # Never
        => \A i \in DOMAIN ASSET_NAMES : site[ASSET_NAMES[i]] = site["pr-stats.json"]

\* A cause is given only when the hours of the window saw merges at less than
\* three quarters of the rate of all the hours of the baseline, each merge in
\* one of the two.
CauseMeansFall ==
    LET start == job.fetched_at - WINDOW
        Merged(S) == Cardinality({p \in PRs : job.prs[p].merged \in S})
        recent == Merged(start..(job.fetched_at - 1))
        before == Merged((start - BASELINE)..(start - 1))
    IN find_cause(job.prs, job.fetched_at) \notin {"none", "insufficient_data"}
         => 4 * recent * BASELINE < 3 * before * WINDOW

\* "Why throughput is down, when it is": once the baseline begins after EPOCH,
\* no cause is given for a throughput that did not fall, by all the merges and
\* all the hours there were (pipeline_health.py 101-160).
FallIsReal == Taken /\ job.fetched_at >= EPOCH + WINDOW + BASELINE => CauseMeansFall

\* Not so: while the baseline reaches back before EPOCH, merges of that time
\* are counted and its hours are not (pipeline_health.py 137-141).
FallIsRealFromTheStart == Taken /\ job.fetched_at >= WINDOW + BASELINE => CauseMeansFall

==============================================================================
