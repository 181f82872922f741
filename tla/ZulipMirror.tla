----------------------------- MODULE ZulipMirror -----------------------------
(***************************************************************************)
(* scripts/pr_status/zulip.py: the post of one pull request in the Zulip   *)
(* topic "PRs" and the bot's reactions on it.  The jobs of zulip-pr.yml    *)
(* and zulip-pr-status.yml are serialised by head commit; those of two     *)
(* heads, and the backfill, run side by side.                              *)
(***************************************************************************)
EXTENDS Naturals, Sequences, FiniteSets

CONSTANTS
    Heads,       \* the commits the pull request's head moves through
    FirstHead,
    Contents,    \* what pr_message_content makes of title, author and roadmaps
    FirstContent,
    UsedReviews, \* the states of a review that come up
    NoRequest,   \* no pending job
    MaxChanges,  \* bound on what happens on GitHub
    MaxFaults    \* bound on failing calls

ASSUME HeadsAssumption == FirstHead \in Heads /\ "backfill" \notin Heads
ASSUME ContentsAssumption == FirstContent \in Contents
ASSUME BoundsAssumption == MaxChanges \in Nat /\ MaxFaults \in Nat

VARIABLES
    pr,       \* the pull request
    build,    \* the `build` status of each head
    building, \* the heads whose pr-build runs
    review,   \* what core makes of the comments about each head
    posts,    \* the bot's messages that link to it, oldest first
    queue,    \* the pending job of each concurrency group
    job,      \* the running one
    settled,  \* history: a job saw all of the truth and none disturbed it
    lost,     \* history: the last request to create was dropped, or failed
    changes,  \* history: changes so far
    faults    \* history: failures so far

truth == <<pr, build, building, review>>
history == <<settled, lost, changes, faults>>
vars == <<truth, posts, queue, job, history>>

-------------------------------------------------------------------------------
(* What is shown                                                           *)

CI_GROUP == <<"yellow", "green_circle", "red_circle">>

REVIEW_GROUP == <<"eyes", "play", "writing", "check", "merge", "closed-pr">>

InGroup(group) == {group[i] : i \in DOMAIN group}

EMOJI == InGroup(CI_GROUP) \cup InGroup(REVIEW_GROUP)

BuildStates == {"none", "running", "success", "failure"}

ReviewStates == {"pending", "inprogress", "changes", "approved"}

ASSUME ReviewsAssumption == UsedReviews \subseteq ReviewStates

PullRequests == [life : {"open", "closed", "merged"}, head : Heads, content : Contents]

ASSUME NoRequestAssumption == NoRequest \notin PullRequests

CI_EMOJI == [none |-> "yellow", running |-> "yellow",
             success |-> "green_circle", failure |-> "red_circle"]

review_emoji == [pending |-> {}, inprogress |-> {"eyes"},
                 changes |-> {"writing"}, approved |-> {"check"}]

\* core.derive and the choice of emoji, as the sets of those wanted per group
derive(st, ci, rev) ==
    CASE st.life = "merged" -> [review |-> {"merge"}, ci |-> {}]
      [] st.life = "closed" -> [review |-> {"closed-pr"}, ci |-> {}]
      [] st.life = "open"   -> [review |-> review_emoji[rev], ci |-> {CI_EMOJI[ci]}]

-------------------------------------------------------------------------------
(* Jobs                                                                    *)

Groups == Heads \cup {"backfill"}

\* What an event passes to zulip.py: --create or --create-if-open, --ci running,
\* the event's own pull request if it is not read again, and how the number is
\* found.  `ok` is history: nothing has changed since.
Requests == [create : {"no", "open", "yes"}, running : BOOLEAN,
             payload : PullRequests \cup {NoRequest}, resolve : BOOLEAN, ok : BOOLEAN]

Steps == {"idle", "resolve", "read", "find", "post", "derive", "review", "ci"}

Jobs == [step : Steps, req : Requests \cup {NoRequest}, st : PullRequests \cup {NoRequest},
         post : Nat, text : Contents \cup {NoRequest}, mine : SUBSET EMOJI,
         want : [review : SUBSET EMOJI, ci : SUBSET EMOJI], ok : BOOLEAN]

Idle == [step |-> "idle", req |-> NoRequest, st |-> NoRequest, post |-> 0,
         text |-> NoRequest, mine |-> {}, want |-> [review |-> {}, ci |-> {}], ok |-> FALSE]

Posts == [content : Contents, reactions : SUBSET EMOJI, by : Groups]

TypeOK ==
    /\ pr \in PullRequests
    /\ build \in [Heads -> BuildStates \ {"running"}]
    /\ building \in SUBSET Heads
    /\ review \in [Heads -> ReviewStates]
    /\ posts \in Seq(Posts)
    /\ queue \in [Groups -> Requests \cup {NoRequest}]
    /\ job \in [Groups -> Jobs]
    /\ settled \in BOOLEAN
    /\ lost \in BOOLEAN
    /\ changes \in 0..MaxChanges
    /\ faults \in 0..MaxFaults

Request(create, running, payload, resolve) ==
    [create |-> create, running |-> running, payload |-> payload,
     resolve |-> resolve, ok |-> TRUE]

\* Opened a moment ago, or long ago with a post of an older format.
Init ==
    /\ pr = [life |-> "open", head |-> FirstHead, content |-> FirstContent]
    /\ build = [h \in Heads |-> "none"]
    /\ building = {}
    /\ review = [h \in Heads |-> "pending"]
    /\ \/ /\ posts = <<>>
          /\ queue = [[g \in Groups |-> NoRequest]
                         EXCEPT ![FirstHead] = Request("yes", FALSE, pr, FALSE)]
       \/ /\ \E c \in Contents \ {FirstContent} :
                posts = <<[content |-> c, reactions |-> {"play"}, by |-> FirstHead]>>
          /\ queue = [g \in Groups |-> NoRequest]
    /\ job = [g \in Groups |-> Idle]
    /\ settled = FALSE
    /\ lost = FALSE
    /\ changes = 0
    /\ faults = 0

-------------------------------------------------------------------------------
(* GitHub                                                                  *)

\* No job has seen the truth any more.
Forget(q) ==
    /\ queue' = [g \in Groups |-> IF q[g] = NoRequest THEN NoRequest
                                  ELSE [q[g] EXCEPT !.ok = FALSE]]
    /\ job' = [g \in Groups |-> [job[g] EXCEPT !.ok = FALSE]]
    /\ settled' = FALSE

Change ==
    /\ changes < MaxChanges
    /\ changes' = changes + 1
    /\ UNCHANGED <<posts, faults>>

Creates(q) == q # NoRequest /\ q.create # "no"

\* The pending job of group g gives way to the new one, whatever it was for.
Ask(g, q) ==
    /\ queue' = [h \in Groups |-> IF h = g THEN q
                                  ELSE IF queue[h] = NoRequest THEN NoRequest
                                  ELSE [queue[h] EXCEPT !.ok = FALSE]]
    /\ job' = [h \in Groups |-> [job[h] EXCEPT !.ok = FALSE]]
    /\ settled' = FALSE
    /\ lost' = IF Creates(q) THEN FALSE ELSE lost \/ Creates(queue[g])

\* No event of the mirror's: pr-build is requested for the new head.
Push(h) ==
    /\ Change
    /\ pr.life = "open" /\ h # pr.head
    /\ pr' = [pr EXCEPT !.head = h]
    /\ Forget(queue)
    /\ UNCHANGED <<build, building, review, lost>>

\* workflow_run of pr-build, requested
BuildStarts(h) ==
    /\ Change
    /\ h = pr.head /\ h \notin building
    /\ building' = building \cup {h}
    /\ Ask(h, Request("no", TRUE, NoRequest, TRUE))
    /\ UNCHANGED <<pr, build, review>>

\* workflow_run of pr-build, completed, its status posted
BuildEnds(h, state) ==
    /\ Change
    /\ h \in building
    /\ building' = building \ {h}
    /\ build' = [build EXCEPT ![h] = state]
    /\ Ask(h, Request("no", FALSE, NoRequest, TRUE))
    /\ UNCHANGED <<pr, review>>

\* A scoreboard or a marker is posted, or a marker expires.
Review(v) ==
    /\ Change
    /\ v # review[pr.head]
    /\ review' = [review EXCEPT ![pr.head] = v]
    /\ Forget(queue)
    /\ UNCHANGED <<pr, build, building, lost>>

\* labeled, unlabeled: a status label follows the status, or a roadmap's changes.
Relabel(c) ==
    /\ Change
    /\ pr' = [pr EXCEPT !.content = c]
    /\ Ask(pr.head, Request("open", FALSE, NoRequest, FALSE))
    /\ UNCHANGED <<build, building, review>>

\* opened, reopened and closed bring the pull request along.
Reopen ==
    /\ Change
    /\ pr.life = "closed"
    /\ pr' = [pr EXCEPT !.life = "open"]
    /\ Ask(pr.head, Request("yes", FALSE, pr', FALSE))
    /\ UNCHANGED <<build, building, review>>

Close(life) ==
    /\ Change
    /\ pr.life = "open"
    /\ pr' = [pr EXCEPT !.life = life]
    /\ Ask(pr.head, Request("no", FALSE, pr', FALSE))
    /\ UNCHANGED <<build, building, review>>

\* zulip-pr-backfill.yml, by hand
DispatchBackfill ==
    /\ changes < MaxChanges
    /\ changes' = changes + 1
    /\ queue' = [queue EXCEPT !["backfill"] = Request("no", FALSE, NoRequest, FALSE)]
    /\ UNCHANGED <<truth, posts, job, settled, lost, faults>>

-------------------------------------------------------------------------------
(* zulip.py                                                                *)

Set(g, j) == job' = [job EXCEPT ![g] = j]

Others(g) == {h \in Groups \ {g} : job[h].step # "idle"}

\* A job has a claim to the truth only if it runs alone.
Start(g) ==
    LET q == queue[g] IN
    /\ job[g].step = "idle" /\ q # NoRequest
    /\ queue' = [queue EXCEPT ![g] = NoRequest]
    /\ job' = [h \in Groups |->
          IF h # g THEN [job[h] EXCEPT !.ok = FALSE]
          ELSE [Idle EXCEPT
                  !.step = IF q.resolve THEN "resolve"
                           ELSE IF q.payload = NoRequest THEN "read" ELSE "find",
                  !.req = q, !.st = q.payload,
                  !.ok = (Others(g) = {}) /\ (q.payload # NoRequest => q.ok)]]
    /\ settled' = FALSE
    /\ UNCHANGED <<truth, posts, lost, changes, faults>>

\* A fork's pull request must be open and its head the run's.
Resolve(g) ==
    /\ job[g].step = "resolve"
    /\ \/ Set(g, [job[g] EXCEPT !.step = "read"])
       \/ ~(pr.life = "open" /\ pr.head = g) /\ Set(g, Idle)
    /\ UNCHANGED <<truth, posts, queue, history>>

pr_state(g) ==
    /\ job[g].step = "read"
    /\ Set(g, [job[g] EXCEPT !.step = "find", !.st = pr])
    /\ UNCHANGED <<truth, posts, queue, history>>

\* The oldest of the bot's messages that link to the pull request, as it is now.
Found(j) ==
    IF posts = <<>> THEN j
    ELSE [j EXCEPT !.post = 1, !.text = posts[1].content, !.mine = posts[1].reactions]

find_message(g) ==
    /\ job[g].step = "find"
    /\ Set(g, [Found(job[g]) EXCEPT !.step = "post"])
    /\ UNCHANGED <<truth, posts, queue, history>>

\* The backfill indexes the topic while gh lists the pull requests into a pipe.
topic_message_index ==
    LET j == job["backfill"] IN
    /\ j.step = "read" \/ (j.step = "find" /\ j.st # NoRequest)
    /\ Set("backfill", [Found(j) EXCEPT !.step = IF j.step = "read" THEN "find" ELSE "post"])
    /\ UNCHANGED <<truth, posts, queue, history>>

ListedState ==
    LET j == job["backfill"] IN
    /\ j.step = "read" \/ (j.step = "find" /\ j.st = NoRequest)
    /\ Set("backfill", [j EXCEPT !.step = IF j.step = "read" THEN "find" ELSE "post",
                                 !.st = pr])
    /\ UNCHANGED <<truth, posts, queue, history>>

\* Wrong on purpose: only the opening event may.
MayCreateOpened(j) == j.req.create = "yes"

\* Wrong on purpose: --create-if-open does not look.
MayCreateAsked(j) == j.req.create # "no"

MayCreate(j) == j.req.create = "yes" \/ (j.req.create = "open" /\ j.st.life = "open")

Nothing(g) ==
    /\ job[g].step = "post"
    /\ job[g].post = 0 /\ ~MayCreate(job[g])
    /\ Set(g, Idle)
    /\ settled' = job[g].ok
    /\ UNCHANGED <<truth, posts, queue, lost, changes, faults>>

Sent(g) == [content |-> job[g].st.content, reactions |-> {}, by |-> g]

\* Wrong on purpose: a lost answer is a reason to send again.
send_message_again(g) ==
    /\ job[g].step = "post"
    /\ job[g].post = 0 /\ MayCreate(job[g])
    /\ \E n \in {1, 2} : posts' = posts \o [i \in 1..n |-> Sent(g)]
    /\ Set(g, [job[g] EXCEPT !.step = "derive", !.post = Len(posts')])
    /\ UNCHANGED <<truth, queue, history>>

send_message(g) ==
    /\ job[g].step = "post"
    /\ job[g].post = 0 /\ MayCreate(job[g])
    /\ posts' = Append(posts, Sent(g))
    /\ Set(g, [job[g] EXCEPT !.step = "derive", !.post = Len(posts')])
    /\ UNCHANGED <<truth, queue, history>>

update_message(g) ==
    LET j == job[g] IN
    /\ j.step = "post" /\ j.post # 0
    /\ posts' = IF j.text = j.st.content THEN posts
                ELSE [posts EXCEPT ![j.post].content = j.st.content]
    /\ Set(g, [j EXCEPT !.step = "derive"])
    /\ UNCHANGED <<truth, queue, history>>

\* The reads of core.derive count as one: a change between them voids `ok`.
Derive(g) ==
    LET j == job[g]
        ci == IF j.req.running THEN "running" ELSE build[j.st.head] IN
    /\ j.step = "derive"
    /\ Set(g, [j EXCEPT !.step = "review",
                        !.want = derive(j.st, ci, review[j.st.head])])
    /\ UNCHANGED <<truth, posts, queue, history>>

First(group, S) ==
    group[CHOOSE i \in DOMAIN group :
             group[i] \in S /\ \A k \in 1..(i - 1) : group[k] \notin S]

Superfluous(group, j, want) == (j.mine \cap InGroup(group)) \ want

\* set_group: one removal after another,
remove_reaction(g, group, want) ==
    LET j == job[g]
        name == First(group, Superfluous(group, j, want)) IN
    /\ Superfluous(group, j, want) # {}
    /\ posts' = [posts EXCEPT ![j.post].reactions = @ \ {name}]
    /\ Set(g, [j EXCEPT !.mine = @ \ {name}])
    /\ UNCHANGED <<truth, queue, history>>

\* then the one that is wanted and not there.
add_reaction(g, group, want) ==
    LET j == job[g] IN
    /\ Superfluous(group, j, want) = {}
    /\ want \ j.mine # {}
    /\ posts' = [posts EXCEPT ![j.post].reactions = @ \cup want]
    /\ Set(g, [j EXCEPT !.mine = @ \cup want])
    /\ UNCHANGED <<truth, queue, history>>

\* Wrong on purpose: one reaction too many is not looked for.
InPlaceAdded(group, j, want) == want \subseteq j.mine

InPlace(group, j, want) == Superfluous(group, j, want) = {} /\ want \subseteq j.mine

\* A job that was told that the build runs goes by that, not by what it reads:
\* it saw the truth only if nothing has changed since it was asked for.
Saw(j) == j.ok /\ (j.req.running => j.req.ok)

set_review_group(g) ==
    LET j == job[g] IN
    /\ j.step = "review"
    /\ \/ remove_reaction(g, REVIEW_GROUP, j.want.review)
       \/ add_reaction(g, REVIEW_GROUP, j.want.review)
       \/ /\ InPlace(REVIEW_GROUP, j, j.want.review)
          /\ Set(g, [j EXCEPT !.step = "ci"])
          /\ UNCHANGED <<truth, posts, queue, history>>

set_ci_group(g) ==
    LET j == job[g] IN
    /\ j.step = "ci"
    /\ \/ remove_reaction(g, CI_GROUP, j.want.ci)
       \/ add_reaction(g, CI_GROUP, j.want.ci)
       \/ /\ InPlace(CI_GROUP, j, j.want.ci)
          /\ Set(g, Idle)
          /\ settled' = Saw(j)
          /\ UNCHANGED <<truth, posts, queue, lost, changes, faults>>

\* A call fails for good: "non-fatal", and the job is over.  What the last call
\* asked for may have happened all the same.
Fail(g) ==
    /\ job[g].step # "idle"
    /\ faults < MaxFaults
    /\ faults' = faults + 1
    /\ Set(g, Idle)
    /\ lost' = (lost \/ Creates(job[g].req))
    /\ UNCHANGED <<truth, posts, queue, settled, changes>>

-------------------------------------------------------------------------------

GitHub ==
    \/ \E h \in Heads :
          \/ Push(h) \/ BuildStarts(h)
          \/ \E state \in {"success", "failure"} : BuildEnds(h, state)
    \/ \E v \in UsedReviews : Review(v)
    \/ \E c \in Contents : Relabel(c)
    \/ Reopen
    \/ \E life \in {"closed", "merged"} : Close(life)
    \/ DispatchBackfill

Backfill == topic_message_index \/ ListedState

Reconcile(g) ==
    \/ Start(g) \/ Nothing(g)
    \/ g # "backfill" /\ (Resolve(g) \/ pr_state(g) \/ find_message(g))
    \/ g = "backfill" /\ Backfill
    \/ send_message(g) \/ update_message(g)
    \/ Derive(g) \/ set_review_group(g) \/ set_ci_group(g)

Next ==
    \/ GitHub
    \/ \E g \in Groups : Reconcile(g) \/ Fail(g)

Spec == Init /\ [][Next]_vars

\* GitHub runs what is pending, and a job's calls return.
FairSpec == Spec /\ \A g \in Groups : WF_vars(Reconcile(g))

-------------------------------------------------------------------------------
(* What the mirror promises                                                *)

\* A head's build may show as running or as it last ended.
RightCi == {build[pr.head]} \cup (IF pr.head \in building THEN {"running"} ELSE {})

\* After a job that ran alone and saw the last change, the post shows the pull
\* request as it is, whatever interrupted or overlapping jobs left behind
\* (zulip.py:19-20, "it converges the reactions to match GitHub").
SettledIsRight ==
    settled /\ posts # <<>> =>
        /\ posts[1].content = pr.content
        /\ \E ci \in RightCi :
              LET want == derive(pr, ci, review[pr.head]) IN
              posts[1].reactions = want.review \cup want.ci

\* Two posts about one pull request never come from the jobs of one head: those
\* are serialised, a search finds what was sent, and a send is never repeated
\* (zulip.py:237-243), not even when its answer was lost.
OnePostPerHead ==
    \A i, k \in DOMAIN posts : posts[i].by = posts[k].by => i = k

\* Label events never announce a pull request that is not open, unless it was
\* closed under the job's eyes (zulip-pr.yml:81-89).
NoLatePost ==
    [][\A g \in Groups :
          Len(posts') > Len(posts) /\ job'[g] # job[g] /\ job[g].req.create = "open"
             => pr.life = "open" \/ ~job[g].ok]_vars

\* A request to create is honoured, unless the pending job was replaced, a call
\* failed, or the pull request was closed (zulip.py:415-423).
CreateIsHonoured ==
    (\E g \in Groups : Creates(queue[g])) ~> (posts # <<>> \/ lost \/ pr.life # "open")

\* "The script reconciles from GitHub truth, so the trigger only decides *when*
\* to refresh" (zulip-pr-status.yml:5-6): what the last job, alone and
\* undisturbed, has derived is what GitHub holds.
TriggerOnlySaysWhen ==
    \A g \in Groups :
       job[g].ok /\ job[g].step = "ci" /\ (\A h \in Groups : queue[h] = NoRequest) =>
          \E ci \in RightCi : job[g].want = derive(pr, ci, review[pr.head])

\* "We keep exactly one bot-owned message per PR" (zulip.py:4).
OnePost == Len(posts) <= 1

==============================================================================
