---------------------------- MODULE Housekeeping ----------------------------
(***************************************************************************)
(* scripts/housekeeping.py, which closes pull requests that are spent or   *)
(* stuck.  A run does four jobs in a row; each lists the open pull         *)
(* requests once and then goes through its candidates one by one, with a   *)
(* few reads of the candidate before it closes it.  Authors, reviewers and *)
(* maintainers act in the meantime.  No concurrency group keeps a run that *)
(* was started by hand from overlapping a scheduled one.                   *)
(***************************************************************************)
EXTENDS Naturals

CONSTANTS
    PRs,        \* numbers of pull requests
    Runs,       \* runs of the workflow that may be under way at a time
    Heads,      \* commits
    FirstHead,  \* the one each pull request was opened with
    target,     \* the roadmap target each pull request's body names
    NoTarget,   \* its body names none
    NoBoard,    \* no trusted scoreboard
    NoPR,       \* a run that is not looking at a candidate
    NoHead,     \* a listing that does not ask for heads
    Boards,     \* the scoreboards a reviewer may post
    UsedFlags,  \* the flags people change
    Busy,       \* the pull requests authors and reviewers still work on
    MaxMoves,   \* bound on what people do
    MaxFaults   \* bound on failing calls

Verdicts == {"clear", "blocking", "spent"}

Flags == {"draft", "keep", "budget"}

ASSUME NumbersAssumption == PRs \subseteq Nat /\ NoPR \notin PRs
ASSUME HeadsAssumption == FirstHead \in Heads
ASSUME BoardsAssumption ==
    Boards \subseteq [head : Heads, verdict : Verdicts] /\ NoBoard \notin Boards
ASSUME UsedAssumption == UsedFlags \subseteq Flags /\ Busy \subseteq PRs
ASSUME BoundsAssumption == MaxMoves \in Nat /\ MaxFaults \in Nat

VARIABLES
    state,      \* GitHub: open, closed or merged
    flags,      \* GitHub: draft, a label of KEEP_LABELS, BUDGET_LABEL
    head,       \* GitHub: the head commit
    board,      \* GitHub: the newest trusted scoreboard
    empty,      \* GitHub: the pull requests whose diff against main is empty
    age,        \* GitHub: how long updatedAt is past
    touched,    \* GitHub: updatedAt is not before a run's cutoff any more
    run,        \* each run's local state
    seen,       \* history: what has been so since a run's listing
    moves,      \* history: what people did so far
    faults      \* history: failures so far

github == <<state, flags, head, board, empty, age>>
vars == <<github, touched, run, seen, moves, faults>>

-------------------------------------------------------------------------------

\* Active, quiet for EMPTY_QUIET_MINUTES, untouched for STALE_DAYS.
Ages == {"active", "quiet", "stale"}

Jobs == {"empty", "budget", "dedup", "stale"}

\* Wrong on purpose: the last job is left out.
JobAfterNoStale ==
    [empty |-> "budget", budget |-> "dedup", dedup |-> "none", stale |-> "none"]

JobAfter == [empty |-> "budget", budget |-> "dedup", dedup |-> "stale", stale |-> "none"]

\* What a run remembers of the listing: the candidates left, each one's head,
\* and those that carried BUDGET_LABEL.
Local == [job  : Jobs \cup {"none"},
          step : {"list", "next", "keep", "close"},
          todo : SUBSET PRs,
          cur  : PRs \cup {NoPR},
          head : [PRs -> Heads \cup {NoHead}],
          forced : SUBSET PRs]

\* What a history may hold of a pull request since a run's listing: it carried no
\* keep label, was reviewed to the cap, was pushed to, was an open pull request
\* that dedup counts, was closed or merged by somebody else, or was touched
\* after the run had looked at it for the last time.
Facts == {"loose", "spent", "pushed", "live", "gone", "late"}

Open(p) == state[p] = "open"

has_label(p, f) == f \in flags[p]

Blocking(b) == b # NoBoard /\ b.verdict # "clear"

\* Reviewed to the round cap at commit h, and still blocking.
Spent(b, h) == b # NoBoard /\ b.head = h /\ b.verdict = "spent"

TypeOK ==
    /\ state \in [PRs -> {"open", "closed", "merged"}]
    /\ flags \in [PRs -> SUBSET Flags]
    /\ head \in [PRs -> Heads]
    /\ board \in [PRs -> Boards \cup {NoBoard}]
    /\ empty \in SUBSET PRs
    /\ age \in [PRs -> Ages]
    /\ touched \in [Runs -> SUBSET PRs]
    /\ run \in [Runs -> Local]
    /\ \A r \in Runs : run[r].step \in {"keep", "close"} => run[r].cur \in PRs
    /\ seen \in [Runs -> [PRs -> SUBSET Facts]]
    /\ moves \in 0..MaxMoves
    /\ faults \in 0..MaxFaults

NoHeads == [p \in PRs |-> NoHead]

Idle == [job |-> "none", step |-> "list", todo |-> {}, cur |-> NoPR,
         head |-> NoHeads, forced |-> {}]

Init ==
    /\ state = [p \in PRs |-> "open"]
    /\ flags = [p \in PRs |-> {}]
    /\ head = [p \in PRs |-> FirstHead]
    /\ board = [p \in PRs |-> NoBoard]
    /\ empty = {}
    /\ age = [p \in PRs |-> "active"]
    /\ touched = [r \in Runs |-> {}]
    /\ run = [r \in Runs |-> Idle]
    /\ seen = [r \in Runs |-> [p \in PRs |-> {}]]
    /\ moves = 0
    /\ faults = 0

-------------------------------------------------------------------------------
(* What people and GitHub do.                                              *)

\* p's updatedAt is now.  A run that has looked at p for the last time before
\* it closes it does not see that.
LookedAt(r, p) == run[r].cur = p /\ run[r].step = "close"

TouchBy(by, p, facts) ==
    /\ age' = [age EXCEPT ![p] = "active"]
    /\ touched' = [r \in Runs |-> IF run[r].step = "list" THEN {}
                                  ELSE touched[r] \cup {p}]
    /\ seen' = [r \in Runs |-> IF run[r].step = "list" THEN seen[r]
                  ELSE [seen[r] EXCEPT ![p] = @ \cup (IF r \in by THEN {} ELSE facts)
                          \cup (IF LookedAt(r, p) THEN {"late"} ELSE {})]]

Touch(p, facts) == TouchBy({}, p, facts)

Move ==
    /\ moves < MaxMoves
    /\ moves' = moves + 1
    /\ UNCHANGED <<run, faults>>

\* A new head, with changes against main or without.
Push(p, h, e) ==
    /\ Move
    /\ Open(p) /\ p \in Busy
    /\ h # head[p]
    /\ head' = [head EXCEPT ![p] = h]
    /\ empty' = IF e THEN empty \cup {p} ELSE empty \ {p}
    /\ Touch(p, {"pushed"})
    /\ UNCHANGED <<state, flags, board>>

Review(p, b) ==
    /\ Move
    /\ p \in Busy
    /\ board[p] # b
    /\ board' = [board EXCEPT ![p] = b]
    /\ Touch(p, IF Spent(b, head[p]) THEN {"spent"} ELSE {})
    /\ UNCHANGED <<state, flags, head, empty>>

SetFlag(p, f) ==
    /\ Move
    /\ p \in Busy
    /\ flags' = [flags EXCEPT ![p] = @ \cup {f}]
    /\ f \notin flags[p]
    /\ Touch(p, {})
    /\ UNCHANGED <<state, head, board, empty>>

ClearFlag(p, f) ==
    /\ Move
    /\ p \in Busy
    /\ f \in flags[p]
    /\ flags' = [flags EXCEPT ![p] = @ \ {f}]
    /\ Touch(p, IF f = "keep" THEN {"loose"} ELSE {})
    /\ UNCHANGED <<state, head, board, empty>>

CloseByHand(p) ==
    /\ Move
    /\ Open(p)
    /\ state' = [state EXCEPT ![p] = "closed"]
    /\ Touch(p, {"gone"})
    /\ UNCHANGED <<flags, head, board, empty>>

Reopen(p) ==
    /\ Move
    /\ state[p] = "closed"
    /\ state' = [state EXCEPT ![p] = "open"]
    /\ Touch(p, {})
    /\ UNCHANGED <<flags, head, board, empty>>

Twins(p) == {q \in PRs \ {p} : target[p] # NoTarget /\ target[q] = target[p]}

\* Merged; main may then hold all that some of its twins would change, which
\* does not move their updatedAt.
Merge(p, landed) ==
    /\ Move
    /\ Open(p)
    /\ state' = [state EXCEPT ![p] = "merged"]
    /\ empty' = empty \cup landed
    /\ Touch(p, {"gone"})
    /\ UNCHANGED <<flags, head, board>>

\* Time passes without anybody touching p.
GrowOld(p) ==
    /\ age[p] # "stale"
    /\ age' = [age EXCEPT ![p] = IF @ = "active" THEN "quiet" ELSE "stale"]
    /\ UNCHANGED <<state, flags, head, board, empty, touched, run, seen, moves, faults>>

-------------------------------------------------------------------------------
(* housekeeping.main                                                       *)

At(r, job, step) == run[r].job = job /\ run[r].step = step

Unheld(p) == Open(p) /\ ~has_label(p, "draft") /\ ~has_label(p, "keep")

Counts(p) == Open(p) /\ ~has_label(p, "draft")

\* Wrong on purpose: an older pull request counts even when it is closed.
DuplicateOfAny(p) == \E q \in Twins(p) : q < p

\* An older open pull request names the same target.
Duplicate(p) == \E q \in Twins(p) : q < p /\ Counts(q)

Candidate(job, p) ==
    CASE job = "empty"  -> Unheld(p) /\ target[p] # NoTarget /\ age[p] # "active"
      [] job = "budget" -> Unheld(p)
      [] job = "dedup"  -> Unheld(p) /\ Duplicate(p)
      [] job = "stale"  -> Unheld(p) /\ age[p] = "stale"

Start(r) ==
    /\ run[r].job = "none"
    /\ run' = [run EXCEPT ![r].job = "empty"]
    /\ UNCHANGED <<github, touched, seen, moves, faults>>

\* gh pr list, and what has been so since then
List(r) ==
    /\ run[r].job # "none"
    /\ run[r].step = "list"
    /\ run' = [run EXCEPT ![r] =
                 [job |-> @.job, step |-> "next",
                  todo |-> {p \in PRs : Candidate(@.job, p)},
                  cur |-> NoPR,
                  head |-> IF @.job = "budget" THEN head ELSE NoHeads,
                  forced |-> {p \in PRs : @.job = "budget" /\ has_label(p, "budget")}]]
    /\ touched' = [touched EXCEPT ![r] = {}]
    /\ seen' = [seen EXCEPT ![r] = [p \in PRs |->
                   (IF has_label(p, "keep") THEN {} ELSE {"loose"})
                   \cup (IF Spent(board[p], head[p]) THEN {"spent"} ELSE {})
                   \cup (IF run[r].job = "dedup" /\ Counts(p) THEN {"live"} ELSE {})]]
    /\ UNCHANGED <<github, moves, faults>>

Forget(r) ==
    /\ touched' = [touched EXCEPT ![r] = {}]
    /\ seen' = [seen EXCEPT ![r] = [p \in PRs |-> {}]]

EndJob(r) ==
    /\ run[r].job # "none"
    /\ run[r].step = "next"
    /\ run[r].todo = {}
    /\ run' = [run EXCEPT ![r] = [Idle EXCEPT !.job = JobAfter[run[r].job]]]
    /\ Forget(r)
    /\ UNCHANGED <<github, moves, faults>>

\* The candidate p passes the look at it and goes on to `step`, or is left.
LookAt(r, p, passes, step) ==
    /\ p \in run[r].todo
    /\ run[r].step = "next"
    /\ run' = IF passes
              THEN [run EXCEPT ![r].cur = p, ![r].step = step]
              ELSE [run EXCEPT ![r].todo = @ \ {p}]
    /\ UNCHANGED <<github, touched, seen, moves, faults>>

\* Wrong on purpose: the quiet window is not looked at again.
ViewOnce(r, p) ==
    /\ run[r].job = "empty"
    /\ LookAt(r, p, /\ ~has_label(p, "draft") /\ ~has_label(p, "keep")
                    /\ p \in empty, "close")

\* empty: the fresh view right before the close
View(r, p) ==
    /\ run[r].job = "empty"
    /\ LookAt(r, p, /\ ~has_label(p, "draft") /\ ~has_label(p, "keep")
                    /\ p \notin touched[r]
                    /\ p \in empty, "close")

\* Wrong on purpose: a scoreboard of another head is good enough.
ReadSpentAnyHead(r, p) ==
    /\ run[r].job = "budget"
    /\ LookAt(r, p, \/ p \in run[r].forced
                    \/ board[p] # NoBoard /\ Spent(board[p], board[p].head), "keep")

\* budget: the scoreboard at the head that was listed
ReadSpent(r, p) ==
    /\ run[r].job = "budget"
    /\ LookAt(r, p, p \in run[r].forced \/ Spent(board[p], run[r].head[p]), "keep")

\* stale: the scoreboard, of whatever head
ReadBlocking(r, p) ==
    /\ run[r].job = "stale"
    /\ LookAt(r, p, Blocking(board[p]), "keep")

\* latest_scoreboard_meta fails safe: there is no scoreboard this time.
ReadFails(r, p) ==
    /\ run[r].job \in {"budget", "stale"}
    /\ run[r].step = "next"
    /\ p \in run[r].todo
    /\ p \notin run[r].forced
    /\ faults < MaxFaults
    /\ faults' = faults + 1
    /\ run' = [run EXCEPT ![r].todo = @ \ {p}]
    /\ UNCHANGED <<github, touched, seen, moves>>

Leave(r) == run' = [run EXCEPT ![r].todo = @ \ {run[r].cur}, ![r].cur = NoPR,
                               ![r].step = "next"]

\* Wrong on purpose: the listing's labels are good enough.
keep_label_listed(r) ==
    /\ run[r].step = "keep"
    /\ run' = [run EXCEPT ![r].step = "close"]
    /\ UNCHANGED <<github, touched, seen, moves, faults>>

keep_label_live(r) ==
    /\ run[r].step = "keep"
    /\ IF has_label(run[r].cur, "keep")
       THEN Leave(r)
       ELSE run' = [run EXCEPT ![r].step = "close"]
    /\ UNCHANGED <<github, touched, seen, moves, faults>>

\* dedup goes by its listing alone.
Decide(r, p) ==
    /\ run[r].job = "dedup"
    /\ LookAt(r, p, TRUE, "close")

\* gh pr close: one that is closed or merged stays what it is.
Close(r) ==
    /\ run[r].step = "close"
    /\ Leave(r)
    /\ LET p == run[r].cur IN
       IF Open(p)
       THEN /\ state' = [state EXCEPT ![p] = "closed"]
            /\ TouchBy({r}, p, {"gone"})
       ELSE UNCHANGED <<state, age, touched, seen>>
    /\ UNCHANGED <<flags, head, board, empty, moves, faults>>

CloseFails(r) ==
    /\ run[r].step = "close"
    /\ Leave(r)
    /\ faults < MaxFaults
    /\ faults' = faults + 1
    /\ UNCHANGED <<github, touched, seen, moves>>

\* gh_json raises, or the job is cancelled: the run ends.
Die(r) ==
    /\ run[r].job # "none"
    /\ faults < MaxFaults
    /\ faults' = faults + 1
    /\ run' = [run EXCEPT ![r] = Idle]
    /\ Forget(r)
    /\ UNCHANGED <<github, moves>>

-------------------------------------------------------------------------------

People(p) ==
    \/ \E h \in Heads, e \in BOOLEAN : Push(p, h, e)
    \/ \E b \in Boards : Review(p, b)
    \/ \E f \in UsedFlags : SetFlag(p, f) \/ ClearFlag(p, f)
    \/ CloseByHand(p)
    \/ Reopen(p)
    \/ \E landed \in SUBSET Twins(p) : Merge(p, landed)

Step(r) ==
    \/ Start(r)
    \/ List(r)
    \/ EndJob(r)
    \/ \E p \in PRs : View(r, p) \/ ReadSpent(r, p) \/ ReadBlocking(r, p) \/ Decide(r, p)
    \/ keep_label_live(r)
    \/ Close(r)

Next ==
    \/ \E p \in PRs : People(p) \/ GrowOld(p)
    \/ \E r \in Runs : Step(r)
    \/ \E r \in Runs : CloseFails(r) \/ Die(r) \/ (\E p \in PRs : ReadFails(r, p))

Spec == Init /\ [][Next]_vars

\* The cron fires, a run goes on, and time passes.
Fairness ==
    /\ \A r \in Runs : WF_vars(Step(r))
    /\ \A p \in PRs : WF_vars(GrowOld(p))

FairSpec == Spec /\ Fairness

-------------------------------------------------------------------------------
(* Properties                                                              *)

\* The run r closes p in this step.
Closes(r, p) ==
    /\ Open(p) /\ state'[p] = "closed"
    /\ run[r].cur = p /\ run'[r] # run[r]

\* A pull request that carries a keep label is closed only if the label came
\* too late: after the last look at it, or in dedup, which looks at labels
\* only in its listing, after that (housekeeping.py 110-113, 181-185, 213, 242, 266).
KeepSpares ==
    [][\A r \in Runs, p \in PRs :
         Closes(r, p) /\ has_label(p, "keep") =>
           IF run[r].job = "dedup" THEN "loose" \in seen[r][p]
                                   ELSE "late" \in seen[r][p]]_vars

\* The empty job closes a pull request that has changes to merge, or that was
\* touched since the listing, only if that happened after the fresh view
\* (housekeeping.py 161-169).
WorkIsNotRaced ==
    [][\A r \in Runs, p \in PRs :
         Closes(r, p) /\ run[r].job = "empty" =>
           \/ p \in empty /\ p \notin touched[r]
           \/ "late" \in seen[r][p]]_vars

\* The budget job closes only what was at the round cap at its head at some time
\* since the listing, unless somebody labelled it or pushed since
\* (housekeeping.py 192-217).
SpentIsReviewed ==
    [][\A r \in Runs, p \in PRs :
         Closes(r, p) /\ run[r].job = "budget" /\ p \notin run[r].forced =>
           seen[r][p] \cap {"spent", "pushed"} # {}]_vars

\* Deduplication closes a pull request only for an older one of the same target
\* that was open, and no draft, when it listed them, and that is still open
\* unless somebody other than this run has closed or merged it since
\* (housekeeping.py 219-247, "keep the lowest number").
OlderTwinStays ==
    [][\A r \in Runs, p \in PRs :
         Closes(r, p) /\ run[r].job = "dedup" =>
           \E q \in Twins(p) : /\ q < p /\ "live" \in seen[r][q]
                               /\ Open(q) \/ "gone" \in seen[r][q]]_vars

\* One of the four jobs applies to p.
Retirable(p) ==
    /\ Unheld(p)
    /\ \/ target[p] # NoTarget /\ age[p] # "active" /\ p \in empty
       \/ has_label(p, "budget") \/ Spent(board[p], head[p])
       \/ Duplicate(p)
       \/ age[p] = "stale" /\ Blocking(board[p])

\* "never stranded": nothing that one of the jobs applies to stays open for
\* ever (housekeeping.py 4-6).
NeverStranded == \A p \in PRs : []<>~Retirable(p)

-------------------------------------------------------------------------------
(* What a comment in the script says, and the code does not do.            *)

\* "a just-pushed fix that has not been re-reviewed yet is never closed"
\* (housekeeping.py 194-196).
FixIsSpared ==
    [][\A r \in Runs, p \in PRs :
         Closes(r, p) /\ run[r].job = "budget" /\ p \notin run[r].forced =>
           board[p].head = head[p]]_vars
===============================================================================
