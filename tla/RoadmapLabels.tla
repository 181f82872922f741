---------------------------- MODULE RoadmapLabels ----------------------------
(***************************************************************************)
(* scripts/roadmap_label.py: a pull request carries the roadmap/* label of *)
(* what its description declares.  A workflow runs it at every event of a  *)
(* pull request, cancelling the run of the event before; people run it for *)
(* one pull request, with a nudge, or over all of them as a backfill.      *)
(* All these runs overlap with each other's API calls, calls fail, and     *)
(* people set labels by hand.                                              *)
(***************************************************************************)
EXTENDS Naturals, FiniteSets

CONSTANTS
    Areas,        \* canonical_areas: the roadmaps there are
    NONE_LABEL, UNKNOWN_LABEL,
    NoLabel,
    PRs,
    NoPR,
    People,       \* who run the script by hand, each one run at a time
    Tries,        \* retries: how often _gh tries a call
    UsedInputs,   \* descriptions and diffs that come up
    HandLabels,   \* labels that people set by hand
    MaxEvents,    \* bound on edits, pushes, reopenings and labels set by hand
    MaxCommands,  \* bound on runs by hand
    MaxFaults     \* bound on failing calls

\* What the lines of a description say, as far as they are read.
Body == [declared : SUBSET (Areas \cup {"none", "invalid"}),  \* of "Roadmap:" lines
         targets : SUBSET Areas,                              \* of target markers
         cited : SUBSET Areas]                                \* of roadmap files

\* The kinds of the paths of a diff.
Files == SUBSET {"infra", "pin", "library"}

ASSUME LabelsAssumption ==
    /\ NONE_LABEL \notin Areas /\ UNKNOWN_LABEL \notin Areas /\ NONE_LABEL # UNKNOWN_LABEL
    /\ NoLabel \notin Areas \cup {NONE_LABEL, UNKNOWN_LABEL}
    /\ {"none", "invalid", "absent"} \cap Areas = {}
ASSUME InputsAssumption ==
    /\ UsedInputs \subseteq [body : Body, files : Files]
    /\ HandLabels \subseteq Areas \cup {NONE_LABEL, UNKNOWN_LABEL}
ASSUME PeopleAssumption ==
    IsFiniteSet(People) /\ People \cap PRs = {} /\ NoPR \notin PRs
ASSUME BoundsAssumption ==
    Tries \in Nat \ {0} /\ MaxEvents \in Nat /\ MaxCommands \in Nat /\ MaxFaults \in Nat

VARIABLES
    prs,       \* GitHub: body, files, labels, and how many nudges were posted
    jobs,      \* the script as it runs for each pull request, and by hand
    backfill,  \* what each person's backfill goes by
    wronged,   \* history: pull requests that no event has put right: their last
               \* run failed, a run by hand was out of date when it wrote, or
               \* somebody set a label
    rivals,    \* history: who nudged or was about to when the first nudge came
    events, commands, faults

vars == <<prs, jobs, backfill, wronged, rivals, events, commands, faults>>

Runners == PRs \cup People

Labels == Areas \cup {NONE_LABEL, UNKNOWN_LABEL}

-------------------------------------------------------------------------------
(* The classifier                                                          *)

\* A diff that cannot be seen counts as infrastructure.
is_infra(files) == files = {} \/ "infra" \in files

is_pin_only(files) == files # {} /\ files \subseteq {"pin"}

\* Declarations must be valid and identical.
parse_declared_area(body) ==
    CASE body.declared = {} -> "absent"
      [] Cardinality(body.declared) = 1 -> CHOOSE d \in body.declared : TRUE
      [] OTHER -> "invalid"

classify(body, files) ==
    LET declared == parse_declared_area(body)
        indirect == body.targets \cup body.cited
    IN CASE is_infra(files) \/ is_pin_only(files) -> NONE_LABEL
         [] ~(is_infra(files) \/ is_pin_only(files)) ->
              CASE declared = "invalid" -> UNKNOWN_LABEL
                [] declared = "none" -> IF indirect = {} THEN NONE_LABEL ELSE UNKNOWN_LABEL
                [] declared \in Areas ->
                     IF indirect \subseteq {declared} THEN declared ELSE UNKNOWN_LABEL
                [] declared = "absent" ->
                     IF Cardinality(indirect) = 1 THEN CHOOSE a \in indirect : TRUE
                     ELSE UNKNOWN_LABEL

Right(p) == classify(prs[p].body, prs[p].files)

-------------------------------------------------------------------------------
(* Events                                                                  *)

\* An edit adds and drops labels; `done` is what the current try has done so far.
Idle == [step |-> "idle", pr |-> NoPR, goal |-> NoLabel, add |-> {}, drop |-> {},
         nudge |-> FALSE, done |-> {}, tries |-> 0]

NoPlan == [p \in PRs |-> [goal |-> NoLabel, current |-> {}]]

NoBackfill == [step |-> "none", plan |-> NoPlan, queue |-> {}, failed |-> {},
               allow |-> FALSE, moved |-> {}]

\* Pull requests from before the workflow, without a label.
Init ==
    /\ \E input \in [PRs -> UsedInputs] :
          prs = [p \in PRs |-> [body |-> input[p].body, files |-> input[p].files,
                               labels |-> {}, nudges |-> 0]]
    /\ jobs = [c \in Runners |-> Idle]
    /\ backfill = [h \in People |-> NoBackfill]
    /\ wronged = PRs
    /\ rivals = [p \in PRs |-> {}]
    /\ events = 0 /\ commands = 0 /\ faults = 0

\* Wrong on purpose: a run that goes on makes another one unnecessary.
Coalesced(job, p) == IF job.step = "idle" THEN [Idle EXCEPT !.step = "view", !.pr = p] ELSE job

\* cancel-in-progress: whatever the run before has left undone.
Restarted(job, p) == [Idle EXCEPT !.step = "view", !.pr = p]

\* What a backfill has listed about p need not hold any more.
Moves(p) == backfill' = [h \in People |-> [backfill[h] EXCEPT !.moved = @ \cup {p}]]

\* opened, edited, synchronize or reopened
Event(p, input) ==
    /\ events < MaxEvents
    /\ events' = events + 1
    /\ prs' = [prs EXCEPT ![p].body = input.body, ![p].files = input.files]
    /\ jobs' = [jobs EXCEPT ![p] = Restarted(jobs[p], p)]
    /\ Moves(p)
    /\ wronged' = wronged \ {p}
    /\ UNCHANGED <<rivals, commands, faults>>

\* Somebody adds or removes a label, which is no event for the workflow.
LabelByHand(p, l) ==
    /\ events < MaxEvents
    /\ events' = events + 1
    /\ LET have == prs[p].labels IN
       prs' = [prs EXCEPT ![p].labels = IF l \in have THEN have \ {l} ELSE have \cup {l}]
    /\ Moves(p)
    /\ wronged' = wronged \cup {p}
    /\ UNCHANGED <<jobs, rivals, commands, faults>>

-------------------------------------------------------------------------------
(* _run_one and apply_label, of a run c                                    *)

_pr_fields(c) ==
    /\ jobs[c].step = "view"
    /\ jobs' = [jobs EXCEPT ![c].step = "labels", ![c].goal = Right(jobs[c].pr)]
    /\ UNCHANGED <<prs, backfill, wronged, rivals, events, commands, faults>>

\* Only an explicit --nudge looks at the comments.
AfterApply(job) ==
    IF job.nudge /\ job.goal = UNKNOWN_LABEL
    THEN [job EXCEPT !.step = "comments", !.add = {}, !.drop = {}, !.done = {}, !.tries = 0]
    ELSE Idle

\* apply_label: ensure_label comes first, and changes no pull request.
ReadLabels(c) ==
    /\ jobs[c].step = "labels"
    /\ LET have == prs[jobs[c].pr].labels
           goal == jobs[c].goal
       IN jobs' = [jobs EXCEPT ![c] =
                     IF have = {goal} THEN AfterApply(@)
                     ELSE [@ EXCEPT !.step = "edit", !.add = {goal} \ have,
                                    !.drop = have \ {goal}]]
    /\ UNCHANGED <<prs, backfill, wronged, rivals, events, commands, faults>>

\* gh makes the additions and the removals of one edit by two calls.
Calls(job) ==
    (IF job.add = {} THEN {} ELSE {"add"}) \cup (IF job.drop = {} THEN {} ELSE {"drop"})

Edited(c, call, labels) ==
    LET p == jobs[c].pr
        stale == c \in People /\ jobs[c].goal # Right(p)
    IN
    /\ jobs[c].step = "edit"
    /\ call \in Calls(jobs[c]) \ jobs[c].done
    /\ jobs' = [jobs EXCEPT ![c].done = @ \cup {call}]
    /\ prs' = [prs EXCEPT ![p].labels = labels]
    /\ IF stale THEN Moves(p) /\ wronged' = wronged \cup {p} ELSE UNCHANGED <<backfill, wronged>>
    /\ UNCHANGED <<rivals, events, commands, faults>>

EditAdds(c) == Edited(c, "add", prs[jobs[c].pr].labels \cup jobs[c].add)

EditDrops(c) == Edited(c, "drop", prs[jobs[c].pr].labels \ jobs[c].drop)

\* Wrong on purpose: nobody looks for an earlier nudge.
not_looked_for(p) == FALSE

_already_nudged(p) == prs[p].nudges > 0

ReadComments(c) ==
    /\ jobs[c].step = "comments"
    /\ jobs' = [jobs EXCEPT ![c] = IF _already_nudged(@.pr) THEN Idle
                                   ELSE [@ EXCEPT !.step = "post"]]
    /\ UNCHANGED <<prs, backfill, wronged, rivals, events, commands, faults>>

Nudging(p) == {h \in People : jobs[h].step # "idle" /\ jobs[h].pr = p /\ jobs[h].nudge}

nudge(c) ==
    LET p == jobs[c].pr IN
    /\ jobs[c].step = "post" /\ jobs[c].done = {}
    /\ prs' = [prs EXCEPT ![p].nudges = @ + 1]
    /\ jobs' = [jobs EXCEPT ![c].done = {"post"}]
    /\ rivals' = IF prs[p].nudges = 0 THEN [rivals EXCEPT ![p] = Nudging(p)] ELSE rivals
    /\ UNCHANGED <<backfill, wronged, events, commands, faults>>

\* gh has done all of it, and says so.
Answered(c) ==
    /\ \/ /\ jobs[c].step = "edit" /\ jobs[c].done = Calls(jobs[c])
          /\ jobs' = [jobs EXCEPT ![c] = AfterApply(@)]
       \/ /\ jobs[c].step = "post" /\ jobs[c].done = {"post"}
          /\ jobs' = [jobs EXCEPT ![c] = Idle]
    /\ UNCHANGED <<prs, backfill, wronged, rivals, events, commands, faults>>

Fault == faults < MaxFaults /\ faults' = faults + 1

\* An edit or a comment seems to have failed, however much of it was done, and
\* _gh makes all of it again.
Retry(c) ==
    /\ Fault
    /\ jobs[c].step \in {"edit", "post"} /\ jobs[c].tries + 1 < Tries
    /\ jobs' = [jobs EXCEPT ![c].tries = @ + 1, ![c].done = {}]
    /\ UNCHANGED <<prs, backfill, wronged, rivals, events, commands>>

\* Wrong on purpose: the failure is only logged.
OnlyLogged(failed, p) == failed

Noted(failed, p) == failed \cup {p}

\* A call has failed as often as _gh tries it, and the script ends, but a
\* backfill goes on with the next pull request.
Fail(c) ==
    /\ Fault
    /\ jobs[c].step # "idle"
    /\ jobs' = [jobs EXCEPT ![c] = Idle]
    /\ backfill' = IF c \in People /\ backfill[c].step \in {"plan", "retry"}
                   THEN [backfill EXCEPT ![c].failed = Noted(@, jobs[c].pr)] ELSE backfill
    /\ wronged' = IF c \in PRs THEN wronged \cup {c} ELSE wronged
    /\ UNCHANGED <<prs, rivals, events, commands>>

-------------------------------------------------------------------------------
(* Runs by hand                                                            *)

Command(h) ==
    /\ jobs[h].step = "idle" /\ backfill[h].step \in {"none", "over"}
    /\ commands < MaxCommands
    /\ commands' = commands + 1

\* --pr p --apply --nudge
RunOne(h, p) ==
    /\ Command(h)
    /\ jobs' = [jobs EXCEPT ![h] = [Idle EXCEPT !.step = "view", !.pr = p, !.nudge = TRUE]]
    /\ backfill' = [backfill EXCEPT ![h] = NoBackfill]
    /\ UNCHANGED <<prs, wronged, rivals, events, faults>>

\* --backfill --apply: one listing gives the plan for all of them.
BackfillList(h, allow) ==
    /\ Command(h)
    /\ backfill' = [backfill EXCEPT ![h] =
         [step |-> "plan", queue |-> PRs, failed |-> {}, allow |-> allow,
          plan |-> [p \in PRs |-> [goal |-> Right(p), current |-> prs[p].labels]],
          moved |-> {p \in PRs : jobs[p].step # "idle"}]]
    /\ UNCHANGED <<prs, jobs, wronged, rivals, events, faults>>

\* What is right is skipped, and what is wrong is preserved unless allowed.
Skipped(entry, allow) ==
    entry.current = {entry.goal} \/ (entry.current # {} /\ ~allow)

BackfillNext(h, p) ==
    LET b == backfill[h] IN
    /\ b.step \in {"plan", "retry"}
    /\ jobs[h].step = "idle"
    /\ p \in b.queue
    /\ backfill' = [backfill EXCEPT ![h].queue = @ \ {p}, ![h].failed = @ \ {p}]
    /\ jobs' = IF Skipped(b.plan[p], b.allow) THEN jobs
               ELSE [jobs EXCEPT ![h] = [Idle EXCEPT !.step = "labels", !.pr = p,
                                                     !.goal = b.plan[p].goal]]
    /\ UNCHANGED <<prs, wronged, rivals, events, commands, faults>>

\* Those that failed are tried once more.
BackfillTurns(h) ==
    LET b == backfill[h] IN
    /\ jobs[h].step = "idle" /\ b.queue = {}
    /\ \/ /\ b.step = "plan"
          /\ backfill' = [backfill EXCEPT ![h].step = "retry", ![h].queue = b.failed]
       \/ /\ b.step = "retry"
          /\ backfill' = [backfill EXCEPT ![h].step = "over"]
    /\ UNCHANGED <<prs, jobs, wronged, rivals, events, commands, faults>>

-------------------------------------------------------------------------------

Run(c) ==
    \/ _pr_fields(c) \/ ReadLabels(c) \/ EditAdds(c) \/ EditDrops(c)
    \/ ReadComments(c) \/ nudge(c) \/ Answered(c) \/ Retry(c) \/ Fail(c)

ByHand(h) ==
    \/ \E p \in PRs : RunOne(h, p) \/ BackfillNext(h, p)
    \/ \E allow \in BOOLEAN : BackfillList(h, allow)
    \/ BackfillTurns(h)

Next ==
    \/ \E p \in PRs : (\E input \in UsedInputs : Event(p, input))
                     \/ (\E l \in HandLabels : LabelByHand(p, l))
    \/ \E c \in Runners : Run(c)
    \/ \E h \in People : ByHand(h)

Spec == Init /\ [][Next]_vars

-------------------------------------------------------------------------------
(* Properties                                                              *)

TypeOK ==
    /\ prs \in [PRs -> [body : Body, files : Files, labels : SUBSET Labels, nudges : Nat]]
    /\ \A c \in Runners :
          /\ jobs[c].step \in {"idle", "view", "labels", "edit", "comments", "post"}
          /\ jobs[c].goal \in Labels \cup {NoLabel}
          /\ jobs[c].add \subseteq Labels /\ jobs[c].drop \subseteq Labels
          /\ jobs[c].tries \in 0..(Tries - 1)
    /\ \A h \in People : backfill[h].queue \subseteq PRs /\ backfill[h].failed \subseteq PRs
    /\ wronged \subseteq PRs
    /\ rivals \in [PRs -> SUBSET People]

\* After its last event a pull request carries one roadmap label and the right
\* one: runs that were cancelled between their calls have left nothing behind,
\* an edit that was made half and again has done no harm, nor have runs by hand
\* that went by the same description (roadmap-label.yml 25-28,
\* roadmap_label.py 277-292).
SettledIsRight ==
    \A p \in PRs \ wronged : jobs[p].step = "idle" => prs[p].labels = {Right(p)}

\* A backfill that ends and reports nothing has labelled whatever it did not
\* skip, failures in the middle and other people's runs or not
\* (roadmap_label.py 356-389).
BackfillLeavesNoGap ==
    \A h \in People : LET b == backfill[h] IN
        b.step = "over" /\ b.failed = {} =>
            \A p \in PRs \ b.moved :
                Skipped(b.plan[p], b.allow) \/ prs[p].labels = {b.plan[p].goal}

\* However often the script is run, a pull request holds no more nudges than the
\* calls of those runs can have posted that were under way when the first one
\* came: any other finds the marker (roadmap_label.py 225-242, 295-306).
NudgesAreFew == \A p \in PRs : prs[p].nudges <= Cardinality(rivals[p]) * Tries

-------------------------------------------------------------------------------
(* What the docstrings say, and the code does not do                       *)

\* "Post the citation nudge once (idempotent via a hidden marker)"
\* (roadmap_label.py 303), whoever else posts it at the same time.
NudgedOnce == \A p \in PRs : prs[p].nudges <= 1

\* "changing an existing roadmap label is deliberately opt-in"
\* (roadmap_label.py 35), however long ago the backfill has listed it.
RelabellingIsOptIn ==
    [][\A h \in People :
          EditDrops(h) /\ backfill[h].step \in {"plan", "retry"} => backfill[h].allow]_vars
==============================================================================
