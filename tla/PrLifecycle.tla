----------------------------- MODULE PrLifecycle -----------------------------
(***************************************************************************)
(* scripts/pr_lifecycle.py: what the label timeline of a pull request      *)
(* means.  The charts and the pipeline-health report both read it, and     *)
(* their answers have to agree.                                            *)
(*                                                                         *)
(* A pull request is [state, draft, created, merged, closed, labels,       *)
(* events], its events <<[label, at], ...>> in the order of their times:   *)
(* the timeline has additions of labels and no removals.                   *)
(***************************************************************************)
EXTENDS Integers, FiniteSets, SequencesExt

CONSTANT Never  \* no time

STATE_REVIEW == {"awaiting-review", "review-in-progress"}

STATE_AUTHOR_ACTION == {"awaiting-author", "ci-failed"}

STATE_LABELS == STATE_AUTHOR_ACTION \cup STATE_REVIEW

STATE_AUTHOR == STATE_AUTHOR_ACTION \cup {"awaiting-CI"}

LIFECYCLE_LABELS == STATE_REVIEW \cup STATE_AUTHOR \cup {"ready-to-merge"}

\* The lifecycle events of a pull request.
timeline(pr) ==
    LET found[n \in 0..Len(pr.events)] ==
          IF n = 0 THEN <<>>
          ELSE IF pr.events[n].label \in LIFECYCLE_LABELS
          THEN Append(found[n - 1], pr.events[n]) ELSE found[n - 1]
    IN found[Len(pr.events)]

latest_lifecycle_label(pr) ==
    IF timeline(pr) = <<>> THEN "none" ELSE Last(timeline(pr)).label

\* Of the labels it carries, not of its last event.
current_stage(pr) ==
    LET present == pr.labels \cap LIFECYCLE_LABELS IN
    IF Cardinality(present) = 1 THEN CHOOSE l \in present : TRUE ELSE "none"

author_episode_start(pr) ==
    LET start[n \in 0..Len(pr.events)] ==
          IF n = 0 THEN Never
          ELSE IF pr.events[n].label \in STATE_AUTHOR_ACTION
          THEN IF start[n - 1] = Never THEN pr.events[n].at ELSE start[n - 1]
          ELSE IF pr.events[n].label \in LIFECYCLE_LABELS THEN Never ELSE start[n - 1]
    IN start[Len(pr.events)]

\* A cycle lasts from one of STATE_REVIEW to one of STATE_AUTHOR.
review_cycle_starts(pr) ==
    LET read[n \in 0..Len(pr.events)] ==
          IF n = 0 THEN [starts |-> <<>>, in_review |-> FALSE]
          ELSE LET c == read[n - 1]
                   e == pr.events[n] IN
               IF e.label \in STATE_REVIEW
               THEN [starts |-> IF c.in_review THEN c.starts ELSE Append(c.starts, e.at),
                     in_review |-> TRUE]
               ELSE [c EXCEPT !.in_review = c.in_review /\ e.label \notin STATE_AUTHOR]
    IN read[Len(pr.events)].starts

-------------------------------------------------------------------------------
(* One interval for each application of a label                            *)

\* Whether it can be seen how the last interval goes on: not if the label was
\* taken off an open pull request and nothing replaced it.
LastIsSeen(pr) == pr.state # "OPEN" \/ current_stage(pr) = latest_lifecycle_label(pr)

label_intervals(pr) ==
    LET t == timeline(pr) IN
    {[label |-> t[i].label, applied |-> t[i].at, nth |-> i,
      replaced |-> IF i < Len(t) THEN t[i + 1].at
                   ELSE IF pr.state = "OPEN" THEN Never ELSE pr.closed] :
        i \in {i \in DOMAIN t : i < Len(t) \/ LastIsSeen(pr)}}

-------------------------------------------------------------------------------
(* One episode for each spell of waiting for the same people               *)

\* Wrong on purpose: every label is a wait of its own.
group_of_each(label) == label

group_of(label) ==
    CASE label \in STATE_AUTHOR_ACTION -> "author-action"
      [] label \in STATE_REVIEW        -> "review"
      [] OTHER                         -> label

episodes(pr) ==
    LET t == timeline(pr)
        Group(i) == group_of(t[i].label)
        starts == {i \in DOMAIN t : i = 1 \/ Group(i) # Group(i - 1)}
        Later(i) == {k \in starts : k > i}
        stage == current_stage(pr)
        End(i) == IF Later(i) # {} THEN t[CHOOSE k \in Later(i) : \A j \in Later(i) : k <= j].at
                  ELSE IF pr.state = "OPEN" THEN Never ELSE pr.closed
    IN {[group |-> Group(i), entered |-> t[i].at, left |-> End(i), nth |-> i] :
           i \in {i \in starts :
                     \/ Later(i) # {} \/ pr.state # "OPEN"
                     \/ stage # "none" /\ group_of(stage) = Group(i)}}

waiting_since(pr) ==
    LET running == {e \in episodes(pr) : e.left = Never} IN
    IF running = {} THEN Never ELSE (CHOOSE e \in running : TRUE).entered

==============================================================================
