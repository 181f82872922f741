---------------------------- MODULE DerivedStatus ----------------------------
(***************************************************************************)
(* The pure part of scripts/pr_status: what a pull request's status is, as *)
(* a function of GitHub's records about it (core.py), and the one label    *)
(* that shows it (labels.py).  Every sink of the status derives it here.   *)
(*                                                                         *)
(* A scoreboard is the JSON meta of the review comment.  Its `states` map  *)
(* (rubric -> state) and its `runs` list (the verdicts of the last round)  *)
(* are modelled by the sets of values that occur in them: review_state     *)
(* only ever asks any() and all() of them.                                 *)
(***************************************************************************)

CONSTANTS
    Heads,      \* commit ids a pull request's head can point at
    NoBoard     \* the pull request has no scoreboard comment

\* The status labels, in the order of labels.LABELS.
StatusLabels == {"awaiting-CI", "awaiting-review", "review-in-progress",
                 "ci-failed", "awaiting-author", "ready-to-merge"}

NoLabel == "none"

\* GitHub's states of a commit status, and "absent" when none was posted.
BuildStates == {"absent", "pending", "success", "failure", "error"}

CiStates == {"none", "running", "success", "failure"}

ReviewStates == {"none", "running", "changes", "approved"}

Lifecycles == {"open", "closed", "merged"}

\* A rubric's durable state; every word but these two blocks.
RubricStates == {"green", "stale", "blocking"}

Verdicts == {"approve", "error", "request_changes"}

Scoreboard == [head_sha : Heads,
               states   : SUBSET RubricStates,
               runs     : SUBSET Verdicts]

ci_status(state) ==
    CASE state = "pending"              -> "running"
      [] state = "success"              -> "success"
      [] state \in {"failure", "error"} -> "failure"
      [] OTHER                          -> "none"

\* The durable map decides; a scoreboard that has none is read by its runs.
VerdictOfStates(states) ==
    IF states \ {"green", "stale"} # {} THEN "changes"
    ELSE IF states = {"green"} THEN "approved"
    ELSE "running"

VerdictOfRuns(runs) ==
    IF runs = {} THEN "running"
    ELSE IF runs \ {"approve", "error"} # {} THEN "changes"
    ELSE IF runs = {"approve"} THEN "approved"
    ELSE "running"

review_state(board, head) ==
    IF board = NoBoard THEN "none"
    ELSE IF board.head_sha # head THEN "running"
    ELSE IF board.states # {} THEN VerdictOfStates(board.states)
    ELSE VerdictOfRuns(board.runs)

derived_label(lifecycle, ci, review, inprogress) ==
    CASE lifecycle # "open"        -> NoLabel
      [] lifecycle = "open" /\ ci \in {"none", "running"} -> "awaiting-CI"
      [] lifecycle = "open" /\ ci = "failure" -> "ci-failed"
      [] lifecycle = "open" /\ ci = "success" ->
            IF review = "changes" THEN "awaiting-author"
            ELSE IF review = "approved" THEN "ready-to-merge"
            ELSE IF inprogress THEN "review-in-progress"
            ELSE "awaiting-review"
==============================================================================
