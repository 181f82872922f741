--------------------------- MODULE MCHousekeeping ---------------------------
(* Small instances of Housekeeping for TLC. *)
EXTENDS Housekeeping

\* Every pull request authors the same roadmap target.
MCTarget == [p \in PRs |-> "t"]

MCBoards == [head : Heads, verdict : Verdicts]
==============================================================================
