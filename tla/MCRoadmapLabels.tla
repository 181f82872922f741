--------------------------- MODULE MCRoadmapLabels ---------------------------
(* A small instance of RoadmapLabels for TLC. *)
EXTENDS RoadmapLabels, TLC

CONSTANT a1

\* Nothing that says a roadmap, and one roadmap said twice.
MCInputs ==
    {[body |-> [declared |-> {}, targets |-> {}, cited |-> {}], files |-> {"library"}],
     [body |-> [declared |-> {}, targets |-> {a1}, cited |-> {a1}], files |-> {"library", "pin"}]}

MCHandLabels == {a1}

\* Pull requests from before the workflow, or that have just been opened.
OpenedInit ==
    \E opened \in SUBSET PRs :
       \E input \in [PRs -> UsedInputs] :
          /\ prs = [p \in PRs |-> [body |-> input[p].body, files |-> input[p].files,
                                  labels |-> {}, nudges |-> 0]]
          /\ jobs = [c \in Runners |-> IF c \in opened THEN Restarted(Idle, c) ELSE Idle]
          /\ backfill = [h \in People |-> NoBackfill]
          /\ wronged = PRs \ opened
          /\ rivals = [p \in PRs |-> {}]
          /\ events = 0 /\ commands = 0 /\ faults = 0

OpenedSpec == OpenedInit /\ [][Next]_vars

\* The order of the pull requests and that of the people do not matter.
Symmetric == Permutations(PRs) \cup Permutations(People)
==============================================================================
