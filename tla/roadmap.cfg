\* A pull request, perhaps just opened, one more event, two runs by hand and two
\* failing calls.
\* It stops when nobody does anything any more.
CHECK_DEADLOCK FALSE
SPECIFICATION OpenedSpec
CONSTANTS
    a1 = a1
    Areas = {a1}
    NONE_LABEL = NONE_LABEL
    UNKNOWN_LABEL = UNKNOWN_LABEL
    NoLabel = NoLabel
    PRs = {p1}
    NoPR = NoPR
    People = {h1, h2}
    Tries = 2
    UsedInputs <- MCInputs
    HandLabels <- MCHandLabels
    MaxEvents = 1
    MaxCommands = 2
    MaxFaults = 2
SYMMETRY Symmetric
INVARIANTS
    SettledIsRight
    BackfillLeavesNoGap
    NudgesAreFew
