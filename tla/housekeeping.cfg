\* An older pull request, and a newer twin of it that people work on.
SPECIFICATION FairSpec
CONSTANTS
    PRs = {1, 2}
    Runs = {r1}
    Heads = {h1, h2}
    FirstHead = h1
    target <- MCTarget
    NoTarget = NoTarget
    NoBoard = NoBoard
    NoPR = NoPR
    NoHead = NoHead
    Boards <- MCBoards
    UsedFlags = {"keep", "draft", "budget"}
    Busy = {2}
    MaxMoves = 3
    MaxFaults = 1
PROPERTIES
    KeepSpares
    WorkIsNotRaced
    SpentIsReviewed
    OlderTwinStays
    NeverStranded
