\* The jobs of one fork pull request, its head moving between two commits.
SPECIFICATION Spec
CONSTANTS
    NoBoard = NoBoard
    NoHead = NoHead
    Heads = {h1, h2}
    PRs = {p1}
    Forks = {p1}
    Boards <- MCBlocked
    PostedStates = {"success"}
    Sweeping = FALSE
    Sharing = TRUE
    Dispatching = FALSE
    MaxFaults = 1
SYMMETRY HeadsSymmetry
INVARIANTS
    AtMostOneLabel
    SettledIsRight
