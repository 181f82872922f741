\* The hourly sweep next to the jobs of a same-repository pull request.
SPECIFICATION FairSpec
CONSTANTS
    NoBoard = NoBoard
    NoHead = NoHead
    Heads = {h1}
    PRs = {p1}
    Forks = {}
    Boards <- MCLegacyApproval
    PostedStates = {"success"}
    Sweeping = TRUE
    Sharing = FALSE
    Dispatching = TRUE
    MaxFaults = 1
PROPERTIES
    Converges
    SweepHeals
