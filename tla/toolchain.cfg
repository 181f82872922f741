\* Main bumped from an old release, perhaps bumped again, and one fault.
\* It stops when people do nothing any more and no job runs.
CHECK_DEADLOCK FALSE
SPECIFICATION BumpedSpec
CONSTANTS
    Releases = {1, 2, 3}
    Nightly = 0
    Earliest = 2
    NoCommit = NoCommit
    OffMain = OffMain
    Nothing = Nothing
    MaxCommits = 3
    MaxMoves = 3
    MaxFaults = 1
PROPERTIES
    TagIsPromise
    OnlyNewsIsPosted
    WaitedForIsReported
    ReportsEnd
