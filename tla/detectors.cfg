\* Every threshold two hours but the pin's, and a
\* window of two runs of main.
\* It stops when the bounds are reached.
CHECK_DEADLOCK FALSE
SPECIFICATION WorldSpec
CONSTANTS
    STRANDED_HOURS = 2
    EVICTION_LOOP_MIN = 2
    EVICTION_WINDOW_HOURS = 2
    MISSING_STATUS_HOURS = 2
    BUMP_STUCK_HOURS = 2
    PIN_STALE_HOURS = 3
    FKB_STALE_HOURS = 2
    SCHEDULER_HOURS = 2
    MAIN_CI_WINDOW = 2
    Scopes = {"library", "pin"}
    Never = Never
    MaxHeads = 2
    MaxTime = 3
    MaxEvents = 4
INVARIANTS
    StrandedIsRight
    EvictionsAreCounted
    MissingIsWedged
    RedIsKept
    BumpWedgeIsSeen
    DeadCronIsSeen
PROPERTY NothingFadesAway
