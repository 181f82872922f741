\* Two heads, two contents, and a job that may fail.
\* It stops when nothing happens on GitHub any more and no job is pending.
CHECK_DEADLOCK FALSE
SPECIFICATION FairSpec
CONSTANTS
    Heads = {"h1", "h2"}
    FirstHead = "h1"
    Contents = {c1, c2}
    FirstContent = c1
    UsedReviews = {"pending", "approved"}
    NoRequest = NoRequest
    MaxChanges = 3
    MaxFaults = 1
INVARIANTS
    SettledIsRight
    OnePostPerHead
PROPERTIES
    NoLatePost
    CreateIsHonoured
