\* Expected to fail: jobs of two heads, and no failure.
CHECK_DEADLOCK FALSE
SPECIFICATION Spec
CONSTANTS
    Heads = {"h1", "h2"}
    FirstHead = "h1"
    Contents = {c1, c2}
    FirstContent = c1
    UsedReviews = {"pending", "approved"}
    NoRequest = NoRequest
    MaxChanges = 3
    MaxFaults = 0
INVARIANT
    OnePost
