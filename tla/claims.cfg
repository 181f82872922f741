\* Two workers and a sweep on one claim, clocks one unit apart.
SPECIFICATION FairSpec
CONSTANTS
    NoLease = NoLease
    Foreign = Foreign
    Workers = {w1, w2}
    Keys = {k1}
    TTL = 2
    Margin = 1
    Skew = 1
    Grace = 1
    MaxTime = 5
INVARIANTS
    CondemnedIsUnheld
PROPERTIES
    ImplementsLocks
    ForeignSpared
    DeadLeaseIsSwept
