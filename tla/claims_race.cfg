\* Expected to fail: a takeover between the listing and the deletion.
SPECIFICATION Spec
CONSTANTS
    NoLease = NoLease
    Foreign = Foreign
    Workers = {w1, w2}
    Keys = {k1}
    TTL = 1
    Margin = 1
    Skew = 1
    Grace = 1
    MaxTime = 4
PROPERTY SweepSparesHolders
