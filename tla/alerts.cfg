\* One alert of each kind of detector, and two failures.
SPECIFICATION FairSpec
CONSTANTS
    issue = issue
    wf = wf
    Keys = {issue, wf}
    Prefixes = {"review-stuck", "dead-scheduler"}
    key_prefix <- MCPrefix
    Swallowing = {"dead-scheduler"}
    Assuming = {"review-stuck"}
    Bodies = {b1, b2}
    Quiet = Quiet
    MaxChanges = 3
    MaxFaults = 2
PROPERTIES
    ImplementsBoard
    FailsClosed
    OneNoticePerEmergency
    TopicConverges
