SPECIFICATION FairSpec
CONSTANTS
    ann = ann
    bob = bob
    p1 = p1
    p2 = p2
    ta = ta
    None = None
    Members = {ann}
    Tasks = {ta}
    Ops = {p1, p2}
    TaskOf <- MCTaskOf
    OwnerOf <- MCOwnerOf
    RecentLimit = 1
    MaxLogins = 1
    MaxExpired = 0
    MaxChanges = 1
CHECK_DEADLOCK FALSE
PROPERTIES
    CompletionRecorded
    ListSettles
