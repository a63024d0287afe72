SPECIFICATION Spec
CONSTANTS
    ann = ann
    bob = bob
    p1 = p1
    p2 = p2
    ta = ta
    None = None
    Members = {ann, bob}
    Tasks = {ta}
    Ops = {p1}
    TaskOf <- MCTaskOf
    OwnerOf <- MCOwnerOf
    RecentLimit = 1
    MaxLogins = 2
    MaxExpired = 2
    MaxChanges = 2
CHECK_DEADLOCK FALSE
INVARIANTS
    TypeOK
    OwnItems
    ButtonHasRequest
PROPERTIES
    ActiveStaysShown
