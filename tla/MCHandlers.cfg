SPECIFICATION UnionSpec
CONSTANTS
    Actors = {a1, a2}
    Things = {t1, t2}
    Host = h
    Mates = {t1, t2}
    LfgCalls = {a1, a2}
    Posts = {p1, p2}
    Slots = 1
    MaxLfgCalls = 3
    MaxLfgFaults = 1
    POSTS_PER_DAY = 2
    None = None
    Emails = {t1, t2}
    Calls = {a1, a2}
    Caps = {0, 1}
    MaxWaitCalls = 6
    MaxInvites = 3
    MaxWaitFaults = 1
    Names = {n1, n2}
    Requests = {a1, a2}
    MaxRequests = 4
    MaxIssued = 2
    MaxNameChanges = 2
SYMMETRY Symmetric
INVARIANTS
    BoardSound
    RenamesSound
    
    CodesSound
    PresenceSound
    
    RollupsSound
CHECK_DEADLOCK FALSE
