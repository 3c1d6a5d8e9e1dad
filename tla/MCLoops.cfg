SPECIFICATION UnionSpec
CONSTANTS
    Actors = {a1, a2}
    Things = {t1, t2}
    None = None
    Planets = {"p1", "p2"}
    Shops = {"s1"}
    Ticks = {0, 1, 4}
    TicksPerSec = 2
    DeathSecs = 1
    ShopSecs = 1
    Capacity = 3
    MaxLog <- LogLengths
    MaxInferFaults = 1
    Missions <- ContractIds
    Objectives = {"o1", "o2"}
    Shards = {"s1", "s2"}
    Instants = {1, 2, 4}
    SessionGapSecs = 1
    MaxStream <- StreamLengths
    Orders = {t1}
    Hooks = {a1, a2}
    MaxRepeats = 1
    MaxDonateFaults = 2
INVARIANTS
    
    DonationsSound
    RenamesSound
    
    
    
    FoldsSound
PROPERTIES
    GrantsAsPromised
    LoopsConverge
    OwedIsDone
CHECK_DEADLOCK FALSE
