SPECIFICATION Spec
CONSTANTS
    MaxFiles = 2
    MaxLines = 3
    SigLines = 1
    BurstMin = 2
    MaxGap = 0
    ChunkLines = 2
    CarryLines = 1
    Faults <- ConstFaults
    MaxFaults = 1
    MaxStarts = 2
INVARIANTS
    TypeOK
    
    TailCursorCovers
    BackfillCovers
    BurstsWhole
CHECK_DEADLOCK FALSE
