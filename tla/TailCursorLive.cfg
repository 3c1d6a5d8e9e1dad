SPECIFICATION FairSpec
CONSTANTS
    MaxFiles = 2
    MaxLines = 2
    SigLines = 2
    BurstMin = 2
    MaxGap = 0
    ChunkLines = 2
    CarryLines = 1
    Faults <- ConstTailRead
    MaxFaults = 1
    MaxStarts = 2
PROPERTIES
    LiveLineStored
    ArchiveRecovered
CHECK_DEADLOCK FALSE
