SPECIFICATION RollupSpec
CONSTANTS
    Times <- ConstTimes
    Untimed <- ConstNone
    Launcher <- ConstNone
    Gap = 1
    r1 = r1
    r2 = r2
    Readers = {r1, r2}
    BatchSize = 2
    BatchCap = 2
    MaxIngests = 2
    MaxDeletes = 0
    MaxRollupFaults = 0
INVARIANT PurgeRecomputes
CHECK_DEADLOCK FALSE
