SPECIFICATION UnionSpec
CONSTANTS
    None = None
    Replica = {a1, a2}
    Handler = {h1, h2}
    Background = {b1}
    Capacity = 1
    MaxFaults = 2
    Times <- ConstTimes
    Untimed <- ConstUntimed
    Launcher <- ConstNone
    Gap = 1
    Readers = {r1}
    BatchSize = 2
    BatchCap = 2
    MaxIngests = 2
    MaxDeletes = 0
    MaxRollupFaults = 0
    Viewers = {t1, t2}
    ShareCalls = {a1, a2}
    Scopes = {"full", "timeline"}
    FailingSteps <- ConstSteps
    MaxShareEvents = 4
    MaxNow = 1
    MaxShareFaults = 1
    CLUSTER_REPORT_THRESHOLD = 2
    Installs = {t1, t2}
    Users = {t1, t2}
    Desks = {a1, a2}
    COMMUNITY = community
    AUTO_FLAG_THRESHOLD = 2
    MaxDeskEvents = 4
    TfaCalls = {a1, a2}
    TOTP_MAX_FAILS = 1
    MaxSecrets = 2
    MaxSheets = 2
    MaxLinks = 1
    MaxTfaCalls = 5
    MaxTfaFaults = 1
    CredCalls = {a1, a2}
    MaxAddresses = 3
    MaxTokens = 3
    MaxPasswords = 2
    MaxPairings = 1
    MaxCredCalls = 3
    MaxCredTurns = 2
SYMMETRY Symmetric
INVARIANTS
    ChainLinked
    EntriesKept
    RollupsSound
    
    SubmissionsSound
    FactorSound
    CredentialsSound
PROPERTIES
    
    VerdictsKept
CHECK_DEADLOCK FALSE
