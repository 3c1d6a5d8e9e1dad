\* One call at a time and one failure: the tuple of an expired share is not deleted.
CONSTANTS
    Viewers = {v1, v2}
    ShareCalls = {c1}
    Scopes = {"full", "timeline"}
    MaxShareEvents = 4
    MaxNow = 1
    FailingSteps = {"lazy_share"}
    MaxShareFaults = 1
    CLUSTER_REPORT_THRESHOLD = 2
SPECIFICATION ShareSpec
INVARIANT RevokeRetried
CHECK_DEADLOCK FALSE
