SPECIFICATION Spec
CONSTANTS
    Rows = {r1}
    Msgs = {m1, m2}
    NoRow = NoRow
    Unchecked = {}
    Answers = {"data", "empty", "other", "nodata", "ratelimit", "request"}
    MAX_RETRY_LIMIT = 3
    MAX_RATE_LIMIT_RETRY_LIMIT = 10
    CeleryMaxRetries = 3
    MaxAttempt = 4
    MaxCalls = 2
    MaxLive = 1
    MaxFaults = 0
INVARIANTS RetriesAreGranted
CHECK_DEADLOCK FALSE
