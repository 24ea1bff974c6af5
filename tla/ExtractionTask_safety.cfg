SPECIFICATION Spec
CONSTANTS
    Rows = {r1}
    Msgs = {m1, m2, m3}
    NoRow = NoRow
    Unchecked = {}
    Answers = {"data", "other", "nodata", "ratelimit", "request"}
    MAX_RETRY_LIMIT = 1
    MAX_RATE_LIMIT_RETRY_LIMIT = 2
    CeleryMaxRetries = 1
    MaxAttempt = 0
    MaxCalls = 1
    MaxLive = 2
    MaxFaults = 1
SYMMETRY Symmetry
INVARIANTS TypeOK StrandedOnlyIfAbandoned
CHECK_DEADLOCK FALSE
