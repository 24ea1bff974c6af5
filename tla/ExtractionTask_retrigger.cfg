SPECIFICATION Spec
CONSTANTS
    Rows = {r1}
    Msgs = {m1, m2, m3}
    NoRow = NoRow
    Unchecked = {}
    Answers = {"data", "ratelimit", "request"}
    MAX_RETRY_LIMIT = 1
    MAX_RATE_LIMIT_RETRY_LIMIT = 2
    CeleryMaxRetries = 1
    MaxAttempt = 0
    MaxCalls = 2
    MaxLive = 2
    MaxFaults = 0
PROPERTIES RetriggerSparesSuccess
CHECK_DEADLOCK FALSE
