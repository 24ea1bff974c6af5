SPECIFICATION FairSpec
CONSTANTS
    Rows = {r1}
    Msgs = {m1, m2}
    NoRow = NoRow
    Unchecked = {r1}
    Answers = {"data", "empty", "other", "request"}
    MAX_RETRY_LIMIT = 1
    MAX_RATE_LIMIT_RETRY_LIMIT = 1
    CeleryMaxRetries = 1
    MaxAttempt = 2
    MaxCalls = 2
    MaxLive = 1
    MaxFaults = 1
PROPERTIES AttemptsCoverRetries EveryRowSettles 
CHECK_DEADLOCK FALSE
