SPECIFICATION FairSpec
CONSTANTS
    N = 2
    Runs = {w1, w2}
    a1 = a1
    a2 = a2
    b = b
    Contents <- MCContents
    Impacts = {"A", "B"}
    Impact <- MCImpact
    NoBody = NoBody
    NoHash = NoHash
    Found = {TRUE}
    MaxRetries = 1
    MaxStarts = 1
    MaxLosses = 1
    MaxFailures = 1
INVARIANTS TypeOK NoChangeIsTrue CleanlyTransformed
PROPERTIES BatchSettles
CHECK_DEADLOCK FALSE
