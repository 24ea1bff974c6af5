SPECIFICATION Spec
CONSTANTS
    N = 2
    Runs = {w1}
    a1 = a1
    a2 = a2
    b = b
    Contents <- MCContents
    Impacts = {"A", "B"}
    Impact <- MCImpact
    NoBody = NoBody
    NoHash = NoHash
    Found = {TRUE}
    MaxRetries = 3
    MaxStarts = 1
    MaxLosses = 1
    MaxFailures = 0
INVARIANTS ChangedIsTransformed
CHECK_DEADLOCK FALSE
