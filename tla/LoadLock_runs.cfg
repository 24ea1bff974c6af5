SPECIFICATION FairSpec
CONSTANTS
    Runs = {w1, w2, w3}
    Expire = 4
    Margin = 1
    TimeLimit = 3
INVARIANTS TypeOK MutualExclusion
PROPERTIES DeletesOwnKey LockIsFreedAgain ImplementsOneLoader
