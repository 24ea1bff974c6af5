SPECIFICATION Spec
CONSTANTS
    j1 = j1
    j2 = j2
    j3 = j3
    Transforms <- MCTransforms
    Rejected = {}
    Unrated = {"old"}
    Produces <- MCProduces
    Keys = {"k1", "k2"}
    Collections <- MCCollections
    CollectionOf <- MCCollectionOf
    HeldAtFirst = {"c2"}
    Jobs <- MCTwins
    Of <- MCTwinsOf
    CreateChunk = 2
    UpdateChunk = 2
    Batch = 2
    Limit = 3
    MaxRows = 4
    MaxErrors = 0
    MaxLosses = 1
INVARIANTS TypeOK OldestFirstOnce NewestStands 
SYMMETRY Symmetry
