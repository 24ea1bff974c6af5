SPECIFICATION FairSpec
CONSTANTS
    j1 = j1
    j2 = j2
    j3 = j3
    Transforms <- MCTransforms
    Rejected = {"new"}
    Unrated = {}
    Produces <- MCProducesOne
    Keys = {"k1"}
    Collections <- MCCollections
    CollectionOf <- MCCollectionOf
    HeldAtFirst = {"c2"}
    Jobs <- MCJobs
    Of <- MCOf
    CreateChunk = 2
    UpdateChunk = 2
    Batch = 2
    Limit = 2
    MaxRows = 2
    MaxErrors = 1
    MaxLosses = 1
INVARIANTS OnlyToHeldCollections NewestStands
PROPERTIES  EveryRowIsLoaded
