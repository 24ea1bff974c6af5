SPECIFICATION SourcesSpec
CONSTANTS
    Chosen = {"DISASTERCHARTER", "GDACS", "USGS", "PDC", "CEMS", "IFRC", "GFD", "EMDAT", "GLIDE", "IDU", "GIDD", "IBTRACS", "DESINVENTAR"}
    Items <- MCItems
    RetryLimit = 1
    RateLimit = 2
    CeleryRetries = 1
    Workers = 2
    MaxFaults = 2
    MaxRetriggers = 1
    Days = 2
    PagedDays = 2
    Errored = {"e"}
    Catalog <- MCCatalog
    Areas <- MCAreas
    Vaps <- MCVaps
    Datasets <- MCDatasets
    GdacsQueries = {"history"}
    Listed <- MCListed
    Episodes <- MCEpisodes
    ShapeOf <- MCShapeOf
    ImpactOf <- MCImpactOf
    Quakes <- MCQuakes
    Products <- MCProducts
    Pages <- MCPages
    Hazards <- MCHazards
    Exposures <- MCExposures
    CemsPages <- MCCemsPages
    Codes <- MCCodes
    IfrcPages <- MCIfrcPages
    OnePage <- MCOnePage
INVARIANTS
    FanOutTypeOK
    NothingStuck
    CharterTransformFires
    CharterContentFed
    GdacsEventFed
    
    
    
    
    PagesFollowed
    
CHECK_DEADLOCK FALSE
