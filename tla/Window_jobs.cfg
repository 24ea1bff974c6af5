SPECIFICATION Spec
CONSTANTS
    Jobs = {"USGS", "GDACS", "GLIDE", "PDC", "IFRC", "EMDAT"}
    Worlds <- MCWorlds
    Levels <- MCLevels
    Countries <- MCCountries
    Limit = 2
    Ticks = 2
    Size = 4
    Span = 1
    MaxTime = 4
    Years = 2
    MaxFaults = 1
INVARIANTS WindowTypeOK  
PROPERTIES DiveEnds 
CHECK_DEADLOCK FALSE
