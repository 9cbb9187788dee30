SPECIFICATION FairSpec
CONSTANTS
    Radios <- BothRadios
    Slots = 4
    MaxRuns = 4
INVARIANTS
    TypeOK
    OneToolAtWork
    OnlyTimeoutsLeak
PROPERTIES
    ToolsEnd
    ForkFailureResolved
CHECK_DEADLOCK FALSE
