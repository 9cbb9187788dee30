SPECIFICATION FairSpec
CONSTANTS
    LineUnits = 2
    Breaks <- OneBreak
    MaxStarts = 2
    MaxUnits = 3
INVARIANTS
    TypeOK
    SleepsCaughtUp
    OrderlyStart
PROPERTIES
    ReadsOnce
    EverythingProcessed
CHECK_DEADLOCK FALSE
