SPECIFICATION FairSpec
CONSTANTS
    Top = 12
    Devices <- AllDevices
    Faults <- FaultKinds
INVARIANTS
    TypeOK
    ReadsInOrder
    LoggedUnderOwnHandle
    OneRequestPerDiscovery
PROPERTIES
    ReadsSettle
CHECK_DEADLOCK FALSE
