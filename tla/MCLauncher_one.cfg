SPECIFICATION FairSpec
CONSTANTS
    d1 = d1
    d2 = d2
    Devices <- OneDevice
    Rssi <- OneStronger
    NewRssi <- MCNewRssi
    MaxConnectAttempts = 2
    SkipList <- NoSkips
    Enabled <- AllToggles
    Faults <- AllFaults
    MaxLines = 3
    Absent = Absent
    Nobody = Nobody
INVARIANTS
    TypeOK
    KnownDevices
    CheckedEntryStays
PROPERTIES
    ImplementsFairSchedule
    TablesDrain
