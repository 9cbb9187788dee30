SPECIFICATION Spec
CONSTANTS
    d1 = d1
    d2 = d2
    Devices <- TwoDevices
    Rssi <- OneStronger
    NewRssi <- MCNewRssi
    MaxConnectAttempts = 1
    SkipList <- NoSkips
    Enabled <- DefaultToggles
    Faults <- NoFaults
    MaxLines = 4
    Absent = Absent
    Nobody = Nobody
INVARIANTS
    CheckedEntryStays
    BleVendorMoveKeepsDevice
PROPERTIES
    ImplementsSchedule
SYMMETRY DeviceSymmetry
