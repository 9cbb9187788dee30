SPECIFICATION Spec
CONSTANTS
    Top = 12
    Devices <- SmallDevice
    Faults <- NoFaults
INVARIANTS
    ExitAwaitsReads
CHECK_DEADLOCK FALSE
