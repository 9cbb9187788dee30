SPECIFICATION FairSpec
CONSTANTS
    Top = 12
    Devices <- VendorDevice
    Faults <- NoFaults
PROPERTIES
    SessionEnds
CHECK_DEADLOCK FALSE
