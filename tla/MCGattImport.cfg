SPECIFICATION Spec
CONSTANTS
    Devices <- TwoDevices
    Lines <- SomeLines
    Order <- ByBytes
    MaxImports = 3
    MaxChanges = 1
INVARIANTS
    TypeOK
    OneTypePerRun
    ReadIsStored
    OwnTypeUnlessMixed
PROPERTIES
    RepeatAddsNothing
CHECK_DEADLOCK FALSE
