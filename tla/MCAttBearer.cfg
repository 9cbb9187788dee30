SPECIFICATION FairSpec
CONSTANTS
    Chans <- TwoChannels
    FirstChan = "first"
    TopLevel = 2
    MaxOps = 2
INVARIANTS
    TypeOK
    OneFate
    ToldUnlessDropped
    InOnePlace
PROPERTIES
    EveryOpSettles
CHECK_DEADLOCK FALSE
