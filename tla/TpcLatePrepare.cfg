SPECIFICATION Spec
CONSTANTS
    Locations = {a, b, c}
    NoLocation = NoLocation
    InitialCoordinator = a
    Oids <- Oid2
    InitialOids <- Oid1
    Changes <- InsertY
    MaxTx = 1
    SynchModes = {FALSE}
    TimelyNetwork = FALSE
    TimerOverlaps = FALSE
    MaxInProgress = 2
    MaxDone = 2
    MaxAttempts = 2
    MaxLosses = 1
    MaxCrashes = 1
INVARIANTS AllOrNothing
CHECK_DEADLOCK FALSE
