SPECIFICATION Spec
CONSTANTS
    Locations = {a, b, c}
    NoLocation = NoLocation
    InitialCoordinator = a
    Oids <- Oid2
    InitialOids <- Oid1
    Changes <- UpdateX
    MaxTx = 2
    SynchModes = {FALSE}
    TimelyNetwork = TRUE
    TimerOverlaps = FALSE
    MaxInProgress = 2
    MaxDone = 2
    MaxAttempts = 1
    MaxLosses = 0
    MaxCrashes = 0
INVARIANTS ReplicasEqual
CHECK_DEADLOCK FALSE
