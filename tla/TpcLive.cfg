SPECIFICATION FairSpec
CONSTANTS
    Locations = {a, b, c}
    NoLocation = NoLocation
    InitialCoordinator = a
    Oids <- Oid2
    InitialOids <- Oid1
    Changes <- UpdateX
    MaxTx = 2
    SynchModes = {TRUE, FALSE}
    TimelyNetwork = TRUE
    TimerOverlaps = FALSE
    MaxInProgress = 2
    MaxDone = 2
    MaxAttempts = 1
    MaxLosses = 1
    MaxCrashes = 1
PROPERTIES RequestAnsweredByCohorts PreparedResolved RecoveryTerminates
CHECK_DEADLOCK FALSE
