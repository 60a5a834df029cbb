SPECIFICATION Spec
CONSTANTS
    Locations = {a, b}
    NoLocation = NoLocation
    InitialCoordinator = a
    Oids <- Oid2
    InitialOids <- Oid1
    Changes <- UpdateOrRemoveX
    MaxTx = 2
    SynchModes = {TRUE, FALSE}
    TimelyNetwork = FALSE
    TimerOverlaps = TRUE
    MaxInProgress = 2
    MaxDone = 2
    MaxAttempts = 2
    MaxLosses = 0
    MaxCrashes = 0
INVARIANTS TypeOK PreparedStaysApplicable ConflictsSerialized OnlyCommittedIsApplied
CHECK_DEADLOCK FALSE
