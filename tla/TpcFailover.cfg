SPECIFICATION Spec
CONSTANTS
    Locations = {a, b, c}
    NoLocation = NoLocation
    InitialCoordinator = a
    Oids <- Oid2
    InitialOids <- Oid1
    Changes <- ChangesXY
    MaxTx = 2
    SynchModes = {TRUE, FALSE}
    TimelyNetwork = TRUE
    TimerOverlaps = FALSE
    MaxInProgress = 2
    MaxDone = 2
    MaxAttempts = 1
    MaxLosses = 1
    MaxCrashes = 2
INVARIANTS HonestOutcome Agreement AllOrNothing CommittedSurvives BackupsEqual
PROPERTIES CommitRecordIsFinal ImplementsAtomicCommit
CHECK_DEADLOCK FALSE
