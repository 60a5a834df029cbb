SPECIFICATION FairSpec
CONSTANTS
    Locations = {1, 2, 3}
    GroupCount = 2
    NoLocation = 0
    MinMembers = 3
    InitOutcomes = {TRUE}
    MaxCrashes = 2
INVARIANTS TypeOK RecordsAgree CompleteMeansAll PrimaryIsKnown AtMostOnePrimary
PROPERTIES ImplementsService ServiceRecovers
CHECK_DEADLOCK FALSE
