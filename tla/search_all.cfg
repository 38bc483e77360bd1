SPECIFICATION FairSpec
CONSTANTS
    Inputs <- MCInputs
INVARIANTS
    TypeOK
    IndexesAgree
    CacheIsFresh
    InfeasibleMeansImpossible
    ScoresFollowSchedule
    SortingAgreesWithFiltering
PROPERTIES
    ImplementsEnumeration
CHECK_DEADLOCK FALSE
