SPECIFICATION FairSpec
CONSTANTS
    Screens <- AppScreens
    Home = "input"
    MaxSample = 3
    MaxIterations = 4
    KMin = 1
    KMax = 3
    Counts <- RunCounts
    Sampled <- Draws
    Score <- Scores
    Requests <- Texts
    DefaultConfig <- TwoFamilies
    Ks = {3}
    MaxClicks = 5
    NumWorkers = 2
INVARIANTS
    TypeOK
    FamiliesDivideSample
    AnswersItsRequest
    ShownBelongsToFamily
    VisitIsCompleteUnlessLate
CHECK_DEADLOCK FALSE
PROPERTIES BusyEnds
