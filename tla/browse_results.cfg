SPECIFICATION FairSpec
CONSTANTS
    Writers = {1, 2}
    Schedules = {"s1", "s2", "s3"}
    Orders <- UserOrders
    BatchSizes = {1, 2}
    MaxCount = 3
    Criteria = {"gap", "spread"}
    Score <- ScoreOf
    WindowSize = 2
    NumPeriods = 2
    Screens = {"input", "output", "clusters"}
    Home = "input"
    NumRuns = 2
    MaxClicks = 3
    Findings <- FoundBatches
INVARIANTS TypeOK ShownIsSelected SettledPageIsSlice ResultsReachable CountedAreStored
PROPERTIES RepositorySteps RunningEnds
CHECK_DEADLOCK FALSE
