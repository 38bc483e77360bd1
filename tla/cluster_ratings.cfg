SPECIFICATION Spec
CONSTANTS
    Scale = 60
    DaysPerWeek = 7
    FamilyScale = 6
    Slots <- RunSlots
    Exams <- Placed
    CoreMetrics <- Metrics
    Batches <- Runs
    Sampled <- Draws
    Words <- Keywords
    Replies <- Answers
    CacheLimit = 1
    NumWorkers = 2
    MaxRequests = 3
INVARIANT RatingsFollowScores
CHECK_DEADLOCK FALSE
