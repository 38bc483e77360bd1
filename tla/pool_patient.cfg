SPECIFICATION Spec
CONSTANTS
    p1 = p1
    p2 = p2
    Workers = {p1, p2}
    NumRuns = 2
    MaxUnits = 2
    PerUnit = 2
    ResultLimit = 3
    BatchSize = 2
    QueueCap = 2
    Faults = {}
    MaxFaults = 0
    Impatient = FALSE
    LateTimeouts = TRUE
    PromptFeeder = TRUE
    ClosingRuns = {}
SYMMETRY WorkerSymmetry
CHECK_DEADLOCK FALSE
INVARIANTS TypeOK CapHolds FinishedMeansSearched FinishedMeansSaved
