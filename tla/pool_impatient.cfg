SPECIFICATION Spec
CONSTANTS
    p1 = p1
    p2 = p2
    Workers = {p1, p2}
    NumRuns = 2
    MaxUnits = 1
    PerUnit = 1
    ResultLimit = 1
    BatchSize = 1
    QueueCap = 1
    Faults = {}
    MaxFaults = 0
    Impatient = TRUE
    LateTimeouts = FALSE
    PromptFeeder = TRUE
    ClosingRuns = {}
SYMMETRY WorkerSymmetry
CHECK_DEADLOCK FALSE
INVARIANT SavedWasRecorded
PROPERTIES ImplementsExclusiveRuns
