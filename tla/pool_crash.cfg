SPECIFICATION Spec
CONSTANTS
    p1 = p1
    p2 = p2
    Workers = {p1, p2}
    NumRuns = 2
    MaxUnits = 1
    PerUnit = 1
    ResultLimit = 2
    BatchSize = 1
    QueueCap = 2
    Faults = {"crash"}
    MaxFaults = 1
    Impatient = FALSE
    LateTimeouts = TRUE
    PromptFeeder = TRUE
    ClosingRuns = {}
SYMMETRY WorkerSymmetry
CHECK_DEADLOCK FALSE
INVARIANT OnlyThatRunIsAbandoned
