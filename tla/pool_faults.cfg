SPECIFICATION FairSpec
CONSTANTS
    p1 = p1
    p2 = p2
    Workers = {p1, p2}
    NumRuns = 2
    MaxUnits = 1
    PerUnit = 1
    ResultLimit = 2
    BatchSize = 2
    QueueCap = 1
    Faults = {"exception", "crash", "partition"}
    MaxFaults = 1
    Impatient = FALSE
    LateTimeouts = TRUE
    PromptFeeder = TRUE
    ClosingRuns = {0, 1}

CHECK_DEADLOCK FALSE
PROPERTIES EveryRunEnds WorkersLeave
