SPECIFICATION ScreenSpec
CONSTANTS
    CourseFiles = {c1, c2}
    PeriodFiles = {p1}
    CourseContents <- MCCourseContents
    PeriodContents <- MCPeriodContents
    Missing = Missing
    Broken = Broken
    FaultScenarios <- MCScenarios
    ProgramOf <- MCProgramOf
    MaxPrograms = 1
    Rules = {"cap"}
    Ks = {1}
    Days = {2, 5}
    MaxLoads = 3
    MaxChanges = 2
    MaxRestarts = 1
    MaxClicks = 6
INVARIANTS
    ScreenTypeOK
    SuccessMeansLoaded
    ReplaceIsFresh
    CacheHoldsItsFiles
    RunGetsWhatIsWanted
    ScreenShowsState
    NothingNewMeansSame
PROPERTIES
    UpdateMerges
SYMMETRY
    Symmetry
CHECK_DEADLOCK FALSE
