SPECIFICATION Spec
CONSTANTS
    CourseFiles = {c1, c2}
    PeriodFiles = {p1}
    CourseContents <- MCCourseContents
    PeriodContents <- MCPeriodContents
    Missing = Missing
    Broken = Broken
    FaultScenarios <- MCChangesInSession
    MaxLoads = 3
    MaxChanges = 2
    MaxRestarts = 0
INVARIANTS
    SuccessIsCurrent
CHECK_DEADLOCK FALSE
