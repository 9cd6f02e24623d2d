SPECIFICATION Spec
CONSTANTS
    UnifiedFiles <- MCUnifiedFiles
    SeparateFiles <- MCSeparateFiles
    FirstSteps = {1, 2}
    Garbage <- MCGarbage
    MaxSteps = 3
    MaxTime = 4
    MaxReport = 3
    MaxCases = 3
INVARIANTS
    IndexFollowsData
    TimelineJoined
    SearchFindsFirst
    ReportsWhenRegular
PROPERTY
    CallsReturn
