CONSTANTS
    Spelling <- MCSpelling
    Rank <- MCRank
    SpecialVars = {"TIME"}
    RateVars <- MCRateVars
    TotalVars <- MCTotalVars
    SegRateVars = {}
    SegTotalVars = {}
    Cases = {"run"}
    Copies = {"copy"}
    Foreign <- MCForeign
    Vars <- MCVars
    Defaults = {3}
    Values = {12}
    Joins = {":"}
    Dims <- MCDims
    Starts = {0, 24}
    DateHours <- MCDateHours
    StepHours = 24
    SampleTimes <- MCSampleTimes
    Limits = {6, 9, 18}
    DefaultOf = 55
    MaxVars = 2
    MaxSteps = 2
    MaxValues = 1
    MaxOnDisk = 2
SPECIFICATION Spec
INVARIANT
    ResampleClamps
CHECK_DEADLOCK FALSE
