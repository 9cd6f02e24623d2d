\* Two names, four files, two densities, PVT regions 0 and 2; how many calls each file allows is
\* in MCGravity.tla.
SPECIFICATION MCSpec
CONSTANTS
    NX = 2
    NY = 1
    NZ = 2
    NActive = 3
    IndexMap <- PlainIndexMap
    InvIndexMap <- PlainInvIndexMap
    Keywords <- PlainKeywords
    Limits <- MCLimits
    Depth <- MCDepth
    Volume <- MCVolume
    Thickness <- MCThickness
    InitFiles <- MCInitFiles
    Names = {base, monitor}
    Actives <- MCActives
    Densities = {2, 3}
    Pvtnums = {0, 2}
    Regions <- MCSelections
    Masks <- MCMasks
    NoSurvey = NoSurvey
    NoRegion = NoRegion
SYMMETRY MCSymmetry
INVARIANTS
    AnswerCurrent
    DensitiesAsGiven
    EvaluationsOfCells
PROPERTY
    CacheInvisibleUnlessStale
