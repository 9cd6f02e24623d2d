\* Two names, four files, two densities, PVT regions 0 and 2; how many calls each file allows is
\* in MCGravity.tla.
SPECIFICATION GravitySpec
CONSTANTS
    InitFiles <- MCInitFiles
    Names = {base, monitor}
    Actives <- MCActives
    Densities = {2, 3}
    Pvtnums = {0, 2}
    Regions <- MCSelections
    Masks <- MCMasks
    NoSurvey = NoSurvey
    NoRegion = NoRegion
SYMMETRY MCSymmetry
INVARIANT
    GridOnlyAtConstruction
