SPECIFICATION MCSpec
CHECK_DEADLOCK FALSE
CONSTANTS
    Size = 4
    c1 = c1
    c2 = c2
    NoGroup = NoGroup
    Groups = {c1, c2}
    CoarseGroup <- TwoGroups
    DualPorosity = TRUE
    MaxUpdates = 3
    Cases <- MCCases
    Actnums <- MCActnums
    Units = {"METRIC", "FIELD"}
    Targets = {"EGRID", "GRID"}
    Inputs = {"OTHER", "UNRST", "FUNRST"}
    MaxWrites = 1
    MaxNncs = 2
    Sources <- MCSources
    Removed <- MCRemoved
    Places <- MCPlaces
    Starts <- MCStarts
    MaxChanges = 4
INVARIANTS
    RoundTrip
    GridsComeBack
    ConnectionsComeBack
    CellsTile
    PlacesFound
    GeometryComesBack
