SPECIFICATION WellSpec
CONSTANTS
    Keywords <- MCKeywords
    OtherKeywords <- MCOther
    SEQNUM = "SEQNUM"
    INTEHEAD = "INTEHEAD"
    NoName = "none"
    MaxKeywords = 4
    MaxOccurence = 2
    Blocks <- MCBlocks
    Dir <- MCDir
    GridLgrs <- MCLgrs
    MaxLoads = 2
INVARIANTS
    KwAtTimeWhenRegular
    TimelineOfReports
    ConnectionsOfGrid
    BranchesFromStart
PROPERTY
    StepsFound
CHECK_DEADLOCK FALSE
