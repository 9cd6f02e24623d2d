SPECIFICATION MCSpec
CONSTANTS
    NX = 3
    NY = 3
    Layouts <- MCLayouts
    Values = {0, 1, 2}
    BarrierLines <- MCBarrierLines
    MaxChanges = 2
    Ids = {1, 3}
    Added <- MCAdded
    Keywords <- MCKeywords
    Lines <- MCLines
    Inactive <- MCInactive
    MaxCalls = 4
INVARIANTS
    UpdatesConnected
    OutlineOfBlock
    BlockMapExact
    AttachedWhileStored
    NeighboursMutual
    ScanPartitions
PROPERTY
    CallsReturn
