SPECIFICATION MCSpec
SYMMETRY Permuted
CONSTANTS
    Layouts <- MCLayouts
    Appended <- MCAppended
    Values = {0, 1}
    Addresses = {a1, a2}
    NoAddress = NoAddress
    MaxTime = 1
    MaxMissing = 1
    MaxKeywords = 2
    Bases <- MCBases
    UpperBases <- MCUpper
    Beginning <- MCBeginning
    ReportSets <- MCReports
    Strangers <- MCStrangers
    Extensions <- MCExtensions
    NoExt = NoExt
    NoBase = NoBase
    NoFile = NoFile
    MaxChanges = 3
    MaxClock = 1
INVARIANTS
    CacheCoherent
    FilesGoTogether
    LastWriteIsLoaded
PROPERTY
    SavesInPlace
