CONSTANTS
    LongNames = {"LONG"}
    NumericBlock = 2
    CharBlock = 3
    ColumnsOf <- MCColumns
    Starts <- MCStarts
    Names = {"PORV", "REG"}
    Values0 <- MCValues
    Strings <- MCStrings
    MaxSize = 4
    Slices <- MCSlices
    MaxValue = 4
    Nx = 3
    Ny = 2
    Keywords <- MCFileKeywords
    MaxKeywords = 2
    MaxCuts = 1
SPECIFICATION MCSpec
INVARIANTS
    WholeOrNothing
    SeekFindsFirst
    FixSettles
    TextComesBack
CHECK_DEADLOCK FALSE
