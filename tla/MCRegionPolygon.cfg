SPECIFICATION Spec
CONSTANTS
    NX = 2
    NY = 1
    NZ = 2
    NActive = 3
    IndexMap <- PlainIndexMap
    InvIndexMap <- PlainInvIndexMap
    Keywords <- PlainKeywords
    Limits <- MCLimits
    Depth <- MCDepth
    Volume <- MCVolume
    Thickness <- MCThickness
PROPERTY CacheInvisible
