SPECIFICATION Spec
CONSTANTS
    RegisterBits = 4
    VectorLength = 8
    MaxJumps = 2
    Regions <- AllRegions
INVARIANTS
    NothingIsReordered
    ReadsTheSameValues
