SPECIFICATION Spec
CONSTANTS
    RegisterBits = 4
    VectorLength = 8
    Registers <- AllRegisters
    Rows <- SixRows
    Programs <- AllPrograms
INVARIANTS
    WideSums
    CarryIsLeft
    WideShifts
    ProductIsExact
    DivisionWithRest
    MaximumEverywhere
    PrefixSums
    SortedWhenStopped
