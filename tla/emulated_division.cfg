SPECIFICATION Spec
CONSTANTS
    RegisterBits = 4
    VectorLength = 8
    Registers <- AllRegisters
    Rows <- SixRows
    Programs <- DivisionPrograms
INVARIANT
    DividesLikeC
