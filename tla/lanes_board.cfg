SPECIFICATION Spec
CONSTANTS
    RegisterBits = 3
    VectorLength = 4
    Registers = {0, 1, 2, 3, 4, 5, 6, 31}
    Rows = {0, 1, 2}
    Kernels <- Summing
INVARIANT
    BoardResultsAreExtended
