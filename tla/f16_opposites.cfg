SPECIFICATION Spec
CONSTANTS
    RegisterBits = 16
    VectorLength = 16
    Calls <- OppositeCalls
    Surroundings <- ZerosAndOthers
INVARIANT
    OppositesCancel
