SPECIFICATION Spec
CONSTANTS
    RegisterBits = 16
    VectorLength = 16
    Calls <- AllCalls
    Surroundings <- ZerosAndOthers
INVARIANTS
    NodesDoWhatTheKernelDoes
    ProductsAreRounded
    SumsAreClose
