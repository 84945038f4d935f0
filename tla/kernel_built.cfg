SPECIFICATION PassSpec
CONSTANTS
    Operation <- SmallOperation
    Tags = {1, 2}
    Trips = {2}
    CheckForDataHazards = TRUE
    MaxDepthLoopNesting = 3
    JumpRange = 16
    MaxInstructions = 11
    NestedLoops = {0, 1}
    MemorySize = 9
INVARIANTS
    TypeOK
    BuiltIsNested
    NoHazardLeft
    LoopsKeepTheirMeaning
CHECK_DEADLOCK FALSE
