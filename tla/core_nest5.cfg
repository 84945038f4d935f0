SPECIFICATION Spec
CONSTANTS
    Streams <- FiveDeepStreams
    InstructionCount = 40
    MaxDepthLoopNesting = 10
    CounterModulus = 4
    DistributionCapacity = 3
INVARIANT
    EveryReplaySeen
