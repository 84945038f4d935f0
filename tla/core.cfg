SPECIFICATION HistorySpec
CONSTANTS
    Programs <- AllPrograms
    Streams <- AllStreams
    InstructionCount = 12
    MaxDepthLoopNesting = 5
    CounterModulus = 4
    DistributionCapacity = 2
INVARIANTS
    CountedInv
    TypeOK
    FlagsAreOpen
    ReplayIsHeld
    ThrowMeansOversized
    EveryReplaySeen
    DepthAssertHolds
    ExecutesMeaning
PROPERTIES
    ImplementsUnlimitedMemory
    Finishes
