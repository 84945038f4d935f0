SPECIFICATION FairSpec
CONSTANTS
    DistributionCapacity = 2
    ReductionCapacity = 1
    IoWriteCapacity = 2
    IoReadCapacity = 1
    Rows = 4
    Value = {0, 1, 2, 3, 4, 7, 10, 11, 20, 21, 30}
    Zero = 0
    Client = {"c1", "c2", "c3"}
    NoClient = "nobody"
    Kernels <- AllKernels
    Programs <- AllPrograms
INVARIANTS
    TypeOK
    AnswersAreSequential
    FinishedMeansSized
    ReadsOneKernel
PROPERTIES
    SizedFinishes
    TransfersAreAtomic
    TransfersReturn
CHECK_DEADLOCK FALSE
