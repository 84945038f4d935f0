SPECIFICATION FairSpec
CONSTANTS
    DistributionCapacity = 1
    ReductionCapacity = 1
    IoWriteCapacity = 2
    IoReadCapacity = 1
    Rows = 4
    Value = {0, 1, 2, 10, 11, 20, 21, 30}
    Zero = 0
    Client = {"c1", "c2"}
    NoClient = "nobody"
    Kernels <- SharedKernels
    Programs <- FailingPrograms
PROPERTIES
    UnableToReadThrows
CHECK_DEADLOCK FALSE
