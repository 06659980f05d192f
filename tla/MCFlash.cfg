SPECIFICATION FairSpec
CONSTANTS
    n1 = n1
    n2 = n2
    n3 = n3
    NoNode = NoNode
    Nodes <- ThreeNodes
    MaxId = 3
    Sectors = 4
    Blocks <- MCBlocks
    Bootable <- TwoNodes
    MaxJobs = 2
    MaxRepeats = 1
    MaxLosses = 1
    MaxCycles = 1
    MaxFaults = 1
CHECK_DEADLOCK FALSE
INVARIANTS
    TypeOK
    ConfigSurvives
    BlocksInPlace
PROPERTIES
    OnlyTargetWritten
    DoneMeansFlashed
    UpdatedComesBack
    JobsEnd
