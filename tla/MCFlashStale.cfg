SPECIFICATION Spec
CONSTANTS
    n1 = n1
    n2 = n2
    n3 = n3
    NoNode = NoNode
    Nodes <- TwoNodes
    MaxId = 3
    Sectors = 4
    Blocks <- MCBlocks
    Bootable <- TwoNodes
    MaxJobs = 2
    MaxRepeats = 1
    MaxLosses = 0
    MaxCycles = 0
    MaxFaults = 1
CHECK_DEADLOCK FALSE
PROPERTY ButtonUpdatesItsNode
