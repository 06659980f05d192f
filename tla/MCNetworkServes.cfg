SPECIFICATION FairSpec
CONSTANTS
    n1 = n1
    n2 = n2
    NoNode = NoNode
    Nodes <- TwoNodes
    Enumerating <- TwoNodes
    LastId = 5
    IspId = 2
    MayRefuse = FALSE
    MaxLosses = 0
    MaxUnplugs = 2
    MaxDowns = 0
CHECK_DEADLOCK FALSE
INVARIANTS TypeOK ListedIsAddressed
PROPERTIES EveryNodeListed GoneLeaveList ShutdownEnds
