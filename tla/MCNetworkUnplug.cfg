SPECIFICATION FairSpec
CONSTANTS
    n1 = n1
    n2 = n2
    NoNode = NoNode
    Nodes <- TwoNodes
    Enumerating <- TwoNodes
    LastId = 5
    IspId = 2
    MayRefuse = FALSE
    MaxLosses = 0
    MaxUnplugs = 1
    MaxDowns = 0
CHECK_DEADLOCK FALSE
PROPERTY AlwaysListing
