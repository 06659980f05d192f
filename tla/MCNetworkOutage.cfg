SPECIFICATION FairSpec
CONSTANTS
    n1 = n1
    n2 = n2
    NoNode = NoNode
    Nodes <- TwoNodes
    Enumerating <- OneNode
    LastId = 4
    IspId = 2
    MayRefuse = TRUE
    MaxLosses = 1
    MaxUnplugs = 1
    MaxDowns = 1
CHECK_DEADLOCK FALSE
INVARIANT FreshStart
PROPERTY OutageIsOvercome
