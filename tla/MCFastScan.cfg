SPECIFICATION FairSpec
CONSTANTS
    Last = 1
    High = 1
    Addresses <- FewNodes
    Cached <- OneCached
    Buses <- GoodOrLossy
    RangeMask <- MCRange
    MaxUnplugs = 1
INVARIANTS
    TypeOK
    OnlyFoundTakesId
PROPERTIES
    FoundIsSelected
    FullScanFinds
    EveryNodeGetsId
