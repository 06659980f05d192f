SPECIFICATION FairSpec
CONSTANTS
    t1 = t1
    t2 = t2
    o1 = o1
    o2 = o2
    short = short
    brief = brief
    long = long
    even = even
    other = other
    none = none
    Tasks <- TwoTasks
    Objects <- OneObject
    Volatile <- OneObject
    Values <- ShortEven
    Size <- MCSize
    ExpeditedSize = 1
    PacketSize = 2
    NoObject = none
    MayLose = TRUE
    MayBeLate = FALSE
    MaxInFlight = 3
INVARIANTS
    TypeOK
    ReadIsFresh
    WriteTookEffect
    OneAtATime
PROPERTIES
    CallsEnd
    ImplementsStore
