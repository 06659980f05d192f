SPECIFICATION FairSpec
CONSTANTS
    t1 = t1
    t2 = t2
    o1 = o1
    o2 = o2
    short = short
    brief = brief
    long = long
    even = even
    other = other
    none = none
    Tasks <- OneTask
    Objects <- TwoObjects
    Volatile <- OneObject
    Values <- ShortBrief
    Size <- MCSize
    ExpeditedSize = 1
    PacketSize = 2
    NoObject = none
    MayLose = TRUE
    MayBeLate = TRUE
    MaxInFlight = 2
CHECK_DEADLOCK FALSE
PROPERTIES
    ExpeditedReadIsOfItsObject
    CallsEnd
