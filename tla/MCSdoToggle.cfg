SPECIFICATION Spec
CONSTANTS
    t1 = t1
    t2 = t2
    o1 = o1
    o2 = o2
    short = short
    brief = brief
    long = long
    even = even
    other = other
    none = none
    Tasks <- OneTask
    Objects <- OneObject
    Volatile <- OneObject
    Values <- LongOther
    Size <- MCSize
    ExpeditedSize = 1
    PacketSize = 2
    NoObject = none
    MayLose = TRUE
    MayBeLate = TRUE
    MaxInFlight = 4
CHECK_DEADLOCK FALSE
PROPERTIES
    ToggleMismatchEndsRead
