SPECIFICATION Spec
CONSTANTS
    r1 = r1
    r2 = r2
    p1 = p1
    p2 = p2
    Requests <- TwoRequests
    Pins <- TwoPins
    NoOne = none
    MaxCommands = 2
    MaxUpsets = 0
CHECK_DEADLOCK FALSE
PROPERTY ToggleInverts
