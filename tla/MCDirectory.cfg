SPECIFICATION FairSpec
CONSTANTS
    d1 = d1
    d2 = d2
    NoDevice = NoDevice
    Devices <- TwoDevices
    Reports <- MCReports
    Refuses <- MCRefuses
    LastId = 2
    MaxNodes = 2
    MaxInFlight = 2
    MaxUpsets = 1
CHECK_DEADLOCK FALSE
INVARIANTS TypeOK ReceiverSurvives FailuresAreContained InfoIsCurrent InfoIsOfOneFirmware
PROPERTIES ImplementsInventory StaleLeave
