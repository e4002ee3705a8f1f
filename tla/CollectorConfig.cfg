SPECIFICATION ConfigSpec
CONSTANTS
    MaxDevices = 2
    MaxAddr = 2
    HandleMax = 0
    TxCapacity = 3
    SendFaults <- NoFaults
    AppKinds <- NoApps
    Departures = TRUE
    MaxResets = 0
PROPERTY MembersAreConfigured
CHECK_DEADLOCK FALSE
