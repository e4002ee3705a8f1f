SPECIFICATION TrackingSpec
CONSTANTS
    MaxDevices = 2
    MaxAddr = 2
    HandleMax = 0
    TxCapacity = 2
    SendFaults <- NoFaults
    AppKinds <- NoApps
    Departures = FALSE
    MaxResets = 0
PROPERTY MembersAreTracked
