SPECIFICATION Spec
CONSTANTS
    MaxDevices = 2
    MaxAddr = 2
    HandleMax = 0
    TxCapacity = 1
    SendFaults <- NoFaults
    AppKinds <- AllApps
    Departures = FALSE
    MaxResets = 1
INVARIANT OneConfigSent
