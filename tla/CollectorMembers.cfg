SPECIFICATION Spec
CONSTANTS
    MaxDevices = 2
    MaxAddr = 2
    HandleMax = 1
    TxCapacity = 1
    SendFaults <- AllFaults
    AppKinds <- NoApps
    Departures = TRUE
    MaxResets = 0
INVARIANTS OneTracked RoundIsTimed GateWillOpen
CHECK_DEADLOCK FALSE
