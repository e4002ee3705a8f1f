SPECIFICATION CsfSpec
CONSTANTS
  Window = 3
  MaxCounter = 10
  WriteFails = TRUE
  Targets = {d1, d2}
  FirstDevice = d1
  Images = {f1, f2, f3}
  FirstImage = f1
  NoImage = NoImage
  Slots = 2
  ImgIds = 3
  MaxRetries = 1
  MaxCommands = 3
  Devices = {d1, d2, d3}
  MaxDevices = 3
  MaxShort = 5
  MaxStarts = 3
  MaxResets = 1
  CrashAnywhere = TRUE
  None = none
  AsyncChannels = {1, 2}
  Hopping = Hopping
  Timings <- MCTimings
  Heard <- MCHeard
  MaxHeard = 2
  MaxRestarts = 1
INVARIANTS AckedAreBehind ServedIsOffered AddressesAreUnique EveryDeviceIsServed WhoWaitsIsTimed
PROPERTIES UpdatesAreReset NobodyIsForgotten
CHECK_DEADLOCK FALSE
