SPECIFICATION Spec
CONSTANTS
  Devices = {d1, d2}
  MaxDevices = 3
  MaxShort = 5
  MaxStarts = 3
  MaxResets = 1
  CrashAnywhere = FALSE
  None = none
PROPERTY UnusedIndexIsUnused
CHECK_DEADLOCK FALSE
