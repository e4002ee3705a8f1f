SPECIFICATION Spec
CONSTANTS
  Channels = {1, 2}
  MaxPan = 4
  FirstPan = 1
  Neighbours <- MCNeighbours
  Energies = {0, 1}
  MaxEnergy = 2
  Clients = {c1}
  Durations = {"off", "while", "on"}
  Keys = {"off", "on"}
  NoNet = NoNet
  MaxPermits = 2
  MaxFaults = 1
  MaxResets = 1
INVARIANTS NetworkIsProper PermitIsAskedFor
PROPERTY NetworkStarts
