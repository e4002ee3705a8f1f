SPECIFICATION WebSpec
CONSTANTS
  Connections = {c1, c2}
  Collector = collector
  MaxBroadcasts = 2
  None = none
  Devices = {d1}
  Budgets <- BreakAndOther
  MaxListeners = 2
INVARIANTS ReachesAll FreedOnlyIfLate ShownIsTrue
PROPERTIES DeadAreFreed ErrorsAreMended
CHECK_DEADLOCK FALSE
