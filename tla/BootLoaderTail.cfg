SPECIFICATION CommonSpec
CONSTANTS
    Threads = {main, served, client}
    Nobody = Nobody
    MaxDepth = 2
    Patient = {main}
    Setters = {s1, s2}
    Timers = {t1, t2, t3}
    Alarms = {joinClk, configClk}
    NoTimer = NoTimer
    Times = 12
    Settings <- MCSettings
    Minute = 4
    MaxLate = 2
    MaxPuts = 1
    Tasks <- SmallTasks
    PageSize = 4
    NumPages = 3
    MaxTransfer = 2
    BufferSize = 5
    MaxFaults = 2
INVARIANT ProgramsTheFile
SYMMETRY ClockSymmetry
