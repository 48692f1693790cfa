CONSTANTS
    BootPriorities <- BootLevels
    MaxPid = 4
    MaxProcesses = 4
    QueueCap = 1
    TimeSlice = 2
    U64Max = 9
    RateMod = 1
    Yielders = {3, 4}
    Sleepers = {1}
    Timeouts = {1}
    Period = 2
SPECIFICATION Spec
PROPERTIES
    SleepersWake
