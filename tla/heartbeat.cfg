CONSTANTS
    BootPriorities <- BootPair
    MaxPid = 4
    MaxProcesses = 4
    QueueCap = 1
    TimeSlice = 2
    U64Max = 9
    RateMod = 1
    Yielders = {4}
    Sleepers = {1, 3}
    Timeouts = {1, 3}
    Period = 2
SPECIFICATION Spec
PROPERTIES
    TicksGoOn
    SleepersWake
    
