CONSTANTS
    BootPriorities <- BootOneServer
    MaxPid = 3
    MaxProcesses = 4
    QueueCap = 1
    TimeSlice = 2
    U64Max = 9
    RateMod = 3
    Calls = {"send", "recv", "setrt", "setquota"}
    Timeouts = {1}
    Priorities = {}
    Periods = {0, 1, 8}
    Budgets = {1}
    Limits = {1}
    Names = {}
    UartNames = {}
    MaxServices = 0
    Gsis = {}
    MaxBurst = 0
    RateWindow = 2
    BudgetFrame = 2
    MaxTick = 2
SPECIFICATION MCSpec
PROPERTIES
    EarliestDeadlineFirst
    
