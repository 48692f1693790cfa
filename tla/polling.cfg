CONSTANTS
    BootPriorities <- BootOneServer
    MaxPid = 3
    MaxProcesses = 4
    QueueCap = 2
    TimeSlice = 2
    U64Max = 9
    RateMod = 1
    Calls = {"yield", "recv", "recv_msg", "call", "send", "notify", "setprio"}
    Timeouts = {0, 2, 9}
    Priorities = {2}
    Periods = {}
    Budgets = {}
    Limits = {}
    Names = {}
    UartNames = {}
    MaxServices = 0
    Gsis = {}
    MaxBurst = 0
    RateWindow = 9
    BudgetFrame = 9
    MaxTick = 3
SPECIFICATION MCSpec
PROPERTIES
    MessagesKept
