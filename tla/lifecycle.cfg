CONSTANTS
    BootPriorities <- BootOneServer
    MaxPid = 5
    MaxProcesses = 4
    QueueCap = 1
    TimeSlice = 1
    U64Max = 9
    RateMod = 1
    Calls = {"spawn", "exit", "fault", "register", "recv", "irq_register", "uart"}
    Timeouts = {9}
    Priorities = {2}
    Periods = {}
    Budgets = {}
    Limits = {}
    Names = {"uart-drv"}
    UartNames = {"uart-drv"}
    MaxServices = 2
    Gsis = {1}
    MaxBurst = 1
    RateWindow = 9
    BudgetFrame = 9
    MaxTick = 1
SPECIFICATION MCSpec
INVARIANTS
    StacksConserved
    
