CONSTANTS
    BootPriorities <- BootTwoServers
    MaxPid = 4
    MaxProcesses = 4
    QueueCap = 1
    TimeSlice = 1
    U64Max = 9
    RateMod = 1
    Calls = {"recv", "call", "send"}
    Timeouts = {2, 9}
    Priorities = {}
    Periods = {}
    Budgets = {}
    Limits = {}
    Names = {}
    UartNames = {}
    MaxServices = 0
    Gsis = {}
    MaxBurst = 0
    RateWindow = 9
    BudgetFrame = 9
    MaxTick = 2
SPECIFICATION MCSpec
INVARIANTS
    TypeOK
    CpuAgrees
    NoLostWakeup
    SleepersAreSound
    NoCyclicWait
    NoSilentCycle
PROPERTIES
    WakeHasCause
    NoDirectInversion
