CONSTANTS
    BootOrder <- UartAndShell
    Critical = {"uart-drv"}
    MAX_RESTARTS = 1
    LOG_ENTRIES = 2
    Warmup = 1
    Pids <- ThreePids
    MaxBeats = 1
    MaxReads = 1
    LogSeqs = {0, 2}
    MaxLog = 3
    QueueCapacity = 2
    None = None
    Message <- Messages
SPECIFICATION Spec
INVARIANTS
    TypeOK
    OneInstance
    CriticalAccounted
    LogWindow
PROPERTIES
    CrashAnswered
    MailboxIsFifo
CHECK_DEADLOCK FALSE
