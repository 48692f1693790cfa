SPECIFICATION Spec
CONSTANTS
    Clients = {"shell", "app"}
    Requests <- MCRequests
    Noise <- MCNoise
    Hosts = {"a", "b"}
    Resolved <- MCResolved
    ARP_SIZE = 1
    TxMax = 1
    RxBufs = 2
    RxBytes = 1
    MboxCap = 1
    PingTime = 1
    ConnectTime = 2
    SeqMod = 4
    MaxAsks = 2
    MaxArrivals = 2
INVARIANTS AnsweredOnce HalfOpenWatched
PROPERTIES PingGenuine FramesRead RequestsAnswered
CHECK_DEADLOCK FALSE
