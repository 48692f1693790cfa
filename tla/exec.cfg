CONSTANTS
    NumFrames = 17
    PoolCap = 3
    UserFramesMax = 2
    LoadFramesMax = 2
    CapTableSize = 1
    MaxProcesses = 4
    MaxPid = 6
    MaxFrames = 2
    MaxRequests = 2
    Grantees = {3, 4}
    UserPages = {4}
    CrashPage = 3
    FirstStaging = 5
    Quotas <- ExecQuota
    Images <- AllImages
    Path <- Layout
    KernelPath <- LowTables
    Segments <- OneSegment
    StackPages <- OneStack
SPECIFICATION MCSpec
INVARIANTS
    TypeOK
    FramesHaveOneUse
    
    CapabilitiesStayValid
    
