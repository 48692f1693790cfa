CONSTANTS
    Sectors = {"vbr", "dir", "a"}
    NChunks = 2
    DrvCap = 1
    MaxFaults = 1
    Clients = {"shell", "app"}
    Paths = {"a"}
    StaticFiles = {}
    StaticDirs = {}
    DiskFiles = {"a"}
    MAX_NODES = 1
    MAX_DATA = 1
    FDS_PER_PROC = 1
    MAX_FDS = 1
    U32Max = 1
    OpenFlags = {{}, {"read", "write", "creat", "append"}, {"write", "trunc"}}
    Spellings = {FALSE, TRUE}
    Offsets = {0}
SPECIFICATION Spec
INVARIANTS
    TypeOK
    DriverCacheRight
    
    SessionHasFile

    
CHECK_DEADLOCK FALSE
