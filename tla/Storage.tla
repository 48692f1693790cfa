------------------------------ MODULE Storage ------------------------------
(***************************************************************************)
(* The VFS server (servers/vfs/src) on top of the block driver: the        *)
(* mutable overlay, the file descriptor table, the legacy write session,   *)
(* and the FAT32 layer with its one-sector cache.                          *)
(*                                                                         *)
(* The server handles one request at a time.  A request that needs the     *)
(* disk suspends it in SYS_CALL, and SYS_CALL takes whatever message comes *)
(* first as the reply.  A path can be spelled with a slash at its end,     *)
(* which only the descriptor table tells apart.  A file's data is its      *)
(* length in chunks, and the disk has a boot sector, one directory sector  *)
(* and one sector per file.                                                *)
(***************************************************************************)
EXTENDS BlockDriver, FiniteSets

CONSTANTS Clients, Paths,
          StaticFiles, StaticDirs,  \* paths of the read-only tree
          DiskFiles,                \* paths on the FAT32 volume
          MAX_NODES, MAX_DATA,      \* overlay entries, chunks per file
          FDS_PER_PROC, MAX_FDS,
          U32Max,                   \* where an fd offset saturates
          OpenFlags, Offsets,       \* arguments of OP_OPEN and OP_SEEK
          Spellings                 \* may a path end in a slash: {FALSE, TRUE}

ASSUME StorageAssumption ==
    /\ Sectors = {"vbr", "dir"} \cup DiskFiles
    /\ {StaticFiles, StaticDirs, DiskFiles} \subseteq SUBSET Paths
    /\ "block-drv" \notin Clients

VARIABLES
    NODES,      \* overlay: path -> [kind, dlen]
    TABLE,      \* <<client, fd>> -> [path, slash, oflags, offset]
    WS,         \* the write session: [path, offset]
    BLK_PROBED, \* "no", "found" or "missing": the cached lookup of block-drv
    fat_valid,  \* the boot sector has been parsed
    sec_clba,   \* the sector the cache is labelled with
    sec_cache,  \* the sector whose bytes each chunk of the cache holds
    job,        \* the request suspended on the disk
    strayed     \* history: a call of this instance got another answer than its own

fat_vars == <<BLK_PROBED, fat_valid, sec_clba, sec_cache>>
file_vars == <<NODES, TABLE, WS>>
vars == <<block_vars, file_vars, fat_vars, job, strayed>>

NoPath == "none"
Free == [kind |-> "free", dlen |-> 0]
Closed == [path |-> NoPath, slash |-> FALSE, oflags |-> {}, offset |-> 0]
NoSession == [path |-> NoPath, offset |-> 0]
NoFd == FDS_PER_PROC
Fds == 0 .. FDS_PER_PROC - 1
Empty == [k \in Chunks |-> NoSector]
NoJob == [client |-> "none", path |-> NoPath, fd |-> NoFd, data |-> FALSE,
          lba |-> NoSector, total |-> 0, waiting |-> FALSE, good |-> TRUE]

NoNodes == [p \in Paths |-> Free]
NoFds == [x \in Clients \X Fds |-> Closed]

Init ==
    /\ BlockInit
    /\ NODES = NoNodes
    /\ TABLE = NoFds
    /\ WS = NoSession
    /\ BLK_PROBED = "no"
    /\ fat_valid = FALSE
    /\ sec_clba = NoSector
    /\ sec_cache = Empty
    /\ job = NoJob
    /\ strayed = FALSE

-----------------------------------------------------------------------------
(* Clients and the death of the server.                                    *)

\* A client has at most one request on its way; it asks again when its last
\* one was answered or lost.  A request that finds the server waiting for one
\* is taken at once (Takes); this is the one that has to queue.
ClientSends(c) ==
    /\ job # NoJob \/ vfs_mbox # << >>
    /\ job.client # c
    /\ \A i \in DOMAIN vfs_mbox : vfs_mbox[i].from # c
    /\ Fault
    /\ vfs_mbox' = Append(vfs_mbox, Request(c))
    /\ UNCHANGED <<registered, drv_mbox, drv_state, drv_edge, drv_vars, ring_vars,
                   vfs, broken, file_vars, fat_vars, job, strayed>>

\* The server dies and init starts a new instance under a new PID, with the
\* memory of a new program.
Restart ==
    /\ Fault
    /\ vfs' = vfs + 1
    /\ vfs_mbox' = << >>
    /\ NODES' = NoNodes
    /\ TABLE' = NoFds
    /\ WS' = NoSession
    /\ BLK_PROBED' = "no"
    /\ fat_valid' = FALSE
    /\ sec_clba' = NoSector
    /\ sec_cache' = Empty
    /\ job' = NoJob
    /\ strayed' = FALSE
    /\ UNCHANGED <<registered, drv_mbox, drv_state, drv_edge, drv_vars, ring_vars,
                   broken>>

-----------------------------------------------------------------------------
(* Requests that the overlay and the tables answer.                        *)

Takes(c) ==
    /\ job = NoJob
    /\ \/ vfs_mbox = << >> /\ UNCHANGED vfs_mbox
       \/ /\ vfs_mbox # << >>
          /\ Head(vfs_mbox).from = c
          /\ vfs_mbox' = Tail(vfs_mbox)
    /\ UNCHANGED <<registered, drv_mbox, drv_state, drv_edge, drv_vars, ring_vars,
                   vfs, broken, faults, strayed>>

Handles(c) == Takes(c) /\ UNCHANGED <<fat_vars, job>>

\* An error, OP_MOUNT, or a read or stat the overlay answers: no state changes.
Answer(c) == Handles(c) /\ UNCHANGED file_vars

Exists(p) == NODES[p] # Free
CanAlloc(p) == Exists(p) \/ Cardinality({q \in Paths : Exists(q)}) < MAX_NODES
Alloc(p, kind) == IF Exists(p) THEN NODES[p] ELSE [kind |-> kind, dlen |-> 0]
Longer(n, end) == IF end > n.dlen THEN [n EXCEPT !.dlen = end] ELSE n

handle_write_open(c, p) ==
    /\ Handles(c)
    /\ p \notin StaticDirs
    /\ NODES[p].kind # "dir"
    /\ CanAlloc(p)
    /\ NODES' = [NODES EXCEPT ![p] = [kind |-> "file", dlen |-> 0]]
    /\ WS' = [path |-> p, offset |-> 0]
    /\ UNCHANGED TABLE

\* Mutant: the limit is off by one.
WriteDataPastEnd(c) ==
    /\ Handles(c)
    /\ WS # NoSession
    /\ WS.offset <= MAX_DATA
    /\ NODES' = [NODES EXCEPT ![WS.path] = Longer(@, WS.offset + 1)]
    /\ WS' = [WS EXCEPT !.offset = @ + 1]
    /\ UNCHANGED TABLE

handle_write_data(c) ==
    /\ Handles(c)
    /\ WS # NoSession
    /\ WS.offset + 1 <= MAX_DATA
    /\ NODES' = [NODES EXCEPT ![WS.path] = Longer(@, WS.offset + 1)]
    /\ WS' = [WS EXCEPT !.offset = @ + 1]
    /\ UNCHANGED TABLE

handle_write_close(c) ==
    /\ Handles(c)
    /\ WS # NoSession
    /\ WS' = NoSession
    /\ UNCHANGED <<NODES, TABLE>>

handle_mkdir(c, p) ==
    /\ Handles(c)
    /\ p \notin StaticFiles
    /\ CanAlloc(p)
    /\ NODES' = [NODES EXCEPT ![p] = Alloc(p, "dir")]
    /\ UNCHANGED <<TABLE, WS>>

\* Descriptors are compared by the bytes of the path.
free_all_path(p, slash) ==
    [x \in DOMAIN TABLE |->
        IF TABLE[x].path = p /\ TABLE[x].slash = slash THEN Closed ELSE TABLE[x]]

\* Mutant: the write session survives.
UnlinkKeepsSession(c, p, slash) ==
    /\ Handles(c)
    /\ TABLE' = free_all_path(p, slash)
    /\ NODES' = [NODES EXCEPT ![p] = Free]
    /\ UNCHANGED WS

handle_unlink(c, p, slash) ==
    /\ Handles(c)
    /\ WS' = IF WS.path = p THEN NoSession ELSE WS
    /\ TABLE' = free_all_path(p, slash)
    /\ NODES' = [NODES EXCEPT ![p] = Free]

FreeFds(c) == {f \in Fds : TABLE[c, f] = Closed}
Lowest(S) == CHOOSE f \in S : \A g \in S : f <= g
TableFull == Cardinality({x \in DOMAIN TABLE : TABLE[x] # Closed}) = MAX_FDS

\* The overlay entry of p once an OP_OPEN with these flags has been accepted.
Opened(p, fl) ==
    LET n == IF "creat" \in fl THEN Alloc(p, "file") ELSE NODES[p]
    IN  IF "trunc" \in fl THEN [n EXCEPT !.dlen = 0] ELSE n

MayOpen(p, fl) ==
    IF "write" \in fl THEN IF "creat" \in fl THEN CanAlloc(p) ELSE Exists(p)
                      ELSE Exists(p) \/ p \in StaticFiles \cup StaticDirs

\* When no descriptor is left the entry has already been created or emptied.
handle_open(c, p, slash, fl) ==
    /\ Handles(c)
    /\ MayOpen(p, fl)
    /\ NODES' = IF "write" \in fl THEN [NODES EXCEPT ![p] = Opened(p, fl)] ELSE NODES
    /\ TABLE' = IF FreeFds(c) = {} \/ TableFull THEN TABLE
                ELSE [TABLE EXCEPT ![<<c, Lowest(FreeFds(c))>>] =
                        [path |-> p, slash |-> slash, oflags |-> fl,
                         offset |-> IF "append" \in fl THEN NODES'[p].dlen ELSE 0]]
    /\ UNCHANGED WS

handle_close(c, f) ==
    /\ Handles(c)
    /\ TABLE[c, f] # Closed
    /\ TABLE' = [TABLE EXCEPT ![<<c, f>>] = Closed]
    /\ UNCHANGED <<NODES, WS>>

Advance(x) == [TABLE EXCEPT ![x].offset = IF @ < U32Max THEN @ + 1 ELSE @]

Readable(e) == e # Closed /\ ("read" \in e.oflags \/ "write" \notin e.oflags)
Writable(e) == e # Closed /\ "write" \in e.oflags

\* OP_READ_FD of a file of the overlay.
handle_read_fd(c, f) ==
    /\ Handles(c)
    /\ Readable(TABLE[c, f])
    /\ NODES[TABLE[c, f].path].kind = "file"
    /\ TABLE[c, f].offset < NODES[TABLE[c, f].path].dlen
    /\ TABLE' = Advance(<<c, f>>)
    /\ UNCHANGED <<NODES, WS>>

handle_write_fd(c, f) ==
    /\ Handles(c)
    /\ Writable(TABLE[c, f])
    /\ Exists(TABLE[c, f].path)
    /\ LET e == TABLE[c, f]
           write_at == IF "append" \in e.oflags THEN NODES[e.path].dlen ELSE e.offset
       IN  /\ write_at + 1 <= MAX_DATA
           /\ NODES' = [NODES EXCEPT ![e.path] = Longer(@, write_at + 1)]
    /\ TABLE' = Advance(<<c, f>>)
    /\ UNCHANGED WS

handle_seek(c, f, o) ==
    /\ Handles(c)
    /\ TABLE[c, f] # Closed
    /\ TABLE' = [TABLE EXCEPT ![<<c, f>>].offset = o]
    /\ UNCHANGED <<NODES, WS>>

-----------------------------------------------------------------------------
(* Requests that reach the FAT32 layer.                                    *)

\* What the static tree, the last layer, does to the descriptor of the job.
StaticRead(j) ==
    IF j.fd # NoFd /\ j.path \in StaticFiles /\ TABLE[j.client, j.fd].offset < 1
      THEN Advance(<<j.client, j.fd>>) ELSE TABLE

\* read_sector(l) starts.
Fetch(j, l) == [j EXCEPT !.lba = l, !.total = 0, !.waiting = FALSE, !.good = TRUE]

\* lookup in the cached directory sector, then read_sec for the data.
Lookup(j, cache) ==
    IF j.path \in DiskFiles /\ j.data /\ cache[0] = "dir"
      THEN job' = Fetch(j, j.path) /\ UNCHANGED TABLE
      ELSE /\ job' = NoJob
           /\ TABLE' = IF j.path \in DiskFiles /\ cache[0] = "dir"
                         THEN TABLE ELSE StaticRead(j)

\* The volume is mounted: the directory comes from the cache or the disk.
Mounted(j) ==
    IF sec_clba = "dir" THEN Lookup(j, sec_cache)
                        ELSE job' = Fetch(j, "dir") /\ UNCHANGED TABLE

\* OP_READ, OP_STAT, OP_READDIR (fd = NoFd), OP_READ_FD and OP_FSTAT: the
\* overlay has no such entry; data says whether bytes of the file are wanted.
StartDisk(c, p, f, data) ==
    LET found == IF BLK_PROBED = "no" THEN registered ELSE BLK_PROBED = "found"
        j == [NoJob EXCEPT !.client = c, !.path = p, !.fd = f, !.data = data]
    IN  /\ Takes(c)
        /\ ~Exists(p)
        /\ BLK_PROBED' = IF found THEN "found" ELSE "missing"
        /\ \/ found /\ fat_valid /\ Mounted(j)
           \/ found /\ ~fat_valid /\ job' = Fetch(j, "vbr") /\ UNCHANGED TABLE
           \/ ~found /\ job' = NoJob /\ TABLE' = StaticRead(j)
        /\ UNCHANGED <<NODES, WS, fat_valid, sec_clba, sec_cache>>

ReadPath(c, p) == \E data \in BOOLEAN : StartDisk(c, p, NoFd, data)
ReadOpenFile(c, f) ==
    /\ Readable(TABLE[c, f])
    /\ StartDisk(c, TABLE[c, f].path, f, TABLE[c, f].offset < 1)
StatOpenFile(c, f) ==
    /\ TABLE[c, f] # Closed
    /\ StartDisk(c, TABLE[c, f].path, NoFd, FALSE)

\* read_sector has failed: the file counts as not found on the volume.
Fail == job' = NoJob /\ TABLE' = StaticRead(job)

\* One SYS_CALL of read_sector, up to the point where the server blocks.
Call ==
    /\ job # NoJob
    /\ ~job.waiting
    /\ IF DriverFull
         THEN /\ Fail
              /\ strayed' = TRUE
              /\ UNCHANGED <<drv_mbox, drv_state, drv_edge, faults>>
         ELSE /\ ToDriver(Read(vfs, job.lba, job.total))
              /\ IF SaysDeadlock THEN Fault ELSE UNCHANGED faults
              /\ strayed' = (strayed \/ SaysDeadlock)
              /\ IF SaysDeadlock THEN Fail
                 ELSE job' = [job EXCEPT !.waiting = TRUE] /\ UNCHANGED TABLE
    /\ UNCHANGED <<registered, drv_vars, ring_vars, vfs, vfs_mbox, broken, NODES,
                   WS, fat_vars>>

\* A chunk is stored where the server expects it, whatever it is (the bytes of
\* another chunk are nobody's there); the last one completes the sector.
StoreChunk(m) ==
    LET bytes == IF m.chunk = job.total THEN m.buf ELSE NoSector
        right == job.good /\ bytes = job.lba
        last == job.total + 1 = NChunks
        cache == IF job.lba = "vbr" THEN sec_cache
                 ELSE [sec_cache EXCEPT ![job.total] = bytes]
    IN  /\ sec_cache' = cache
        /\ sec_clba' = IF last /\ job.lba # "vbr" THEN job.lba ELSE sec_clba
        /\ fat_valid' = (fat_valid \/ (last /\ job.lba = "vbr" /\ right))
        /\ \/ /\ ~last
              /\ job' = [job EXCEPT !.total = @ + 1, !.waiting = FALSE, !.good = right]
              /\ UNCHANGED TABLE
           \/ last /\ job.lba = "vbr" /\ (IF right THEN Mounted(job) ELSE Fail)
           \/ last /\ job.lba = "dir" /\ Lookup(job, cache)
           \/ /\ last /\ job.lba \notin {"vbr", "dir"}
              /\ job' = NoJob
              /\ TABLE' = IF job.fd = NoFd THEN TABLE
                          ELSE Advance(<<job.client, job.fd>>)

\* Mutant: read_sector does not look at the kind of the reply.
TakeAnyReply ==
    /\ job.waiting
    /\ vfs_mbox # << >>
    /\ StoreChunk(Head(vfs_mbox))
    /\ strayed' = (strayed \/ Head(vfs_mbox).from # "block-drv")
    /\ vfs_mbox' = Tail(vfs_mbox)
    /\ UNCHANGED <<registered, drv_mbox, drv_state, drv_edge, drv_vars, ring_vars,
                   vfs, broken, faults, NODES, WS, BLK_PROBED>>

\* SYS_CALL returns with the first message of the mailbox.
TakeReply ==
    /\ job.waiting
    /\ vfs_mbox # << >>
    /\ LET m == Head(vfs_mbox) IN
       /\ strayed' = (strayed \/ m.from # "block-drv")
       /\ IF m.ok THEN StoreChunk(m)
          ELSE Fail /\ UNCHANGED <<fat_valid, sec_clba, sec_cache>>
    /\ vfs_mbox' = Tail(vfs_mbox)
    /\ UNCHANGED <<registered, drv_mbox, drv_state, drv_edge, drv_vars, ring_vars,
                   vfs, broken, faults, NODES, WS, BLK_PROBED>>

\* A late reply reaches the dispatch loop: ENOSYS goes back to the driver.
LateReply ==
    /\ job = NoJob
    /\ vfs_mbox # << >>
    /\ Head(vfs_mbox).from = "block-drv"
    /\ vfs_mbox' = Tail(vfs_mbox)
    /\ IF DriverFull THEN UNCHANGED <<drv_mbox, drv_state, drv_edge>>
                     ELSE ToDriver(Unknown(vfs))
    /\ UNCHANGED <<registered, drv_vars, ring_vars, vfs, broken, faults, file_vars,
                   fat_vars, job, strayed>>

-----------------------------------------------------------------------------
DriverMoves == DriverStep /\ UNCHANGED <<file_vars, fat_vars, job, strayed>>
HardwareMoves == Hardware /\ UNCHANGED <<file_vars, fat_vars, job, strayed>>

Next ==
    \/ DriverMoves
    \/ HardwareMoves
    \/ Restart
    \/ Call
    \/ TakeReply
    \/ LateReply
    \/ \E c \in Clients :
         \/ ClientSends(c)
         \/ Answer(c)
         \/ handle_write_data(c)
         \/ handle_write_close(c)
         \/ \E p \in Paths :
              \/ handle_write_open(c, p)
              \/ handle_mkdir(c, p)
              \/ ReadPath(c, p)
              \/ \E slash \in Spellings :
                   \/ handle_unlink(c, p, slash)
                   \/ \E fl \in OpenFlags : handle_open(c, p, slash, fl)
         \/ \E f \in Fds :
              \/ handle_close(c, f)
              \/ handle_read_fd(c, f)
              \/ handle_write_fd(c, f)
              \/ ReadOpenFile(c, f)
              \/ StatOpenFile(c, f)
              \/ \E o \in Offsets : handle_seek(c, f, o)

VfsMoves == Call \/ TakeReply
DeviceAnswers == (DeviceCompletes \/ DeviceFails \/ Interrupt)
                 /\ UNCHANGED <<file_vars, fat_vars, job, strayed>>

\* The scheduler runs the driver and the server again and again, and the
\* device answers its requests and gets its interrupts taken.
Spec == /\ Init /\ [][Next]_vars
        /\ WF_vars(DriverMoves) /\ WF_vars(VfsMoves) /\ WF_vars(DeviceAnswers)

-----------------------------------------------------------------------------
(* Properties.                                                             *)

Messages(froms) ==
    [from : froms, ok : BOOLEAN, buf : Sectors \cup {NoSector}, chunk : Chunks]

\* Every variable has its type; the tables stay within their capacities.
TypeOK ==
    /\ drv_mbox \in Seq([op : {"read", "irq", "unknown"}, sender : Pids,
                         lba : Sectors \cup {NoSector}, chunk : Chunks])
    /\ Len(drv_mbox) <= DrvCap
    /\ vfs_mbox \in Seq(Messages(Clients \cup {"block-drv"}))
    /\ drv_state \in {"running", "blocked"}
    /\ drv_edge \in Pids /\ vfs \in Pids \ {NoPid}
    /\ PENDING_IO \in [sender : Pids, lba : Sectors \cup {NoSector}, chunk : Chunks]
    /\ {CACHE.lba, CACHE.buf, BLK_REQ, SECTOR_BUF, sec_clba}
         \subseteq Sectors \cup {NoSector}
    /\ BLK_STATUS \in {"pending", "ok", "error"}
    /\ posted \in Seq(Sectors) /\ unseen \in Nat
    /\ {registered, isr, broken, fat_valid, strayed} \subseteq BOOLEAN
    /\ NODES \in [Paths -> [kind : {"free", "file", "dir"}, dlen : 0 .. MAX_DATA]]
    /\ Cardinality({p \in Paths : Exists(p)}) <= MAX_NODES
    /\ \A x \in DOMAIN TABLE : TABLE[x].offset \in 0 .. U32Max
    /\ Cardinality({x \in DOMAIN TABLE : TABLE[x] # Closed}) <= MAX_FDS
    /\ WS.path \in Paths \cup {NoPath} /\ WS.offset \in 0 .. MAX_DATA
    /\ BLK_PROBED \in {"no", "found", "missing"}

\* The driver's sector cache holds the sector it is labelled with, whatever
\* the order of requests, interrupts of other devices, device errors and
\* deaths of the VFS server: handle_read never posts a second request over
\* the one in flight, and handle_irq_completion pairs the buffer with the
\* request that filled it.
DriverCacheRight == CACHE.buf = CACHE.lba

\* Between two requests the VFS server's own sector cache holds the sector it
\* is labelled with, as long as every SYS_CALL of this instance got the
\* driver's answer to it: an error then comes on the first chunk, before
\* read_sector has overwritten anything.
VfsCacheRight ==
    job = NoJob /\ ~strayed /\ sec_clba # NoSector =>
        sec_cache = [k \in Chunks |-> sec_clba]

\* The write session, which every client shares, names a file of the overlay,
\* also when another client removes the path and makes it a directory in
\* between: handle_unlink closes the session before it frees the node.
SessionHasFile == WS # NoSession => NODES[WS.path].kind = "file"

\* The VFS server returns to its loop from every request, unless the device
\* has reported an error or the driver's mailbox has dropped its interrupt:
\* the driver then answers nobody any more.
VfsReturns == job # NoJob ~> job = NoJob \/ broken

\* Not properties of the code.  block-drv/src/main.rs:386 assumes that no read
\* arrives while one is in flight; vfs/src/fd.rs:210 says that a descriptor of
\* a removed file becomes invalid.
NoSecondRead ==
    PENDING_IO.sender # NoPid =>
        \A i \in DOMAIN drv_mbox : drv_mbox[i].op # "read"
WritersHaveFile ==
    \A x \in DOMAIN TABLE : Writable(TABLE[x]) => Exists(TABLE[x].path)
=============================================================================
