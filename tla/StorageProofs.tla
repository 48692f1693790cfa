--------------------------- MODULE StorageProofs ---------------------------
(***************************************************************************)
(* The block driver's sector cache holds the sector it is labelled with.   *)
(* The argument: a request is posted only when none is in flight, so the   *)
(* device always works on the request that PENDING_IO describes, and a     *)
(* completion the driver has not seen yet belongs to it.                   *)
(***************************************************************************)
EXTENDS Storage, TLAPS

DrvMsg == [op : {"read", "irq", "unknown"}, sender : Nat,
           lba : Sectors \cup {NoSector}, chunk : Nat]

FromProcess(s) == \A i \in 1 .. Len(s) : s[i].op = "read" => s[i].sender # NoPid

\* The requests in the driver's mailbox come from a process.
MailboxOK ==
    /\ drv_mbox \in Seq(DrvMsg)
    /\ FromProcess(drv_mbox)
    /\ vfs \in Nat \ {NoPid}

\* What the suspended request asks the driver for.
JobOK == job.lba \in Sectors \cup {NoSector} /\ job.total \in Nat

\* The device and PENDING_IO speak of the same request.
InFlightOK ==
    /\ posted \in {<< >>, <<BLK_REQ>>}
    /\ unseen \in Nat
    /\ posted # << >> => unseen = 0
    /\ PENDING_IO.sender = NoPid => posted = << >> /\ unseen = 0
    /\ PENDING_IO.sender # NoPid => BLK_REQ = PENDING_IO.lba
    /\ PENDING_IO.sender # NoPid /\ check_complete => SECTOR_BUF = PENDING_IO.lba

\* The inductive invariant.
DriverInv == MailboxOK /\ JobOK /\ InFlightOK /\ DriverCacheRight

-----------------------------------------------------------------------------
(* Sequences of messages.                                                  *)

LEMMA MailboxAppend ==
    ASSUME NEW s \in Seq(DrvMsg), FromProcess(s), NEW m \in DrvMsg,
           m.op = "read" => m.sender # NoPid
    PROVE  Append(s, m) \in Seq(DrvMsg) /\ FromProcess(Append(s, m))
  BY DEF FromProcess

LEMMA MailboxTail ==
    ASSUME NEW s \in Seq(DrvMsg), FromProcess(s), s # << >>
    PROVE  /\ Tail(s) \in Seq(DrvMsg) /\ FromProcess(Tail(s))
           /\ Head(s) \in DrvMsg
           /\ Head(s).op = "read" => Head(s).sender # NoPid
  BY DEF FromProcess

\* The messages the driver is sent are of its type.
LEMMA MessageTypes ==
    /\ Irq \in DrvMsg /\ Irq.op # "read"
    /\ \A s \in Nat : Unknown(s) \in DrvMsg /\ Unknown(s).op # "read"
    /\ \A s \in Nat \ {NoPid}, l \in Sectors \cup {NoSector}, k \in Nat :
           Read(s, l, k) \in DrvMsg /\ Read(s, l, k).sender # NoPid
  BY DEF Irq, Unknown, Read, DrvMsg, NoPid, NoSector

-----------------------------------------------------------------------------
(* The VFS server: it asks for sectors of the disk only.                   *)

LEMMA NoJobOK == job' = NoJob => JobOK'
  BY DEF NoJob, JobOK

LEMMA FetchOK ==
    ASSUME NEW j, NEW l \in Sectors, job' = Fetch(j, l)
    PROVE  JobOK'
  <1>1. job'.lba = l /\ job'.total = 0
    BY DEF Fetch
  <1>. QED BY <1>1 DEF JobOK

LEMMA LookupOK ==
    ASSUME NEW j, NEW cache, Lookup(j, cache)
    PROVE  JobOK'
  <1>1. CASE job' = NoJob
    BY <1>1, NoJobOK
  <1>2. CASE j.path \in DiskFiles /\ job' = Fetch(j, j.path)
    BY <1>2, FetchOK, StorageAssumption
  <1>. QED BY <1>1, <1>2 DEF Lookup

LEMMA MountedOK ==
    ASSUME NEW j, Mounted(j)
    PROVE  JobOK'
  <1>1. "dir" \in Sectors
    BY StorageAssumption
  <1>. QED BY <1>1, LookupOK, FetchOK DEF Mounted

LEMMA StartDiskOK ==
    ASSUME NEW c, NEW q, NEW f, NEW data, StartDisk(c, q, f, data)
    PROVE  JobOK'
  <1>. DEFINE j == [NoJob EXCEPT !.client = c, !.path = q, !.fd = f, !.data = data]
  <1>1. Mounted(j) \/ job' = Fetch(j, "vbr") \/ job' = NoJob
    BY DEF StartDisk
  <1>2. "vbr" \in Sectors
    BY StorageAssumption
  <1>. HIDE DEF j
  <1>. QED BY <1>1, <1>2, MountedOK, FetchOK, NoJobOK

LEMMA StoreChunkOK ==
    ASSUME NEW m, JobOK, StoreChunk(m)
    PROVE  JobOK'
  <1>. DEFINE right == job.good /\ (IF m.chunk = job.total THEN m.buf ELSE NoSector) = job.lba
              cache == IF job.lba = "vbr" THEN sec_cache
                       ELSE [sec_cache EXCEPT ![job.total] =
                               IF m.chunk = job.total THEN m.buf ELSE NoSector]
  <1>1. \/ job' = [job EXCEPT !.total = @ + 1, !.waiting = FALSE, !.good = right]
        \/ Mounted(job) \/ job' = NoJob \/ Lookup(job, cache)
    BY DEF StoreChunk, Fail
  <1>2. CASE job' = [job EXCEPT !.total = @ + 1, !.waiting = FALSE, !.good = right]
    <2>1. job'.lba = job.lba /\ job'.total = job.total + 1
      BY <1>2
    <2>. QED BY <2>1 DEF JobOK
  <1>. HIDE DEF right, cache
  <1>. QED BY <1>1, <1>2, MountedOK, LookupOK, NoJobOK

-----------------------------------------------------------------------------
(* Steps of the server, the device and the driver.                         *)

device == <<PENDING_IO, CACHE, BLK_REQ, SECTOR_BUF, BLK_STATUS, posted, unseen>>

LEMMA DeviceSame == InFlightOK /\ DriverCacheRight /\ UNCHANGED device
                      => (InFlightOK /\ DriverCacheRight)'
  BY DEF InFlightOK, DriverCacheRight, check_complete, device

LEMMA MailboxSame == MailboxOK /\ UNCHANGED <<drv_mbox, vfs>> => MailboxOK'
  BY DEF MailboxOK, FromProcess

\* A message of the right type is appended, or none.
LEMMA MailboxGrows ==
    ASSUME MailboxOK, UNCHANGED vfs,
           NEW m \in DrvMsg, m.op = "read" => m.sender # NoPid,
           drv_mbox' = Append(drv_mbox, m)
    PROVE  MailboxOK'
  <1>1. Append(drv_mbox, m) \in Seq(DrvMsg) /\ FromProcess(Append(drv_mbox, m))
    BY MailboxAppend DEF MailboxOK
  <1>2. drv_mbox' \in Seq(DrvMsg) /\ FromProcess(drv_mbox')
    BY <1>1
  <1>. QED BY <1>2 DEF MailboxOK, FromProcess

\* Requests that the file tables answer leave the driver alone.
LEMMA FileStep ==
    ASSUME DriverInv, NEW c, Handles(c)
    PROVE  DriverInv'
  <1>1. UNCHANGED <<drv_mbox, vfs, job>> /\ UNCHANGED device
    BY DEF Handles, Takes, drv_vars, ring_vars, device
  <1>2. JobOK'
    BY <1>1 DEF DriverInv, JobOK
  <1>. QED BY <1>1, <1>2, DeviceSame, MailboxSame DEF DriverInv

LEMMA DiskStep ==
    ASSUME DriverInv, NEW c, NEW q, NEW f, NEW data, StartDisk(c, q, f, data)
    PROVE  DriverInv'
  <1>1. UNCHANGED <<drv_mbox, vfs>> /\ UNCHANGED device
    BY DEF StartDisk, Takes, drv_vars, ring_vars, device
  <1>. QED BY <1>1, StartDiskOK, DeviceSame, MailboxSame DEF DriverInv

LEMMA CallStep ==
    ASSUME DriverInv, Call
    PROVE  DriverInv'
  <1>1. UNCHANGED vfs /\ UNCHANGED device
    BY DEF Call, drv_vars, ring_vars, device
  <1>2. JobOK'
    <2>1. job' = NoJob \/ job' = [job EXCEPT !.waiting = TRUE]
      BY DEF Call, Fail
    <2>2. CASE job' = [job EXCEPT !.waiting = TRUE]
      <3>1. job'.lba = job.lba /\ job'.total = job.total
        BY <2>2
      <3>. QED BY <3>1 DEF DriverInv, JobOK
    <2>. QED BY <2>1, <2>2, NoJobOK
  <1>3. MailboxOK'
    <2>1. CASE drv_mbox' = drv_mbox
      BY <1>1, <2>1, MailboxSame DEF DriverInv
    <2>2. CASE drv_mbox' = Append(drv_mbox, Read(vfs, job.lba, job.total))
      <3>1. /\ Read(vfs, job.lba, job.total) \in DrvMsg
            /\ Read(vfs, job.lba, job.total).sender # NoPid
        BY MessageTypes DEF DriverInv, MailboxOK, JobOK
      <3>. QED BY <1>1, <2>2, <3>1, MailboxGrows DEF DriverInv
    <2>. QED BY <2>1, <2>2 DEF Call, ToDriver
  <1>. QED BY <1>1, <1>2, <1>3, DeviceSame DEF DriverInv

LEMMA ReplyStep ==
    ASSUME DriverInv, TakeReply
    PROVE  DriverInv'
  <1>1. UNCHANGED <<drv_mbox, vfs>> /\ UNCHANGED device
    BY DEF TakeReply, drv_vars, ring_vars, device
  <1>2. StoreChunk(Head(vfs_mbox)) \/ job' = NoJob
    BY DEF TakeReply, Fail
  <1>3. JobOK'
    BY <1>2, StoreChunkOK, NoJobOK DEF DriverInv
  <1>. QED BY <1>1, <1>3, DeviceSame, MailboxSame DEF DriverInv

LEMMA LateReplyStep ==
    ASSUME DriverInv, LateReply
    PROVE  DriverInv'
  <1>1. UNCHANGED <<vfs, job>> /\ UNCHANGED device
    BY DEF LateReply, drv_vars, ring_vars, device
  <1>2. JobOK'
    BY <1>1 DEF DriverInv, JobOK
  <1>3. MailboxOK'
    <2>1. CASE drv_mbox' = drv_mbox
      BY <1>1, <2>1, MailboxSame DEF DriverInv
    <2>2. CASE drv_mbox' = Append(drv_mbox, Unknown(vfs))
      BY <1>1, <2>2, MessageTypes, MailboxGrows DEF DriverInv, MailboxOK
    <2>. QED BY <2>1, <2>2 DEF LateReply, ToDriver
  <1>. QED BY <1>1, <1>2, <1>3, DeviceSame DEF DriverInv

LEMMA RestartStep ==
    ASSUME DriverInv, Restart
    PROVE  DriverInv'
  <1>1. UNCHANGED drv_mbox /\ UNCHANGED device /\ job' = NoJob /\ vfs' = vfs + 1
    BY DEF Restart, drv_vars, ring_vars, device
  <1>2. MailboxOK'
    BY <1>1 DEF DriverInv, MailboxOK, FromProcess, NoPid
  <1>. QED BY <1>1, <1>2, NoJobOK, DeviceSame DEF DriverInv

\* The device: it completes or fails the request PENDING_IO describes.
LEMMA DeviceStep ==
    ASSUME InFlightOK, DriverCacheRight, DeviceCompletes \/ DeviceFails
    PROVE  (InFlightOK /\ DriverCacheRight)'
  <1>1. posted = <<BLK_REQ>> /\ PENDING_IO.sender # NoPid
    BY DEF InFlightOK, DeviceCompletes, DeviceFails
  <1>2. Head(posted) = BLK_REQ /\ Tail(posted) = << >>
    BY <1>1
  <1>3. UNCHANGED <<PENDING_IO, CACHE, BLK_REQ>> /\ posted' = << >> /\ unseen' \in Nat
    BY <1>2 DEF InFlightOK, DeviceCompletes, DeviceFails, drv_vars
  <1>4. BLK_STATUS' = "ok" => SECTOR_BUF' = PENDING_IO.lba
    BY <1>1, <1>2 DEF InFlightOK, DeviceCompletes, DeviceFails
  <1>. QED BY <1>1, <1>3, <1>4 DEF InFlightOK, DriverCacheRight, check_complete

LEMMA HardwareStep ==
    ASSUME DriverInv, HardwareMoves
    PROVE  DriverInv'
  <1>1. JobOK' /\ UNCHANGED vfs
    BY DEF HardwareMoves, Hardware, DeviceCompletes, DeviceFails, Interrupt,
           SharedInterrupt, DriverInv, JobOK
  <1>2. CASE DeviceCompletes \/ DeviceFails
    <2>1. UNCHANGED drv_mbox
      BY <1>2 DEF DeviceCompletes, DeviceFails
    <2>. QED BY <1>1, <1>2, <2>1, DeviceStep, MailboxSame DEF DriverInv
  <1>3. CASE Interrupt \/ SharedInterrupt
    <2>1. UNCHANGED device
      BY <1>3 DEF Interrupt, SharedInterrupt, drv_vars, ring_vars, device
    <2>2. drv_mbox' = drv_mbox \/ drv_mbox' = Append(drv_mbox, Irq)
      BY <1>3 DEF Interrupt, SharedInterrupt, ToDriver
    <2>3. MailboxOK'
      BY <1>1, <2>2, MailboxSame, MailboxGrows, MessageTypes DEF DriverInv
    <2>. QED BY <1>1, <2>1, <2>3, DeviceSame DEF DriverInv
  <1>. QED BY <1>2, <1>3 DEF HardwareMoves, Hardware

\* The driver: it posts a request only when none is in flight.
LEMMA ReadStep ==
    ASSUME MailboxOK, InFlightOK, DriverCacheRight, handle_read
    PROVE  (InFlightOK /\ DriverCacheRight)'
  <1>. DEFINE m == Head(drv_mbox)
  <1>1. m.sender # NoPid
    BY MailboxTail DEF MailboxOK, handle_read, Receives
  <1>2. CASE UNCHANGED <<drv_vars, ring_vars>>
    BY <1>2, DeviceSame DEF drv_vars, ring_vars, device
  <1>3. CASE /\ PENDING_IO.sender = NoPid
             /\ submit_read(m.lba)
             /\ PENDING_IO' = [sender |-> m.sender, lba |-> m.lba, chunk |-> m.chunk]
             /\ UNCHANGED CACHE
    <2>1. posted = << >> /\ unseen = 0
      BY <1>3 DEF InFlightOK
    <2>2. /\ posted' = <<BLK_REQ'>> /\ unseen' = 0
          /\ PENDING_IO'.sender = m.sender /\ PENDING_IO'.lba = BLK_REQ'
      BY <1>3, <2>1 DEF submit_read
    <2>. QED BY <1>1, <1>3, <2>2 DEF InFlightOK, DriverCacheRight, check_complete
  <1>. QED BY <1>2, <1>3 DEF handle_read

\* A completion is cached under the request that it belongs to.
LEMMA CompletionStep ==
    ASSUME InFlightOK, DriverCacheRight, handle_irq_completion
    PROVE  (InFlightOK /\ DriverCacheRight)'
  <1>1. CASE PENDING_IO.sender # NoPid /\ check_complete
    <2>1. /\ PENDING_IO' = Idle /\ unseen' = 0
          /\ CACHE' = [lba |-> PENDING_IO.lba, buf |-> SECTOR_BUF]
          /\ UNCHANGED <<BLK_REQ, posted>>
      BY <1>1 DEF handle_irq_completion
    <2>. QED BY <1>1, <2>1 DEF InFlightOK, DriverCacheRight, check_complete, Idle
  <1>2. CASE ~(PENDING_IO.sender # NoPid /\ check_complete)
    <2>1. /\ UNCHANGED <<PENDING_IO, CACHE, BLK_REQ, SECTOR_BUF, BLK_STATUS, posted>>
          /\ unseen' = 0
      BY <1>2 DEF handle_irq_completion, InFlightOK
    <2>. QED BY <2>1 DEF InFlightOK, DriverCacheRight, check_complete
  <1>. QED BY <1>1, <1>2

LEMMA DriverMovesStep ==
    ASSUME DriverInv, DriverMoves
    PROVE  DriverInv'
  <1>1. JobOK' /\ UNCHANGED vfs
    BY DEF DriverMoves, DriverStep, Register, Block, handle_read, handle_irq_completion,
           Ignore, Receives, DriverInv, JobOK
  <1>2. CASE Register \/ Block
    <2>1. UNCHANGED drv_mbox /\ UNCHANGED device
      BY <1>2 DEF Register, Block, drv_vars, ring_vars, device
    <2>. QED BY <1>1, <2>1, DeviceSame, MailboxSame DEF DriverInv
  <1>3. CASE handle_read \/ handle_irq_completion \/ Ignore
    <2>1. drv_mbox # << >> /\ drv_mbox' = Tail(drv_mbox)
      BY <1>3 DEF handle_read, handle_irq_completion, Ignore, Receives
    <2>2. Tail(drv_mbox) \in Seq(DrvMsg) /\ FromProcess(Tail(drv_mbox))
      BY <2>1, MailboxTail DEF DriverInv, MailboxOK
    <2>3. drv_mbox' \in Seq(DrvMsg) /\ FromProcess(drv_mbox')
      BY <2>1, <2>2
    <2>4. MailboxOK'
      BY <1>1, <2>3 DEF DriverInv, MailboxOK, FromProcess
    <2>5. ASSUME Ignore PROVE UNCHANGED device
      BY <2>5 DEF Ignore, drv_vars, ring_vars, device
    <2>. QED BY <1>1, <1>3, <2>4, <2>5, DeviceSame, ReadStep, CompletionStep DEF DriverInv
  <1>. QED BY <1>2, <1>3 DEF DriverMoves, DriverStep

\* Requests of the clients.
LEMMA ClientStep ==
    ASSUME DriverInv, NEW c \in Clients,
           \/ ClientSends(c) \/ Answer(c) \/ handle_write_data(c) \/ handle_write_close(c)
           \/ \E p \in Paths :
                \/ handle_write_open(c, p) \/ handle_mkdir(c, p) \/ ReadPath(c, p)
                \/ \E slash \in Spellings :
                     \/ handle_unlink(c, p, slash)
                     \/ \E fl \in OpenFlags : handle_open(c, p, slash, fl)
           \/ \E f \in Fds :
                \/ handle_close(c, f) \/ handle_read_fd(c, f) \/ handle_write_fd(c, f)
                \/ ReadOpenFile(c, f) \/ StatOpenFile(c, f)
                \/ \E o \in Offsets : handle_seek(c, f, o)
    PROVE  DriverInv'
  <1>1. ASSUME ClientSends(c) PROVE DriverInv'
    <2>1. UNCHANGED <<drv_mbox, vfs, job>> /\ UNCHANGED device
      BY <1>1 DEF ClientSends, drv_vars, ring_vars, device
    <2>. QED BY <2>1, DeviceSame, MailboxSame DEF DriverInv, JobOK
  <1>2. ASSUME \/ Answer(c) \/ handle_write_data(c) \/ handle_write_close(c)
               \/ \E p \in Paths :
                    \/ handle_write_open(c, p) \/ handle_mkdir(c, p)
                    \/ \E slash \in Spellings :
                         \/ handle_unlink(c, p, slash)
                         \/ \E fl \in OpenFlags : handle_open(c, p, slash, fl)
               \/ \E f \in Fds :
                    \/ handle_close(c, f) \/ handle_read_fd(c, f) \/ handle_write_fd(c, f)
                    \/ \E o \in Offsets : handle_seek(c, f, o)
        PROVE  Handles(c)
    BY <1>2 DEF Answer, handle_write_data, handle_write_close, handle_write_open,
                handle_mkdir, handle_unlink, handle_open, handle_close, handle_read_fd,
                handle_write_fd, handle_seek
  <1>3. ASSUME \/ \E p \in Paths : ReadPath(c, p)
               \/ \E f \in Fds : ReadOpenFile(c, f) \/ StatOpenFile(c, f)
        PROVE  \E q, f, data : StartDisk(c, q, f, data)
    BY <1>3 DEF ReadPath, ReadOpenFile, StatOpenFile
  <1>4. ASSUME \E q, f, data : StartDisk(c, q, f, data) PROVE DriverInv'
    BY <1>4, DiskStep
  <1>. QED BY <1>1, <1>2, <1>3, <1>4, FileStep

\* The driver never answers a read with the contents of another sector: its
\* cache is right in every state, for every disk, number of chunks, mailbox
\* size and number of faults.
THEOREM CacheCorrect == Spec => []DriverCacheRight
<1>1. Init => DriverInv
  BY DEF Init, BlockInit, DriverInv, MailboxOK, FromProcess, JobOK, InFlightOK,
         DriverCacheRight, Idle, NoJob, NoPid
<1>2. DriverInv /\ [Next]_vars => DriverInv'
  <2>. SUFFICES ASSUME DriverInv, [Next]_vars PROVE DriverInv'
    OBVIOUS
  <2>1. CASE UNCHANGED vars
    <3>1. UNCHANGED <<drv_mbox, vfs, job>> /\ UNCHANGED device
      BY <2>1 DEF vars, block_vars, drv_vars, ring_vars, device
    <3>. QED BY <3>1, DeviceSame, MailboxSame DEF DriverInv, JobOK
  <2>. QED BY <2>1, DriverMovesStep, HardwareStep, RestartStep, CallStep, ReplyStep,
              LateReplyStep, ClientStep DEF Next
<1>3. DriverInv => DriverCacheRight
  BY DEF DriverInv
<1>. QED BY <1>1, <1>2, <1>3, PTL DEF Spec
=============================================================================
