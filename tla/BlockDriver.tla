---------------------------- MODULE BlockDriver ----------------------------
(***************************************************************************)
(* The block driver (servers/block-drv/src/main.rs), the virtio device it  *)
(* drives and the two mailboxes between it and the VFS server.  A sector   *)
(* is fetched in NChunks round trips (13 in the code); its contents are    *)
(* modelled by its name, so that a mixed or wrong sector is visible.       *)
(*                                                                         *)
(* The driver is an ordinary process: it can be preempted between sending  *)
(* a reply and asking for the next message.  drv_edge is the kernel's      *)
(* waiting_for of the driver, which SYS_CALL consults.                     *)
(***************************************************************************)
EXTENDS Integers, Sequences

CONSTANTS Sectors,  \* the sectors of the disk
          NChunks,  \* round trips per sector
          DrvCap,   \* capacity of the driver's mailbox
          MaxFaults \* bound: unusual events in one behaviour (see Fault)

ASSUME BlockAssumption ==
    /\ "none" \notin Sectors
    /\ NChunks \in Nat \ {0}
    /\ DrvCap \in Nat \ {0}

NoSector == "none"
NoPid == 0
Chunks == 0 .. NChunks - 1
Pids == 0 .. MaxFaults + 1

VARIABLES
    registered,  \* block-drv is in the service registry
    drv_mbox,    \* kernel: the driver's mailbox
    drv_state,   \* kernel: "blocked" in recv_msg or "running"
    drv_edge,    \* kernel: whom the driver last sent a message to
    PENDING_IO,  \* [sender, lba, chunk] of the request in flight
    CACHE,       \* [lba, buf]: the sector cache and what it really holds
    BLK_REQ,     \* the sector the request header names
    SECTOR_BUF,  \* what the device wrote last
    BLK_STATUS,  \* "pending", "ok" or "error"
    posted,      \* avail ring: requests the device has not completed
    unseen,      \* used.idx - used_last: completions the driver has not seen
    isr,         \* the device asserts its interrupt
    vfs,         \* PID of the running VFS server, or NoPid
    vfs_mbox,    \* kernel: its mailbox
    broken,      \* history: a request failed or a notification was dropped
    faults       \* unusual events so far

drv_vars == <<PENDING_IO, CACHE>>
ring_vars == <<BLK_REQ, SECTOR_BUF, BLK_STATUS, posted, unseen, isr>>
block_vars == <<registered, drv_mbox, drv_state, drv_edge, drv_vars, ring_vars,
                vfs, vfs_mbox, broken, faults>>

\* Events that the model bounds, to stay finite: a device error, an interrupt
\* of another device, the death of the VFS server, a preemption of the driver
\* between its reply and its next receive, a request that arrives while
\* another one is queued or handled.
Fault == faults < MaxFaults /\ faults' = faults + 1

Read(s, l, k) == [op |-> "read", sender |-> s, lba |-> l, chunk |-> k]
Irq == [op |-> "irq", sender |-> NoPid, lba |-> NoSector, chunk |-> 0]
Unknown(s) == [op |-> "unknown", sender |-> s, lba |-> NoSector, chunk |-> 0]

RespData(l, k) == [from |-> "block-drv", ok |-> TRUE, buf |-> l, chunk |-> k]
RespError == [from |-> "block-drv", ok |-> FALSE, buf |-> NoSector, chunk |-> 0]
Request(c) == [from |-> c, ok |-> FALSE, buf |-> NoSector, chunk |-> 0]

Idle == [sender |-> NoPid, lba |-> NoSector, chunk |-> 0]

BlockInit ==
    /\ registered = FALSE
    /\ drv_mbox = << >>
    /\ drv_state = "running"
    /\ drv_edge = NoPid
    /\ PENDING_IO = Idle
    /\ CACHE = [lba |-> NoSector, buf |-> NoSector]
    /\ BLK_REQ = NoSector
    /\ SECTOR_BUF = NoSector
    /\ BLK_STATUS = "ok"
    /\ posted = << >>
    /\ unseen = 0
    /\ isr = FALSE
    /\ vfs = 1
    /\ vfs_mbox = << >>
    /\ broken = FALSE
    /\ faults = 0

-----------------------------------------------------------------------------
(* Kernel: a message to the driver wakes it and clears its edge.           *)

ToDriver(m) ==
    /\ drv_mbox' = Append(drv_mbox, m)
    /\ drv_state' = "running"
    /\ drv_edge' = IF drv_state = "blocked" THEN NoPid ELSE drv_edge

DriverFull == Len(drv_mbox) = DrvCap

\* A message from the driver; to a dead process it goes nowhere.
Send(to, m) ==
    /\ drv_edge' = IF to = vfs THEN to ELSE NoPid
    /\ vfs_mbox' = IF to = vfs THEN Append(vfs_mbox, m) ELSE vfs_mbox

\* SYS_CALL finds that the driver's last message went to the caller.
SaysDeadlock == drv_state = "running" /\ drv_edge = vfs

-----------------------------------------------------------------------------
(* The device and its interrupt.                                           *)

\* The device reads the request header when it likes: if the header is
\* overwritten under it, it may see either request.
DeviceCompletes ==
    /\ posted # << >>
    /\ SECTOR_BUF' \in {Head(posted), BLK_REQ}
    /\ BLK_STATUS' = "ok"
    /\ posted' = Tail(posted)
    /\ unseen' = unseen + 1
    /\ isr' = TRUE
    /\ UNCHANGED <<registered, drv_mbox, drv_state, drv_edge, drv_vars, BLK_REQ,
                   vfs, vfs_mbox, broken, faults>>

DeviceFails ==
    /\ Fault
    /\ posted # << >>
    /\ BLK_STATUS' = "error"
    /\ posted' = Tail(posted)
    /\ unseen' = unseen + 1
    /\ isr' = TRUE
    /\ broken' = TRUE
    /\ UNCHANGED <<registered, drv_mbox, drv_state, drv_edge, drv_vars, BLK_REQ,
                   SECTOR_BUF, vfs, vfs_mbox>>

\* handle_pci_irq: reads the ISR port and notifies the driver, if it has room.
Interrupt ==
    /\ isr
    /\ isr' = FALSE
    /\ IF DriverFull THEN UNCHANGED <<drv_mbox, drv_state, drv_edge>>
                     ELSE ToDriver(Irq)
    /\ broken' = (broken \/ DriverFull)
    /\ UNCHANGED <<registered, drv_vars, BLK_REQ, SECTOR_BUF, BLK_STATUS,
                   posted, unseen, vfs, vfs_mbox, faults>>

\* Another device on the line: the driver is notified all the same.
SharedInterrupt ==
    /\ Fault
    /\ ~DriverFull
    /\ ToDriver(Irq)
    /\ UNCHANGED <<registered, drv_vars, ring_vars, vfs, vfs_mbox, broken>>

-----------------------------------------------------------------------------
(* The driver's loop.                                                      *)

\* init_device, then register.
Register ==
    /\ ~registered
    /\ registered' = TRUE
    /\ UNCHANGED <<drv_mbox, drv_state, drv_edge, drv_vars, ring_vars, vfs,
                   vfs_mbox, broken, faults>>

Block ==
    /\ registered
    /\ drv_state = "running"
    /\ drv_mbox = << >>
    /\ drv_state' = "blocked"
    /\ UNCHANGED <<registered, drv_mbox, drv_edge, drv_vars, ring_vars, vfs,
                   vfs_mbox, broken, faults>>

Receives(op) ==
    /\ registered
    /\ drv_state = "running"
    /\ drv_mbox # << >>
    /\ Head(drv_mbox).op = op
    /\ drv_mbox' = Tail(drv_mbox)
    /\ UNCHANGED <<registered, drv_state, vfs, broken, faults>>

submit_read(l) ==
    /\ BLK_REQ' = l
    /\ BLK_STATUS' = "pending"
    /\ posted' = Append(posted, l)
    /\ UNCHANGED <<SECTOR_BUF, unseen, isr>>

\* Mutant: a request that finds another one in flight gets no answer.
handle_read_drops_busy ==
    /\ Receives("read")
    /\ LET m == Head(drv_mbox) IN
       IF CACHE.lba = m.lba
         THEN /\ Send(m.sender, RespData(CACHE.buf, m.chunk))
              /\ UNCHANGED <<drv_vars, ring_vars>>
         ELSE /\ drv_edge' = NoPid
              /\ IF PENDING_IO.sender # NoPid THEN UNCHANGED <<PENDING_IO, ring_vars>>
                 ELSE /\ submit_read(m.lba)
                      /\ PENDING_IO' = [sender |-> m.sender, lba |-> m.lba,
                                        chunk |-> m.chunk]
              /\ UNCHANGED <<CACHE, vfs_mbox>>

\* Mutant: the guard on the request in flight is missing.
handle_read_unguarded ==
    /\ Receives("read")
    /\ LET m == Head(drv_mbox) IN
       IF CACHE.lba = m.lba
         THEN /\ Send(m.sender, RespData(CACHE.buf, m.chunk))
              /\ UNCHANGED <<drv_vars, ring_vars>>
         ELSE /\ submit_read(m.lba)
              /\ PENDING_IO' = [sender |-> m.sender, lba |-> m.lba, chunk |-> m.chunk]
              /\ drv_edge' = NoPid
              /\ UNCHANGED <<CACHE, vfs_mbox>>

handle_read ==
    /\ Receives("read")
    /\ LET m == Head(drv_mbox) IN
       \/ /\ CACHE.lba = m.lba
          /\ Send(m.sender, RespData(CACHE.buf, m.chunk))
          /\ UNCHANGED <<drv_vars, ring_vars>>
       \/ /\ CACHE.lba # m.lba
          /\ PENDING_IO.sender # NoPid
          /\ Send(m.sender, RespError)
          /\ UNCHANGED <<drv_vars, ring_vars>>
       \/ /\ CACHE.lba # m.lba
          /\ PENDING_IO.sender = NoPid
          /\ submit_read(m.lba)
          /\ PENDING_IO' = [sender |-> m.sender, lba |-> m.lba, chunk |-> m.chunk]
          /\ drv_edge' = NoPid
          /\ UNCHANGED <<CACHE, vfs_mbox>>

\* check_complete: a failed request counts as not complete.
check_complete == unseen > 0 /\ BLK_STATUS = "ok"

handle_irq_completion ==
    /\ Receives("irq")
    /\ unseen' = IF PENDING_IO.sender # NoPid THEN 0 ELSE unseen
    /\ IF PENDING_IO.sender # NoPid /\ check_complete
         THEN /\ PENDING_IO' = Idle
              /\ CACHE' = [lba |-> PENDING_IO.lba, buf |-> SECTOR_BUF]
              /\ Send(PENDING_IO.sender, RespData(SECTOR_BUF, PENDING_IO.chunk))
         ELSE drv_edge' = NoPid /\ UNCHANGED <<PENDING_IO, CACHE, vfs_mbox>>
    /\ UNCHANGED <<BLK_REQ, SECTOR_BUF, BLK_STATUS, posted, isr>>

\* Any other message is ignored.
Ignore ==
    /\ Receives("unknown")
    /\ drv_edge' = NoPid
    /\ UNCHANGED <<drv_vars, ring_vars, vfs_mbox>>

DriverStep == Register \/ Block \/ handle_read \/ handle_irq_completion \/ Ignore
Hardware == DeviceCompletes \/ DeviceFails \/ Interrupt \/ SharedInterrupt
=============================================================================
