-------------------------------- MODULE Exec --------------------------------
(***************************************************************************)
(* Starting and ending programs.  The shell asks the ring-3 exec server to *)
(* load an image and falls back on the kernel's own loader; the exec       *)
(* server builds the address space one system call at a time, and between  *)
(* two of its calls the programs already started map, share and exit.      *)
(***************************************************************************)
EXTENDS Memory

CONSTANTS
    MaxFrames,    \* MAX_FRAMES of the exec server's loader (128 in the code)
    MaxRequests,  \* bound on the exec commands typed
    Quotas,       \* arguments of SYS_SETQUOTA: a process and a number of pages
    Grantees,     \* processes SYS_CAP_GRANT is called for
    Images,       \* images in the files the user starts: the ELF header may be
                  \* invalid (~valid), and a program header after the last
                  \* segment may lie beyond the end of the file (~whole)
    UserPages,    \* pages programs ask SYS_MAP and SYS_MAP_SHARE for
    FirstStaging  \* first page of the exec server's staging area

\* Boot order: the shell is spawned before the exec server.
ShellPid == 1
ExecPid  == 2

ASSUME ExecAssumption ==
    /\ {MaxFrames, MaxRequests, FirstStaging} \subseteq Nat
    /\ UserPages \subseteq Pages
    /\ Quotas \subseteq Pids \X Nat
    /\ Grantees \subseteq Pids
    /\ Images \subseteq [valid : BOOLEAN, whole : BOOLEAN]
    /\ Len(StackPages) <= LoadFramesMax
    /\ MaxPid >= ExecPid + 2 * MaxRequests
    /\ FirstStaging..(FirstStaging + MaxRequests * (1 + Len(Segments)) - 1)
           \subseteq Pages

\* The error value SYS_CREATE_VAS returns when no frame is left.
ENOMEM == -3

VARIABLES
    mem,        \* frames, pool and address spaces
    procs,      \* the process table
    next_pid,
    buf,        \* the shell's EXEC_BUF
    shell,      \* where the shell is in cmd_exec, and its mailbox
    exec,       \* where the exec server is in handle_exec, and its mailbox
    staging,    \* pages handed out by the two staging cursors, which stay apart
    requests,   \* exec commands typed
    shared,     \* history: frames SYS_MAP_SHARE has handed out
    halted      \* the kernel has faulted

vars == <<mem, procs, next_pid, buf, shell, exec, staging, requests, shared, halted>>

-----------------------------------------------------------------------------
(* The kernel's loader *)

\* One page of a segment or of the stack: allocate, record, map.
LoadPage(r, v) ==
    LET a == global_alloc_4k(r.mem)
        w == map_page_global(a.mem, r.base, v, a.frame)
    IN  IF ~r.ok THEN r
        ELSE IF a.frame = NoFrame THEN [r EXCEPT !.ok = FALSE]
        ELSE [r EXCEPT !.mem = w.mem, !.ok = w.ok,
                       !.frames = track(@, a.frame, LoadFramesMax)]

LoadPages(r, pages) == FoldLeft(LoadPage, r, pages)

\* create_ring3_process and register_user_frames on memory m, for a space at
\* base and the frames collected; pid is NoPid if the table is full.
Register(s, m, base, frames) ==
    IF TableFull(s.procs) THEN [s EXCEPT !.mem = m, !.pid = NoPid]
    ELSE [mem   |-> m,
          procs |-> (s.next :> register_user_frames(NewPCB(base), frames)) @@ s.procs,
          next  |-> s.next + 1,
          pid   |-> s.next]

\* spawn_elf: whatever fails, what was allocated so far is abandoned.
spawn_elf(s, image) ==
    LET a    == global_alloc_4k(s.mem)
        segs == LoadPages([mem |-> NewSpace(a.mem, a.frame), ok |-> TRUE,
                           base |-> a.frame, frames |-> track(<<>>, a.frame, LoadFramesMax)],
                          Segments)
        all  == LoadPages(segs, StackPages)
        done == map_crash_log_page(
                    merge_kernel_into_user_pml4(all.mem, a.frame), a.frame)
        Fail(m) == [s EXCEPT !.mem = m, !.pid = NoPid]
    IN  CASE ~image.valid \/ a.frame = NoFrame -> Fail(s.mem)
          [] OTHER ->
             IF ~segs.ok \/ ~image.whole THEN Fail(segs.mem)
             ELSE IF ~all.ok THEN Fail(all.mem)
             ELSE Register(s, done, a.frame, all.frames)

\* The exec server between requests.
Idle(mailbox) ==
    [pc |-> "recv", mailbox |-> mailbox, vas |-> NoFrame, frame |-> NoFrame,
     frames |-> <<>>, done |-> 0, pid |-> NoPid]

Init ==
    LET good   == [valid |-> TRUE, whole |-> TRUE]
        empty  == [mem |-> BootMemory, procs |-> <<>>, next |-> 1, pid |-> NoPid]
        booted == spawn_elf(spawn_elf(empty, good), good)
    IN  /\ mem = booted.mem
        /\ procs = booted.procs
        /\ next_pid = booted.next
        /\ buf = good
        /\ shell = [pc |-> "prompt", mailbox |-> <<>>]
        /\ exec = Idle(<<>>)
        /\ staging = 0
        /\ requests = 0
        /\ shared = {}
        /\ halted = FALSE

Kernel == [mem |-> mem, procs |-> procs, next |-> next_pid, pid |-> NoPid]

-----------------------------------------------------------------------------
(* The shell: cmd_exec *)

\* After a fault in ring 0 nothing runs any more.
ShellAt(pc) == ~halted /\ shell.pc = pc

\* The image is read from the VFS into EXEC_BUF, which an earlier request may
\* still be loaded from; whatever else is in the mailbox is discarded while
\* waiting for the VFS.  Then the exec server is called with the physical
\* address of the buffer.
CmdExec(image) ==
    /\ ShellAt("prompt") /\ requests < MaxRequests
    /\ requests' = requests + 1
    /\ buf' = image
    /\ shell' = [pc |-> "call", mailbox |-> <<>>]
    /\ LET input == mem.spaces[procs[ShellPid].base].pages[Head(Segments)]
       IN  exec' = [exec EXCEPT !.mailbox = Append(@, input)]
    /\ UNCHANGED <<mem, procs, next_pid, staging, shared, halted>>

\* The first message is taken for the answer, even a late one to an earlier call.
TakeReply ==
    /\ ShellAt("call") /\ shell.mailbox # <<>>
    /\ shell' = [pc |-> IF Head(shell.mailbox) = NoPid THEN "fallback" ELSE "prompt",
                 mailbox |-> Tail(shell.mailbox)]
    /\ UNCHANGED <<mem, procs, next_pid, buf, exec, staging, requests, shared, halted>>

CallTimesOut ==
    /\ ShellAt("call") /\ shell.mailbox = <<>>
    /\ shell' = [shell EXCEPT !.pc = "fallback"]
    /\ UNCHANGED <<mem, procs, next_pid, buf, exec, staging, requests, shared, halted>>

\* SYS_SPAWN_ELF
Fallback ==
    LET s == spawn_elf(Kernel, buf)
    IN  /\ ShellAt("fallback")
        /\ shell' = [shell EXCEPT !.pc = "prompt"]
        /\ mem' = s.mem /\ procs' = s.procs /\ next_pid' = s.next
        /\ UNCHANGED <<buf, exec, staging, requests, shared, halted>>

ShellStep == (\E image \in Images : CmdExec(image)) \/ TakeReply \/ CallTimesOut \/ Fallback

-----------------------------------------------------------------------------
(* The exec server: exec_from_phys and load_and_spawn, one action per call *)

ExecAt(pc) == ~halted /\ exec.pc = pc

\* The exec server goes on to pc, or gives up and answers u32::MAX.
Continue(ok, e) ==
    exec' = IF ok THEN e ELSE [exec EXCEPT !.pc = "reply", !.pid = NoPid]

\* SYS_MAP with a physical address, into the exec server's own space.
MapStaging(f) ==
    LET w == map_page_global(mem, procs[ExecPid].base, FirstStaging + staging, f)
    IN  IF ~check_memory_quota(procs[ExecPid])
        THEN [mem |-> mem, ok |-> FALSE, procs |-> procs]
        ELSE [mem |-> w.mem, ok |-> w.ok,
              procs |-> IF w.ok THEN [procs EXCEPT ![ExecPid].used = @ + 1] ELSE procs]

\* recv_msg, then the input pages are mapped and the ELF header is looked at.
MapInput ==
    LET r == MapStaging(Head(exec.mailbox))
    IN  /\ ExecAt("recv") /\ exec.mailbox # <<>>
        /\ mem' = r.mem /\ procs' = r.procs
        /\ staging' = staging + 1
        /\ exec' = [exec EXCEPT !.pc = IF r.ok /\ buf.valid THEN "create" ELSE "reply",
                                !.mailbox = Tail(@)]
        /\ UNCHANGED <<next_pid, buf, shell, requests, shared, halted>>

\* SYS_CREATE_VAS answers ENOMEM when there is no frame; the server, which
\* looks for 0, goes on with it.
CreateVas ==
    LET a == global_alloc_4k(mem)
        f == a.frame
    IN  /\ ExecAt("create")
        /\ mem' = IF f = NoFrame THEN mem
                  ELSE map_crash_log_page(
                           merge_kernel_into_user_pml4(NewSpace(a.mem, f), f), f)
        /\ exec' = [exec EXCEPT !.pc = "alloc", !.vas = IF f = NoFrame THEN ENOMEM ELSE f]
        /\ UNCHANGED <<procs, next_pid, buf, shell, staging, requests, shared, halted>>

\* Variant: the frame is not taken out of the bitmap.
AllocPhysPeeks ==
    /\ ExecAt("alloc")
    /\ Continue(mem.free # {}, [exec EXCEPT !.pc = "stage", !.frame = global_alloc_4k(mem).frame])
    /\ UNCHANGED <<mem, procs, next_pid, buf, shell, staging, requests, shared, halted>>

AllocPhys ==
    LET a == global_alloc_4k(mem)
    IN  /\ ExecAt("alloc")
        /\ mem' = a.mem
        /\ Continue(a.frame # NoFrame, [exec EXCEPT !.pc = "stage", !.frame = a.frame])
        /\ UNCHANGED <<procs, next_pid, buf, shell, staging, requests, shared, halted>>

StageFrame ==
    LET r == MapStaging(exec.frame)
    IN  /\ ExecAt("stage")
        /\ mem' = r.mem /\ procs' = r.procs
        /\ staging' = staging + 1
        /\ Continue(r.ok, [exec EXCEPT !.pc = "into"])
        /\ UNCHANGED <<next_pid, buf, shell, requests, shared, halted>>

\* Variant: the page of the input is mapped, not the copy.
MapInputIntoVas ==
    LET input == mem.spaces[procs[ExecPid].base].pages[FirstStaging]
        w == map_page_global(mem, exec.vas, Head(Segments), input)
    IN  /\ ExecAt("into") /\ exec.vas # ENOMEM
        /\ mem' = w.mem
        /\ Continue(w.ok, [exec EXCEPT !.pc = "spawn", !.frames = <<exec.frame>>])
        /\ UNCHANGED <<procs, next_pid, buf, shell, staging, requests, shared, halted>>

\* SYS_MAP_INTO_VAS takes its first argument for a PML4: with an error value
\* the kernel faults on the first access.
MapIntoVas ==
    /\ ExecAt("into")
    /\ IF exec.vas = ENOMEM THEN halted' = TRUE /\ UNCHANGED <<mem, exec>>
       ELSE LET w == map_page_global(mem, exec.vas, Segments[exec.done + 1], exec.frame)
                more == exec.done + 1 < Len(Segments)
            IN  /\ mem' = w.mem
                /\ Continue(w.ok /\ (more \/ buf.whole),
                            [exec EXCEPT !.pc = IF more THEN "alloc" ELSE "spawn",
                                         !.done = @ + 1,
                                         !.frames = track(@, exec.frame, MaxFrames)])
                /\ UNCHANGED halted
    /\ UNCHANGED <<procs, next_pid, buf, shell, staging, requests, shared>>

\* SYS_SPAWN_WITH_VAS: the kernel adds the stack and owns its frames.
SpawnWithVas ==
    LET r == LoadPages([mem |-> mem, ok |-> TRUE, base |-> exec.vas, frames |-> <<>>],
                       StackPages)
        s == IF r.ok THEN Register(Kernel, r.mem, exec.vas, r.frames)
             ELSE [Kernel EXCEPT !.mem = r.mem]
    IN  /\ ExecAt("spawn")
        /\ mem' = s.mem /\ procs' = s.procs /\ next_pid' = s.next
        /\ Continue(s.pid # NoPid, [exec EXCEPT !.pc = "register", !.pid = s.pid])
        /\ UNCHANGED <<buf, shell, staging, requests, shared, halted>>

\* SYS_REGISTER_FRAMES; the new process may have come and gone already.
RegisterFrames ==
    /\ ExecAt("register")
    /\ procs' = [p \in DOMAIN procs |->
                    IF p = exec.pid THEN AddUserFrames(procs[p], exec.frames) ELSE procs[p]]
    /\ exec' = [exec EXCEPT !.pc = "reply"]
    /\ UNCHANGED <<mem, next_pid, buf, shell, staging, requests, shared, halted>>

Reply ==
    /\ ExecAt("reply")
    /\ exec' = Idle(exec.mailbox)
    /\ shell' = [shell EXCEPT !.mailbox = Append(@, exec.pid)]
    /\ UNCHANGED <<mem, procs, next_pid, buf, staging, requests, shared, halted>>

ExecStep ==
    \/ MapInput \/ CreateVas \/ AllocPhys \/ StageFrame \/ MapIntoVas
    \/ SpawnWithVas \/ RegisterFrames \/ Reply

-----------------------------------------------------------------------------
(* The programs: system calls of process p *)

Programs == {p \in DOMAIN procs \ {ShellPid, ExecPid} : ~halted}

\* A page is mapped for p from a frame of its own; frame is what was allocated
\* even if the mapping then fails and the frame is lost.
MapOwn(p, v) ==
    LET a == global_alloc_4k(mem)
        w == map_page_global(a.mem, procs[p].base, v, a.frame)
    IN  IF ~check_memory_quota(procs[p]) \/ a.frame = NoFrame
        THEN [mem |-> mem, ok |-> FALSE, frame |-> NoFrame]
        ELSE [mem |-> w.mem, ok |-> w.ok, frame |-> a.frame]

SysMap(p, v) ==
    LET r == MapOwn(p, v)
    IN  /\ mem' = r.mem
        /\ procs' = IF r.ok THEN [procs EXCEPT ![p].used = @ + 1] ELSE procs
        /\ UNCHANGED <<next_pid, buf, shell, exec, staging, requests, shared, halted>>

\* Variant: the frame is registered with the sharer.
SysMapShareOwned(p, v) ==
    LET r   == MapOwn(p, v)
        cap == [kind |-> "Memory", rights |-> {"R", "W", "G"}, object |-> r.frame]
    IN  /\ r.ok
        /\ mem' = r.mem
        /\ procs' = [procs EXCEPT ![p] = cap_alloc(AddUserFrames(@, <<r.frame>>), cap)]
        /\ shared' = shared \cup {r.frame}
        /\ UNCHANGED <<next_pid, buf, shell, exec, staging, requests, halted>>

\* A Memory capability for the frame, unless the table is full.
SysMapShare(p, v) ==
    LET r   == MapOwn(p, v)
        cap == [kind |-> "Memory", rights |-> {"R", "W", "G"}, object |-> r.frame]
    IN  /\ mem' = r.mem
        /\ procs' = IF r.ok THEN [procs EXCEPT ![p] = cap_alloc([@ EXCEPT !.used = @ + 1], cap)]
                    ELSE procs
        /\ shared' = IF r.ok THEN shared \cup {r.frame} ELSE shared
        /\ UNCHANGED <<next_pid, buf, shell, exec, staging, requests, halted>>

\* cap_grant: the capability is copied.
SysCapGrant(p, i, q) ==
    /\ procs' = IF "G" \in procs[p].caps[i].rights
                THEN [procs EXCEPT ![q] = cap_alloc(@, procs[p].caps[i])] ELSE procs
    /\ UNCHANGED <<mem, next_pid, buf, shell, exec, staging, requests, shared, halted>>

SysMapCap(p, i, v) ==
    LET cap == procs[p].caps[i]
    IN  /\ mem' = IF cap.kind = "Memory" /\ "R" \in cap.rights
                  THEN map_page_global(mem, procs[p].base, v, cap.object).mem ELSE mem
        /\ UNCHANGED <<procs, next_pid, buf, shell, exec, staging, requests, shared, halted>>

SysSetQuota(p, n) ==
    /\ procs' = [procs EXCEPT ![p].quota = n]
    /\ UNCHANGED <<mem, next_pid, buf, shell, exec, staging, requests, shared, halted>>

\* SYS_EXIT or a fault
Exit(p) ==
    /\ mem' = Drop(mem, procs[p])
    /\ procs' = [q \in DOMAIN procs \ {p} |-> procs[q]]
    /\ UNCHANGED <<next_pid, buf, shell, exec, staging, requests, shared, halted>>

ProgramStep ==
    \E p \in Programs :
        \/ \E v \in UserPages :
              \/ SysMap(p, v) \/ SysMapShare(p, v)
              \/ \E i \in 1..CapTableSize : SysMapCap(p, i, v)
        \/ \E i \in 1..CapTableSize, q \in Grantees \cap DOMAIN procs : SysCapGrant(p, i, q)
        \/ \E a \in Quotas : a[1] \in DOMAIN procs /\ SysSetQuota(a[1], a[2])
        \/ Exit(p)

Halted == halted /\ UNCHANGED vars

Next == ShellStep \/ ExecStep \/ ProgramStep \/ Halted

Spec == Init /\ [][Next]_vars

-----------------------------------------------------------------------------
(* Properties *)

\* Every process has an address space, and no table is overrun.
TypeOK ==
    /\ mem.free \subseteq Frames
    /\ mem.pool \in Seq(Frames) /\ Len(mem.pool) <= PoolCap
    /\ DOMAIN mem.spaces \subseteq Frames
    /\ \A b \in DOMAIN mem.spaces : IsSpace(mem.spaces[b])
    /\ DOMAIN procs \subseteq 1..(next_pid - 1) /\ next_pid <= MaxPid + 1
    /\ Cardinality(DOMAIN procs) <= MaxProcesses
    /\ \A p \in DOMAIN procs : IsPCB(procs[p]) /\ procs[p].base \in DOMAIN mem.spaces
    /\ exec.pid \in Pids \cup {NoPid}
    /\ Len(exec.frames) <= MaxFrames

Available      == mem.free \cup Range(mem.pool)
TableFrames(b) == Range(mem.spaces[b].tables)
AllTables      == UNION {TableFrames(b) : b \in DOMAIN mem.spaces}
PageFrames(p)  == Range(mem.spaces[procs[p].base].pages) \ {CrashLog}
Owned(p)       == Range(procs[p].frames) \cup {procs[p].base}

\* No frame has two uses: what the allocators may hand out, the tables of every
\* address space, the PML4s and the frames a PCB will free on exit are apart
\* from each other (global_alloc_4k, pool_alloc_pt, register_user_frames, Drop).
FramesHaveOneUse ==
    /\ mem.free \cap Range(mem.pool) = {}
    /\ Available \cap (AllTables \cup DOMAIN mem.spaces) = {}
    /\ AllTables \cap DOMAIN mem.spaces = {}
    /\ \A b, c \in DOMAIN mem.spaces : b # c => TableFrames(b) \cap TableFrames(c) = {}
    /\ \A p \in DOMAIN procs : Owned(p) \cap (Available \cup AllTables) = {}
    /\ \A p, q \in DOMAIN procs : p # q => Owned(p) \cap Owned(q) = {}

\* What a program has mapped is never handed out to somebody else while it
\* runs, however it got the page: loaded, mapped, shared or through a
\* capability.  (Not so for the exec server, which keeps its staging pages.)
MappingsStayValid ==
    \A p \in DOMAIN procs \ {ExecPid} :
        PageFrames(p) \cap (Available \cup AllTables \cup DOMAIN mem.spaces) = {}

\* A Memory capability names a frame that was shared and still is nobody's
\* own, so SYS_MAP_CAP never maps a recycled frame, even after the process
\* that shared it has gone.
CapabilitiesStayValid ==
    \A p \in DOMAIN procs, i \in 1..CapTableSize :
        procs[p].caps[i].kind = "Memory" =>
            /\ procs[p].caps[i].object \in shared \ (Available \cup AllTables)
            /\ \A q \in DOMAIN procs : procs[p].caps[i].object \notin Owned(q)

\* Two programs have a frame in common only if it was shared.
ProgramsIsolated ==
    \A p, q \in DOMAIN procs \ {ExecPid} :
        p # q => PageFrames(p) \cap PageFrames(q) \subseteq shared

\* "Returns pml4_paddr on success, 0 on OOM": what the exec server goes on with
\* after SYS_CREATE_VAS is an address space.
VasIsReal == ExecAt("into") => exec.vas \in DOMAIN mem.spaces

=============================================================================
