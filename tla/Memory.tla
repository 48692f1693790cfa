------------------------------- MODULE Memory -------------------------------
(***************************************************************************)
(* Physical frames, page tables and what a PCB records of them, as         *)
(* operators on two values:                                                *)
(*                                                                         *)
(*   m  the memory of the machine: the free-frame bitmap, the pool of      *)
(*      page-table frames and the address spaces, each named by the frame  *)
(*      of its PML4;                                                       *)
(*   t  the memory part of the process table: its domain is the set of     *)
(*      live PIDs.                                                         *)
(*                                                                         *)
(* An operation that can fail returns a record with the memory it leaves   *)
(* behind, which after a failure half-way is not the one it started with.  *)
(* Frame tags and PTE flags other than "present" are left out: the kernel  *)
(* only reports them.                                                      *)
(***************************************************************************)
EXTENDS Integers, SequencesExt

CONSTANTS
    NumFrames,      \* 4 KB frames the global allocator manages
    PoolCap,        \* PT_POOL_CAP (512 in the code)
    UserFramesMax,  \* USER_FRAMES_MAX (96)
    LoadFramesMax,  \* LOAD_FRAMES_MAX (64)
    CapTableSize,   \* CAP_TABLE_SIZE (64)
    MaxProcesses,   \* MAX_PROCESSES (32)
    MaxPid,         \* bound on next_pid
    Path,           \* Path[v]: the tables between the PML4 and page v
    KernelPath,     \* the tables that hold the kernel's entries
    Segments,       \* pages of the PT_LOAD segments of an image, in order
    StackPages,     \* pages of the user stack, in order (32 in the code)
    CrashPage       \* the page of the crash log

Frames == 1..NumFrames
Pids   == 1..MaxPid
Pages  == DOMAIN Path
Tables == UNION {Range(Path[v]) : v \in Pages}

ASSUME MemoryAssumption ==
    /\ {NumFrames, PoolCap, UserFramesMax, LoadFramesMax, CapTableSize,
        MaxProcesses, MaxPid} \subseteq Nat
    /\ \A v \in Pages : Path[v] \in Seq(Tables)
    /\ Range(KernelPath) \subseteq Tables
    /\ Range(Segments) \cup Range(StackPages) \cup {CrashPage} \subseteq Pages
    /\ Len(Segments) > 0

\* Address 0 is never allocated and stands for None; the crash log lies below
\* the frames of the allocator.
NoFrame  == 0
CrashLog == -1
NoPid    == 0

\* s is an address space: the tables that exist, the pages that are present, and
\* whether the kernel's entries have been merged in.
IsSpace(s) ==
    /\ DOMAIN s.tables \subseteq Tables /\ Range(s.tables) \subseteq Frames
    /\ DOMAIN s.pages \subseteq Pages /\ Range(s.pages) \subseteq Frames \cup {CrashLog}
    /\ s.kernel \in BOOLEAN

EmptySpace == [tables |-> <<>>, pages |-> <<>>, kernel |-> FALSE]

-----------------------------------------------------------------------------
(* Frames *)

\* The first free frame, or NoFrame.
global_alloc_4k(m) ==
    IF m.free = {} THEN [mem |-> m, frame |-> NoFrame]
    ELSE LET f == Min(m.free)
         IN  [mem |-> [m EXCEPT !.free = @ \ {f}], frame |-> f]

\* Setting the bit of a frame that is free already changes nothing.
global_free_4k(m, f) == [m EXCEPT !.free = @ \cup {f}]

pool_alloc_pt(m) ==
    IF m.pool = <<>> THEN [mem |-> m, frame |-> NoFrame]
    ELSE [mem |-> [m EXCEPT !.pool = Front(@)], frame |-> Last(m.pool)]

\* The pool first, then the bitmap.
alloc_pt_frame(m) ==
    IF m.pool = <<>> THEN global_alloc_4k(m) ELSE pool_alloc_pt(m)

\* init_global_allocator followed by pool_init.
BootMemory ==
    LET n == Min({PoolCap, NumFrames})
    IN  [free   |-> (n + 1)..NumFrames,
         pool   |-> [i \in 1..n |-> i],
         spaces |-> <<>>]

-----------------------------------------------------------------------------
(* Page tables *)

\* An allocated frame is zeroed and used as a PML4.
NewSpace(m, base) == [m EXCEPT !.spaces = (base :> EmptySpace) @@ @]

\* Table x of the space at base is created by alloc(m) if it is absent.
EnsureTable(r, base, x, alloc(_)) ==
    IF ~r.ok \/ x \in DOMAIN r.mem.spaces[base].tables THEN r
    ELSE LET a == alloc(r.mem)
         IN  IF a.frame = NoFrame THEN [r EXCEPT !.ok = FALSE]
             ELSE [r EXCEPT !.mem =
                      [a.mem EXCEPT !.spaces[base].tables = (x :> a.frame) @@ @]]

EnsurePath(m, base, path, alloc(_)) ==
    FoldLeft(LAMBDA r, x : EnsureTable(r, base, x, alloc),
             [mem |-> m, ok |-> TRUE], path)

\* Tables made before the allocator ran dry stay.  An entry already present is
\* overwritten.
map_page_global(m, base, v, f) ==
    LET w == EnsurePath(m, base, Path[v], alloc_pt_frame)
    IN  IF ~w.ok THEN w
        ELSE [w EXCEPT !.mem.spaces[base].pages = (v :> f) @@ @]

\* The tables come from the bitmap only.  Out of memory, the function returns
\* without a word and the kernel's entries are missing.
merge_kernel_into_user_pml4(m, base) ==
    LET w == EnsurePath(m, base, KernelPath, global_alloc_4k)
    IN  IF w.ok THEN [w.mem EXCEPT !.spaces[base].kernel = TRUE] ELSE w.mem

\* The caller does not look at the result either.
map_crash_log_page(m, base) == map_page_global(m, base, CrashPage, CrashLog).mem

-----------------------------------------------------------------------------
(* What a PCB holds *)

EmptyCap == [kind |-> "None", rights |-> {}, object |-> 0]

IsCap(c) ==
    \/ c = EmptyCap
    \/ c.kind = "Memory" /\ c.object \in Frames

\* page_table_base, user_frames, pml4_owned, memory_quota_pages,
\* memory_pages_used and cap_table of a ProcessControlBlock.
IsPCB(b) ==
    /\ b.base \in Frames /\ b.owned \in BOOLEAN
    /\ b.frames \in Seq(Frames) /\ Len(b.frames) <= UserFramesMax
    /\ b.quota \in Nat /\ b.used \in Nat
    /\ \A i \in 1..CapTableSize : IsCap(b.caps[i])

\* Variant: the array is not checked for being full.
TrackAlways(frames, f, max) == Append(frames, f)

\* A frame is not recorded, and never freed, when the array is full.
track(frames, f, max) == IF Len(frames) < max THEN Append(frames, f) ELSE frames

AddUserFrames(pcb, fs) ==
    FoldLeft(LAMBDA b, f : [b EXCEPT !.frames = track(@, f, UserFramesMax)], pcb, fs)

\* register_user_frames also makes the PCB the owner of its PML4.
register_user_frames(pcb, fs) == [AddUserFrames(pcb, fs) EXCEPT !.owned = TRUE]

\* create_ring3_process: no PID when every slot is taken.
NewPCB(base) ==
    [base |-> base, frames |-> <<>>, owned |-> FALSE, quota |-> 0, used |-> 0,
     caps |-> [i \in 1..CapTableSize |-> EmptyCap]]

TableFull(t) == Cardinality(DOMAIN t) >= MaxProcesses

\* Variant: every page mapped is freed, not only the frames registered.
DropFreesMappings(m, pcb) ==
    LET pages == Range(m.spaces[pcb.base].pages) \cap Frames
    IN  [m EXCEPT !.free = @ \cup pages \cup {pcb.base},
                  !.spaces = [b \in DOMAIN @ \ {pcb.base} |-> @[b]]]

\* Drop of a PCB: registered frames and the PML4 return to the bitmap, tables
\* and every other page do not.
Drop(m, pcb) ==
    LET base  == IF pcb.owned THEN {pcb.base} ELSE {}
        freed == FoldLeft(global_free_4k, m, pcb.frames \o SetToSeq(base))
    IN  [freed EXCEPT !.spaces = [b \in DOMAIN @ \ base |-> @[b]]]

check_memory_quota(pcb) == pcb.quota = 0 \/ pcb.used < pcb.quota

\* The first empty slot of a capability table, if there is one.
EmptySlots(pcb) == {i \in 1..CapTableSize : pcb.caps[i] = EmptyCap}

cap_alloc(pcb, cap) ==
    IF EmptySlots(pcb) = {} THEN pcb
    ELSE [pcb EXCEPT !.caps[Min(EmptySlots(pcb))] = cap]

=============================================================================
