---------------------------- MODULE KernelProofs ----------------------------
(***************************************************************************)
(* Proofs about Kernel, for every value of its constants.                  *)
(*                                                                         *)
(* The handlers are compositions of table operations and end in at most    *)
(* one scheduling decision, and so are the proofs: TableProofs shows that  *)
(* the table operations preserve TableInv, the lemmas on Dispatch,         *)
(* KeepOrSwitch and Reschedule add the CPU's view, and one step per action *)
(* combines them.                                                          *)
(***************************************************************************)
EXTENDS Kernel, TableProofs

\* What the scheduler maintains.
SchedInv ==
    /\ TableInv(procs, tick)
    /\ CpuAgrees
    /\ rsp0 \in Stacks \cup {NoStack}
    /\ queue_index \in Nat

\* What process creation, termination and registration maintain.
LifecycleInv ==
    /\ \A p \in DOMAIN procs : p < next_pid
    /\ next_pid \in 3..(MaxPid + 1)
    /\ reclaim \in Seq(Stacks)
    /\ next_stack \in Nat
    /\ services \in [ServiceSlots -> [name : Names \cup {""}, pid : Pids \cup {None}]]
    /\ irq_owner \in [Gsis -> Pids \cup {None}]
    /\ uart_drv \in Pids \cup {None}

\* The inductive invariant.
IInv == SchedInv /\ LifecycleInv /\ tick \in 0..MaxTick

-----------------------------------------------------------------------------
(* Scheduling decisions *)

\* The round-robin index stays a natural number.
LEMMA IndexType ==
    ASSUME NEW t, IsTable(t), NEW qi \in Nat, NEW n, Picks(t, qi, n)
    PROVE  NextIndex(t, qi) \in Nat
<1>1. CASE Realtime(t) # {}
  BY <1>1 DEF NextIndex
<1>2. CASE Realtime(t) = {}
  <2> DEFINE c == Cardinality(AtMin(t))
  <2>1. n \in AtMin(t) /\ AtMin(t) \subseteq Pids
    BY <1>2 DEF Picks, IsNth, AtMin, Candidates, IsTable
  <2>2. IsFiniteSet(AtMin(t))
    <3>1. IsFiniteSet(Pids)
      BY TableAssumption, FS_Interval DEF Pids
    <3> QED
      BY <2>1, <3>1, FS_Subset
  <2>3. c \in Nat /\ c # 0
    BY <2>1, <2>2, FS_CardinalityType, FS_EmptySet
  <2>4. StartIndex(t, qi) + 1 \in Nat
    BY <2>3 DEF StartIndex
  <2>5. NextIndex(t, qi) = (StartIndex(t, qi) + 1) % c
    BY <1>2 DEF NextIndex
  <2> HIDE DEF c
  <2> QED
    BY <2>3, <2>4, <2>5, ModType
<1> QED
  BY <1>1, <1>2

\* What a scheduling decision establishes, whatever the tables before it were.
Decided(now) ==
    /\ TableInv(procs', now)
    /\ CpuAgrees'
    /\ rsp0' \in Stacks \cup {NoStack}
    /\ queue_index' \in Nat

\* The process picked becomes current in every respect.
LEMMA SwitchDecides ==
    ASSUME NEW t, NEW now, TableInv(t, now), queue_index \in Nat,
           NEW n \in Candidates(t), Picks(t, queue_index, n),
           queue_index' = NextIndex(t, queue_index),
           NEW u, TableInv(u, now), Gentle(t, u), procs' = SetRunning(u, n),
           SwitchTo(t, n)
    PROVE  Decided(now)
<1>1. n \in DOMAIN u /\ u[n].state # "Blocked"
  BY DEF Candidates, Gentle
<1>2. TableInv(procs', now) /\ Gentle(u, procs')
  BY <1>1, RunningTable
<1>3. /\ n \in DOMAIN procs' /\ procs'[n].state # "Blocked"
      /\ procs'[n].stack = t[n].stack
  BY <1>1, <1>2 DEF Gentle
<1>4. procs'[n].stack \in Stacks
  BY <1>2, <1>3 DEF TableInv, IsTable, PCB
<1>5. queue_index' \in Nat
  BY IndexType DEF TableInv
<1>6. CpuAgrees' /\ rsp0' \in Stacks
  BY <1>2, <1>3, <1>4 DEF CpuAgrees, SwitchTo, TableInv
<1> QED
  BY <1>2, <1>5, <1>6 DEF Decided

LEMMA DispatchDecides ==
    ASSUME NEW t, NEW now, TableInv(t, now), queue_index \in Nat, Dispatch(t)
    PROVE  Decided(now)
<1>1. Gentle(t, t)
  BY DEF Gentle
<1>2. PICK n \in Candidates(t) :
        /\ Picks(t, queue_index, n)
        /\ queue_index' = NextIndex(t, queue_index)
        /\ procs' = SetRunning(t, n)
        /\ SwitchTo(t, n)
  BY DEF Dispatch
<1> QED
  BY <1>1, <1>2, SwitchDecides

\* A table derived gently from the current one, without a switch.
LEMMA StayDecides ==
    ASSUME SchedInv, NEW now, TableInv(procs', now), Gentle(procs, procs'),
           UNCHANGED cpu_vars, queue_index' \in Nat
    PROVE  Decided(now)
<1>1. CpuAgrees'
  BY DEF SchedInv, CpuAgrees, cpu_vars, Gentle, TableInv
<1> QED
  BY <1>1 DEF Decided, SchedInv, cpu_vars

\* Gentle steps compose.
LEMMA GentleTrans ==
    ASSUME NEW t, NEW u, NEW w, Gentle(t, u), Gentle(u, w)
    PROVE  Gentle(t, w)
  BY DEF Gentle

LEMMA KeepOrSwitchDecides ==
    ASSUME SchedInv, NEW t, NEW now, TableInv(t, now), Gentle(procs, t),
           KeepOrSwitch(t)
    PROVE  Decided(now)
<1>1. PICK n \in Candidates(t) :
        /\ Picks(t, queue_index, n)
        /\ queue_index' = NextIndex(t, queue_index)
        /\ procs' = SetRunning(t, n)
        /\ IF n = current THEN UNCHANGED cpu_vars ELSE SwitchTo(t, n)
  BY DEF KeepOrSwitch
<1>2. queue_index \in Nat
  BY DEF SchedInv
<1>3. CASE n # current
  <2>1. Gentle(t, t)
    BY DEF Gentle
  <2> QED
    BY <1>1, <1>2, <1>3, <2>1, SwitchDecides
<1>4. CASE n = current
  <2>1. n \in DOMAIN t /\ t[n].state # "Blocked"
    BY DEF Candidates
  <2>2. TableInv(procs', now) /\ Gentle(t, procs')
    BY <1>1, <2>1, RunningTable
  <2>3. queue_index' \in Nat
    BY <1>1, <1>2, IndexType DEF TableInv
  <2>4. Gentle(procs, procs')
    BY <2>2, GentleTrans
  <2> QED
    BY <1>1, <1>4, <2>2, <2>3, <2>4, StayDecides
<1> QED
  BY <1>3, <1>4

LEMMA RescheduleDecides ==
    ASSUME SchedInv, NEW t, NEW now, TableInv(t, now), Gentle(procs, t),
           Reschedule(t)
    PROVE  Decided(now)
<1>1. PICK n \in Candidates(t) :
        /\ Picks(t, queue_index, n)
        /\ queue_index' = NextIndex(t, queue_index)
        /\ IF n # current /\ t[n].priority < t[current].priority
           THEN procs' = SetRunning(Deschedule(t, current), n) /\ SwitchTo(t, n)
           ELSE procs' = t /\ UNCHANGED cpu_vars
  BY DEF Reschedule
<1>2. queue_index \in Nat /\ current \in DOMAIN t
  BY DEF SchedInv, CpuAgrees, Gentle
<1>3. CASE n # current /\ t[n].priority < t[current].priority
  <2>1. /\ TableInv(Deschedule(t, current), now)
        /\ Gentle(t, Deschedule(t, current))
    BY <1>2, DescheduleTable
  <2> QED
    BY <1>1, <1>2, <1>3, <2>1, SwitchDecides
<1>4. CASE ~(n # current /\ t[n].priority < t[current].priority)
  <2>1. queue_index' \in Nat
    BY <1>1, <1>2, IndexType DEF TableInv
  <2> QED
    BY <1>1, <1>4, <2>1, StayDecides
<1> QED
  BY <1>3, <1>4

-----------------------------------------------------------------------------
(* Initial states *)

\* The part of KernelAssumption that is about numbers.
LEMMA Bounds ==
    /\ BootPriorities \in Seq(Nat)
    /\ Len(BootPriorities) \in 2..MaxPid
    /\ Len(BootPriorities) <= MaxProcesses
    /\ MaxTick \in Nat /\ MaxTick < U64Max
  BY KernelAssumption, Zenon

LEMMA InitSched == Init => SchedInv
<1> SUFFICES ASSUME Init PROVE SchedInv
  OBVIOUS
<1> DEFINE B == BootPriorities
<1>1. /\ DOMAIN B = 1..Len(B) /\ DOMAIN B \subseteq Pids /\ IdlePid \in DOMAIN B
      /\ \A p \in DOMAIN B : B[p] \in Nat /\ p - 1 \in Slots /\ p - 1 \in Stacks
  BY TableAssumption, Bounds DEF Pids, IdlePid, Slots, Stacks
<1>2. DOMAIN procs = DOMAIN B
  BY DEF Init
<1>3. \A p \in DOMAIN procs :
        /\ procs[p] \in PCB /\ SoundPCB(procs[p], tick)
        /\ procs[p].state = "Ready" /\ procs[p].waiting_for = None
  <2> SUFFICES ASSUME NEW p \in DOMAIN B
               PROVE  LET b == NewPCB(p - 1, p - 1, B[p]) IN
                      /\ b \in PCB /\ SoundPCB(b, tick)
                      /\ b.state = "Ready" /\ b.waiting_for = None
    BY <1>2 DEF Init
  <2>1. p - 1 \in Slots /\ p - 1 \in Stacks /\ B[p] \in Nat
    BY <1>1
  <2> QED
    BY <2>1, NewPCBSound
<1>4. IsTable(procs)
  <2>1. procs = [p \in DOMAIN B |-> NewPCB(p - 1, p - 1, B[p])]
    BY DEF Init
  <2> QED
    BY <1>1, <1>2, <1>3, <2>1 DEF IsTable
<1>5. \A S \in SUBSET DOMAIN procs : ~SilentCycle(procs, S)
  BY <1>1, <1>2, <1>3 DEF SilentCycle, Pids, None
<1>6. TableInv(procs, tick)
  BY <1>1, <1>2, <1>3, <1>4, <1>5 DEF TableInv
<1>7. CpuAgrees
  BY <1>1, <1>2, <1>3 DEF Init, CpuAgrees
<1> QED
  BY <1>6, <1>7 DEF SchedInv, Init

LEMMA InitLifecycle == Init => LifecycleInv /\ tick \in 0..MaxTick
<1> SUFFICES ASSUME Init PROVE LifecycleInv /\ tick \in 0..MaxTick
  OBVIOUS
<1>1. /\ DOMAIN procs = 1..Len(BootPriorities)
      /\ Len(BootPriorities) \in 2..MaxPid
  BY Bounds DEF Init
<1>2. reclaim \in Seq(Stacks)
  BY DEF Init
<1>3. /\ next_stack \in Nat /\ next_pid \in 3..(MaxPid + 1)
      /\ \A p \in DOMAIN procs : p < next_pid
  BY <1>1, TableAssumption DEF Init
<1>4. /\ services \in [ServiceSlots -> [name : Names \cup {""}, pid : Pids \cup {None}]]
      /\ irq_owner \in [Gsis -> Pids \cup {None}]
      /\ uart_drv \in Pids \cup {None}
  BY DEF Init, FreeEntry
<1>5. tick \in 0..MaxTick
  BY Bounds DEF Init
<1> QED
  BY <1>2, <1>3, <1>4, <1>5 DEF LifecycleInv

-----------------------------------------------------------------------------
(* Steps: one lemma per kind of handler *)

\* Facts every handler starts from.
LEMMA Caller ==
    ASSUME IInv
    PROVE  /\ cpu \in DOMAIN procs /\ cpid = cpu /\ current = cpu
           /\ cpu \in Pids /\ DOMAIN procs \subseteq Pids
           /\ procs[cpu].state # "Blocked"
           /\ TableInv(procs, tick) /\ SchedInv
           /\ tick \in Nat /\ tick < U64Max /\ queue_index \in Nat
  BY Bounds, TableAssumption
  DEF IInv, SchedInv, CpuAgrees, TableInv, IsTable

\* A handler that changes only PCBs keeps the rest.
LEMMA FrameLifecycle ==
    ASSUME LifecycleInv, DOMAIN procs' = DOMAIN procs, UNCHANGED lifecycle_vars
    PROVE  LifecycleInv'
  BY DEF LifecycleInv, lifecycle_vars, stack_vars, device_vars

\* A handler that applies a gentle table operation and does not switch.
LEMMA GentleStep ==
    ASSUME IInv, TableInv(procs', tick), Gentle(procs, procs'),
           UNCHANGED <<tick, queue_index, cpu_vars, lifecycle_vars>>
    PROVE  IInv'
<1>1. Decided(tick)
  BY StayDecides, Caller
<1>2. LifecycleInv'
  BY FrameLifecycle DEF IInv, Gentle
<1> QED
  BY <1>1, <1>2 DEF IInv, SchedInv, Decided

\* A handler that ends in a scheduling decision over the same processes.
LEMMA DecidedStep ==
    ASSUME IInv, Decided(tick), DOMAIN procs' = DOMAIN procs,
           UNCHANGED <<tick, lifecycle_vars>>
    PROVE  IInv'
<1>1. LifecycleInv'
  BY FrameLifecycle DEF IInv
<1> QED
  BY <1>1 DEF IInv, SchedInv, Decided

\* A scheduling decision over t decides among the processes of t.
LEMMA DecidedDomain ==
    ASSUME NEW t
    PROVE  /\ Dispatch(t) => DOMAIN procs' = DOMAIN t
           /\ KeepOrSwitch(t) => DOMAIN procs' = DOMAIN t
           /\ Reschedule(t) => DOMAIN procs' = DOMAIN t
  BY DEF Dispatch, KeepOrSwitch, Reschedule, SetRunning, Deschedule

\* The caller blocks in a receiving system call and the CPU goes to another.
LEMMA BlockDecides ==
    ASSUME IInv, cpid # IdlePid, NEW t, TableInv(t, tick), Gentle(procs, t),
           t[cpid].mailbox = <<>>,
           NEW timeout \in 0..U64Max, timeout # 0, NEW k \in {"recv", "call"},
           BlockSwitch(Block(t, cpid, tick, timeout), cpid, k)
    PROVE  Decided(tick) /\ DOMAIN procs' = DOMAIN procs
<1> DEFINE b == Block(t, cpid, tick, timeout)
           u == [b EXCEPT ![cpid].pc = k]
<1>1. cpid \in DOMAIN t /\ DOMAIN t = DOMAIN procs
  BY Caller DEF Gentle
<1>2. TableInv(u, tick) /\ IdlePid \in Candidates(b)
  BY <1>1, Caller, BlockTable
<1>3. Dispatch(u)
  BY <1>2 DEF BlockSwitch
<1>4. DOMAIN u = DOMAIN procs
  BY <1>1 DEF Block
<1> HIDE DEF u
<1> QED
  BY <1>2, <1>3, <1>4, Caller, DispatchDecides, DecidedDomain

\* A call's argument is a u64.
LEMMA TimeoutType == \A timeout \in Timeouts : timeout \in 0..U64Max
  BY KernelAssumption, Zenon

\* A program takes a message from its mailbox.
LEMMA PopStep ==
    ASSUME IInv, NEW t, TableInv(t, tick), Gentle(procs, t),
           t[cpid].mailbox # <<>>, procs' = Pop(t, cpid),
           UNCHANGED <<tick, queue_index, cpu_vars, lifecycle_vars>>
    PROVE  IInv'
<1>1. cpid \in DOMAIN t
  BY Caller DEF Gentle
<1>2. TableInv(procs', tick) /\ Gentle(t, procs')
  BY <1>1, PopTable
<1>3. Gentle(procs, procs')
  BY <1>2, GentleTrans
<1> QED
  BY <1>2, <1>3, GentleStep

LEMMA YieldStep == IInv /\ SysYield => IInv'
<1> SUFFICES ASSUME IInv, SysYield PROVE IInv'
  OBVIOUS
<1> DEFINE a == [procs EXCEPT ![current].cpu_time = 0]
           t == Deschedule(a, current)
<1>1. TableInv(a, tick) /\ Gentle(procs, a)
  BY Caller, QuantumTable
<1> HIDE DEF a
<1>2. current \in DOMAIN a
  BY <1>1, Caller DEF Gentle
<1>3. TableInv(t, tick) /\ Gentle(a, t)
  BY <1>1, <1>2, DescheduleTable
<1>4. Gentle(procs, t)
  BY <1>1, <1>3, GentleTrans
<1>5. KeepOrSwitch(t) /\ UNCHANGED <<tick, lifecycle_vars>>
  BY DEF SysYield, a
<1> HIDE DEF t
<1>6. Decided(tick)
  BY <1>3, <1>4, <1>5, Caller, KeepOrSwitchDecides
<1>7. DOMAIN procs' = DOMAIN procs
  BY <1>4, <1>5, DecidedDomain DEF Gentle
<1> QED
  BY <1>5, <1>6, <1>7, DecidedStep

LEMMA SendStep == \A to \in Pids : IInv /\ (SysSend(to) \/ SysNotify(to)) => IInv'
<1> SUFFICES ASSUME NEW to \in Pids, IInv, SysSend(to) \/ SysNotify(to)
             PROVE  IInv'
  OBVIOUS
<1>1. /\ procs' \in {send_message(procs, cpid, to), notify_process(procs, to)}
      /\ UNCHANGED <<tick, queue_index, cpu_vars, lifecycle_vars>>
  BY DEF SysSend, SysNotify
<1>2. TableInv(procs', tick) /\ Gentle(procs, procs')
  BY <1>1, Caller, SendTable, NotifyTable
<1> QED
  BY <1>1, <1>2, GentleStep

LEMMA RecvStep == \A timeout \in Timeouts : IInv /\ SysRecv(timeout) => IInv'
<1> SUFFICES ASSUME NEW timeout \in Timeouts, IInv, SysRecv(timeout) PROVE IInv'
  OBVIOUS
<1>1. UNCHANGED <<tick, lifecycle_vars>> /\ Gentle(procs, procs) /\ cpid # IdlePid
  BY Caller DEF SysRecv, Gentle, Syscall
<1>2. CASE procs[cpid].mailbox # <<>>
  BY <1>1, <1>2, Caller, PopStep DEF SysRecv
<1>3. CASE procs[cpid].mailbox = <<>> /\ timeout = 0
  BY <1>1, <1>3, Caller, GentleStep DEF SysRecv
<1>4. CASE procs[cpid].mailbox = <<>> /\ timeout # 0
  <2>1. BlockSwitch(Block(procs, cpid, tick, timeout), cpid, "recv")
    BY <1>4 DEF SysRecv
  <2>2. Decided(tick) /\ DOMAIN procs' = DOMAIN procs
    BY <1>1, <1>4, <2>1, Caller, TimeoutType, BlockDecides
  <2> QED
    BY <1>1, <2>2, DecidedStep
<1> QED
  BY <1>2, <1>3, <1>4

LEMMA RecvMsgStep == \A timeout \in Timeouts : IInv /\ SysRecvMsg(timeout) => IInv'
<1> SUFFICES ASSUME NEW timeout \in Timeouts, IInv, SysRecvMsg(timeout) PROVE IInv'
  OBVIOUS
<1>1. UNCHANGED <<tick, lifecycle_vars>> /\ Gentle(procs, procs) /\ cpid # IdlePid
  BY Caller DEF SysRecvMsg, Gentle, Syscall
<1>2. CASE procs[cpid].mailbox # <<>>
  BY <1>1, <1>2, Caller, PopStep DEF SysRecvMsg
<1>3. CASE procs[cpid].mailbox = <<>> /\ timeout = 0
  <2> DEFINE u == [procs EXCEPT ![cpid].pc = "recv"]
  <2>1. BlockSwitch(procs, cpid, "recv")
    BY <1>3 DEF SysRecvMsg
  <2>2. IdlePid \in Candidates(procs)
    BY Caller DEF Candidates, TableInv, IsTable, PCB
  <2>3. Dispatch(u)
    BY <2>1, <2>2 DEF BlockSwitch
  <2>4. TableInv(u, tick) /\ DOMAIN u = DOMAIN procs
    BY Caller, PcTable DEF Continuations
  <2> HIDE DEF u
  <2>5. Decided(tick) /\ DOMAIN procs' = DOMAIN procs
    BY <2>3, <2>4, Caller, DispatchDecides, DecidedDomain
  <2> QED
    BY <1>1, <2>5, DecidedStep
<1>4. CASE procs[cpid].mailbox = <<>> /\ timeout # 0
  <2>1. BlockSwitch(Block(procs, cpid, tick, timeout), cpid, "recv")
    BY <1>4 DEF SysRecvMsg
  <2>2. Decided(tick) /\ DOMAIN procs' = DOMAIN procs
    BY <1>1, <1>4, <2>1, Caller, TimeoutType, BlockDecides
  <2> QED
    BY <1>1, <2>2, DecidedStep
<1> QED
  BY <1>2, <1>3, <1>4

LEMMA CallStep ==
    \A to \in Pids, timeout \in Timeouts \ {0} : IInv /\ SysCall(to, timeout) => IInv'
<1> SUFFICES ASSUME NEW to \in Pids, NEW timeout \in Timeouts \ {0}, IInv,
                    SysCall(to, timeout)
             PROVE  IInv'
  OBVIOUS
<1> DEFINE t == send_message(procs, cpid, to)
<1>1. TableInv(t, tick) /\ Gentle(procs, t)
  BY Caller, SendTable
<1>2. UNCHANGED <<tick, lifecycle_vars>> /\ cpid # IdlePid
  BY Caller DEF SysCall, Syscall
<1>3. \/ procs' = t /\ UNCHANGED <<cpu_vars, queue_index>>
      \/ /\ t[cpid].mailbox # <<>>
         /\ procs' = Pop(t, cpid) /\ UNCHANGED <<cpu_vars, queue_index>>
      \/ /\ t[cpid].mailbox = <<>>
         /\ BlockSwitch(Block(t, cpid, tick, timeout), cpid, "call")
  BY DEF SysCall
<1> HIDE DEF t
<1>4. CASE procs' = t /\ UNCHANGED <<cpu_vars, queue_index>>
  BY <1>1, <1>2, <1>4, GentleStep
<1>5. CASE /\ t[cpid].mailbox # <<>>
           /\ procs' = Pop(t, cpid) /\ UNCHANGED <<cpu_vars, queue_index>>
  BY <1>1, <1>2, <1>5, PopStep
<1>6. CASE /\ t[cpid].mailbox = <<>>
           /\ BlockSwitch(Block(t, cpid, tick, timeout), cpid, "call")
  <2>1. Decided(tick) /\ DOMAIN procs' = DOMAIN procs
    BY <1>1, <1>2, <1>6, TimeoutType, BlockDecides
  <2> QED
    BY <1>2, <2>1, DecidedStep
<1> QED
  BY <1>3, <1>4, <1>5, <1>6

LEMMA ResumeStep == IInv /\ (ResumeRecv \/ ResumeCall) => IInv'
<1> SUFFICES ASSUME IInv, ResumeRecv \/ ResumeCall PROVE IInv'
  OBVIOUS
<1> DEFINE t == [procs EXCEPT ![cpu].pc = "user"]
<1>1. TableInv(t, tick) /\ Gentle(procs, t)
  BY Caller, PcTable DEF Continuations
<1>2. /\ \/ procs' = t
         \/ t[cpid].mailbox # <<>> /\ procs' = Pop(t, cpid)
      /\ UNCHANGED <<tick, queue_index, cpu_vars, lifecycle_vars>>
  BY Caller DEF ResumeRecv, ResumeCall
<1> HIDE DEF t
<1>3. CASE procs' = t
  BY <1>1, <1>2, <1>3, GentleStep
<1>4. CASE t[cpid].mailbox # <<>> /\ procs' = Pop(t, cpid)
  BY <1>1, <1>2, <1>4, PopStep
<1> QED
  BY <1>2, <1>3, <1>4

-----------------------------------------------------------------------------
(* Lifecycle *)

\* A process is created; the caller keeps the CPU.
LEMMA CreateStep ==
    ASSUME IInv, next_pid <= MaxPid, NEW s \in Slots, NEW k \in Stacks,
           NEW prio \in Nat, procs' = create_process(procs, next_pid, s, k, prio),
           next_pid' = next_pid + 1, reclaim' \in Seq(Stacks), next_stack' \in Nat,
           UNCHANGED <<tick, queue_index, cpu_vars, services, device_vars>>
    PROVE  IInv'
<1>1. next_pid \in Pids /\ next_pid \notin DOMAIN procs
  <2>1. next_pid \in 3..(MaxPid + 1) /\ \A p \in DOMAIN procs : p < next_pid
    BY Zenon DEF IInv, LifecycleInv
  <2>2. next_pid \in Pids
    BY <2>1, TableAssumption DEF Pids
  <2>3. ~(next_pid < next_pid)
    BY <2>1
  <2> QED
    BY <2>1, <2>2, <2>3
<1>2. /\ TableInv(procs', tick)
      /\ \A q \in DOMAIN procs : q \in DOMAIN procs' /\ procs'[q] = procs[q]
      /\ DOMAIN procs' = DOMAIN procs \cup {next_pid}
  <2> DEFINE b == NewPCB(s, k, prio)
  <2>1. TableInv(procs, tick)
    BY Caller
  <2>2. b \in PCB /\ SoundPCB(b, tick) /\ b.waiting_for = None
    BY NewPCBSound
  <2>3. procs' = [q \in DOMAIN procs \cup {next_pid} |->
                      IF q = next_pid THEN b ELSE procs[q]]
    BY DEF create_process
  <2> HIDE DEF b
  <2>4. /\ DOMAIN procs' = DOMAIN procs \cup {next_pid}
        /\ procs'[next_pid] = b /\ \A q \in DOMAIN procs : procs'[q] = procs[q]
    BY <1>1, <2>3
  <2>5. IsTable(procs')
    BY <1>1, <2>1, <2>2, <2>3 DEF TableInv, IsTable
  <2>6. TableInv(procs', tick)
    BY <2>1, <2>2, <2>4, <2>5, CreateTable
  <2> QED
    BY <2>4, <2>6
<1>3. CpuAgrees'
  BY <1>2 DEF IInv, SchedInv, CpuAgrees, cpu_vars, TableInv
<1>4. SchedInv'
  BY <1>2, <1>3 DEF IInv, SchedInv, cpu_vars
<1>5. /\ \A p \in DOMAIN procs' : p < next_pid'
      /\ next_pid' \in 3..(MaxPid + 1)
  <2>1. next_pid \in 3..(MaxPid + 1) /\ \A p \in DOMAIN procs : p < next_pid
    BY Zenon DEF IInv, LifecycleInv
  <2>2. \A p \in DOMAIN procs : p \in Nat
    BY Caller DEF Pids
  <2> QED
    BY <1>2, <2>1, <2>2, TableAssumption
<1>6. LifecycleInv'
  BY <1>5 DEF IInv, LifecycleInv, device_vars
<1> QED
  BY <1>4, <1>6 DEF IInv

LEMMA PriorityType == Priorities \subseteq Nat /\ Periods \subseteq Nat
                      /\ Budgets \subseteq Nat /\ Limits \subseteq Nat
  BY KernelAssumption, Zenon

LEMMA SpawnStep == \A prio \in Priorities : IInv /\ SysSpawn(prio) => IInv'
<1> SUFFICES ASSUME NEW prio \in Priorities, IInv, SysSpawn(prio) PROVE IInv'
  OBVIOUS
<1>1. /\ next_pid <= MaxPid /\ prio \in Nat
      /\ UNCHANGED <<tick, queue_index, cpu_vars, services, device_vars>>
  BY PriorityType DEF SysSpawn
<1>2. reclaim \in Seq(Stacks) /\ next_stack \in Nat
  BY DEF IInv, LifecycleInv
<1>3. CASE reclaim # <<>>
  <2>1. /\ reclaim[Len(reclaim)] \in Stacks
        /\ SubSeq(reclaim, 1, Len(reclaim) - 1) \in Seq(Stacks)
    BY <1>2, <1>3
  <2>2. PICK s \in Slots :
          procs' = create_process(procs, next_pid, s, reclaim[Len(reclaim)], prio)
    BY <1>3 DEF SysSpawn
  <2>3. /\ reclaim' \in Seq(Stacks) /\ next_stack' \in Nat
        /\ next_pid' = next_pid + 1
    BY <1>2, <1>3, <2>1 DEF SysSpawn
  <2> QED
    BY <1>1, <2>1, <2>2, <2>3, CreateStep
<1>4. CASE reclaim = <<>> /\ next_stack \in Stacks
  <2>1. PICK s \in Slots :
          procs' = create_process(procs, next_pid, s, next_stack, prio)
    BY <1>4 DEF SysSpawn
  <2>2. /\ reclaim' \in Seq(Stacks) /\ next_stack' \in Nat
        /\ next_pid' = next_pid + 1
    BY <1>2, <1>4 DEF SysSpawn
  <2> QED
    BY <1>1, <1>4, <2>1, <2>2, CreateStep
<1>5. CASE reclaim = <<>> /\ next_stack \notin Stacks
  <2>1. UNCHANGED <<procs, next_pid, reclaim>> /\ next_stack' \in Nat
    BY <1>2, <1>5 DEF SysSpawn
  <2> QED
    BY <1>1, <2>1 DEF IInv, SchedInv, LifecycleInv, CpuAgrees, cpu_vars, device_vars
<1> QED
  BY <1>3, <1>4, <1>5

\* The caller is terminated.
LEMMA TerminateStep ==
    ASSUME IInv, cpid # IdlePid, NEW t, TableInv(t, tick), Gentle(procs, t),
           Terminate(t, cpid)
    PROVE  IInv'
<1> DEFINE u == terminate_process(t, cpid)
<1>1. cpid \in DOMAIN t /\ DOMAIN t = DOMAIN procs
  BY Caller DEF Gentle
<1>2. TableInv(u, tick)
  BY TerminateTable
<1>3. DOMAIN u \subseteq DOMAIN procs
  BY <1>1 DEF terminate_process
<1>4. ForceSchedule(u) /\ UNCHANGED <<tick, next_pid, next_stack, device_vars>>
  BY DEF Terminate
<1> HIDE DEF u
<1>5. IdlePid \in Candidates(u)
  BY <1>2 DEF Candidates, TableInv, IsTable, PCB
<1>6. Decided(tick) /\ DOMAIN procs' = DOMAIN u
  BY <1>2, <1>4, <1>5, Caller, DispatchDecides, DecidedDomain DEF ForceSchedule
<1>7. reclaim' \in Seq(Stacks)
  <2>1. t[cpid].stack \in Stacks
    BY <1>1 DEF TableInv, IsTable, PCB
  <2>2. reclaim \in Seq(Stacks)
    BY DEF IInv, LifecycleInv
  <2>3. reclaim' \in {reclaim, Append(reclaim, t[cpid].stack)}
    BY DEF Terminate
  <2> QED
    BY <2>1, <2>2, <2>3
<1>8. services' \in [ServiceSlots -> [name : Names \cup {""}, pid : Pids \cup {None}]]
  BY DEF Terminate, Unregister, FreeEntry, IInv, LifecycleInv
<1>9. LifecycleInv'
  BY <1>3, <1>4, <1>6, <1>7, <1>8 DEF IInv, LifecycleInv, device_vars
<1> QED
  BY <1>4, <1>6, <1>9 DEF IInv, SchedInv, Decided

LEMMA ExitStep == IInv /\ (SysExit \/ Fault) => IInv'
<1> SUFFICES ASSUME IInv, SysExit \/ Fault PROVE IInv'
  OBVIOUS
<1>1. cpid # IdlePid /\ Gentle(procs, procs) /\ InitPid \in Pids
  BY Caller, TableAssumption DEF SysExit, Fault, Syscall, Gentle, InitPid, Pids
<1>2. CASE SysExit
  BY <1>1, <1>2, Caller, TerminateStep DEF SysExit
<1>3. CASE Fault
  <2>1. /\ TableInv(send_message(procs, cpid, InitPid), tick)
        /\ Gentle(procs, send_message(procs, cpid, InitPid))
    BY <1>1, Caller, SendTable
  <2> QED
    BY <1>1, <1>3, <2>1, TerminateStep DEF Fault
<1> QED
  BY <1>2, <1>3

LEMMA AttributeStep ==
    ASSUME IInv, NEW p \in Pids,
           \/ \E x \in Priorities : SysSetprio(p, x)
           \/ \E x \in Periods : SysSetrt(p, x)
           \/ \E x \in Budgets, y \in Limits : SysSetquota(p, x, y)
    PROVE  IInv'
<1>1. PICK x \in Nat, y \in Nat :
        /\ procs' \in {set_priority(procs, p, x), set_realtime(procs, p, tick, x),
                       set_quotas(procs, p, x, y)}
        /\ UNCHANGED <<tick, queue_index, cpu_vars, lifecycle_vars>>
  BY PriorityType DEF SysSetprio, SysSetrt, SysSetquota
<1>2. TableInv(procs', tick) /\ Gentle(procs, procs')
  BY <1>1, Caller, SetTables
<1> QED
  BY <1>1, <1>2, GentleStep

\* Registration leaves the scheduler alone.
LEMMA RegisterStep ==
    ASSUME IInv, \/ \E name \in Names : SysRegister(name)
                 \/ \E gsi \in Gsis : SysIrqRegister(gsi)
    PROVE  IInv'
<1>1. UNCHANGED <<procs, tick, queue_index, cpu_vars, next_pid, stack_vars>>
  BY DEF SysRegister, SysIrqRegister
<1>2. /\ services' \in [ServiceSlots -> [name : Names \cup {""}, pid : Pids \cup {None}]]
      /\ irq_owner' \in [Gsis -> Pids \cup {None}]
      /\ uart_drv' \in Pids \cup {None}
  <2>1. cpid \in Pids
    BY Caller
  <2>2. CASE \E name \in Names : SysRegister(name)
    <3> DEFINE Entry == [name : Names \cup {""}, pid : Pids \cup {None}]
    <3>1. /\ services \in [ServiceSlots -> Entry]
          /\ irq_owner \in [Gsis -> Pids \cup {None}]
          /\ uart_drv \in Pids \cup {None}
      BY Zenon DEF IInv, LifecycleInv
    <3>2. PICK name \in Names : SysRegister(name)
      BY <2>2
    <3>3. PICK s \in ServiceSlots :
            services' = [services EXCEPT ![s] = [name |-> name, pid |-> cpid]]
      BY <3>2, Zenon DEF SysRegister
    <3>4. [name |-> name, pid |-> cpid] \in Entry
      BY <2>1
    <3>5. uart_drv' \in {cpid, uart_drv} /\ irq_owner' = irq_owner
      BY <3>2 DEF SysRegister
    <3> HIDE DEF Entry
    <3>6. services' \in [ServiceSlots -> Entry]
      BY <3>1, <3>3, <3>4
    <3> QED
      BY <2>1, <3>1, <3>5, <3>6 DEF Entry
  <2>3. CASE \E gsi \in Gsis : SysIrqRegister(gsi)
    BY <2>1, <2>3 DEF SysIrqRegister, IInv, LifecycleInv
  <2> QED
    BY <2>2, <2>3
<1> QED
  BY <1>1, <1>2 DEF IInv, SchedInv, LifecycleInv, CpuAgrees, cpu_vars, stack_vars

-----------------------------------------------------------------------------
(* Interrupts *)

LEMMA TimerStep == IInv /\ TimerTick => IInv'
<1> SUFFICES ASSUME IInv, TimerTick PROVE IInv'
  OBVIOUS
<1> DEFINE now   == tick + 1
           woken == check_deadlines(procs, now)
           rated == IF now % RateWindow = 0
                    THEN reset_ipc_rate_counters(woken) ELSE woken
           reset == IF now % BudgetFrame = 0
                    THEN reset_cpu_budget_counters(rated) ELSE rated
           t     == [reset EXCEPT ![current] = ChargeTick(@)]
           u     == [t EXCEPT ![current] = Preempted(@, now)]
<1>1. /\ tick < MaxTick /\ tick' = now /\ UNCHANGED lifecycle_vars
      /\ IF Exhausted(t[current]) THEN KeepOrSwitch(u)
         ELSE procs' = t /\ UNCHANGED <<cpu_vars, queue_index>>
  BY DEF TimerTick
<1>2. tick' \in 0..MaxTick
  <2>1. tick \in 0..MaxTick
    BY DEF IInv
  <2>2. tick < MaxTick /\ tick' = tick + 1
    BY DEF TimerTick
  <2>3. MaxTick \in Nat
    BY Bounds
  <2> QED
    BY ONLY <2>1, <2>2, <2>3
<1>3. TableInv(woken, now) /\ Gentle(procs, woken)
  BY Caller, DeadlineTable
<1> HIDE DEF now, woken
<1>4. TableInv(rated, now) /\ Gentle(procs, rated)
  BY <1>3, ResetTable, GentleTrans
<1> HIDE DEF rated
<1>5. TableInv(reset, now) /\ Gentle(procs, reset)
  BY <1>4, ResetTable, GentleTrans
<1> HIDE DEF reset
<1>6. TableInv(t, now) /\ Gentle(procs, t) /\ current \in DOMAIN t
  <2>1. current \in DOMAIN reset
    BY <1>5, Caller DEF Gentle
  <2>2. TableInv(t, now) /\ Gentle(reset, t)
    BY <1>5, <2>1, ChargeTickTable
  <2> HIDE DEF t
  <2> QED
    BY <1>5, <2>1, <2>2, GentleTrans DEF Gentle
<1> HIDE DEF t
<1>7. TableInv(u, now) /\ Gentle(procs, u)
  <2>1. TableInv(u, now) /\ Gentle(t, u)
    BY <1>6, PreemptedTable
  <2> HIDE DEF u
  <2> QED
    BY <1>6, <2>1, GentleTrans
<1> HIDE DEF u
<1>8. Decided(now) /\ DOMAIN procs' = DOMAIN procs
  <2>1. CASE Exhausted(t[current])
    <3>1. KeepOrSwitch(u)
      BY <1>1, <2>1
    <3> QED
      BY <1>7, <3>1, Caller, KeepOrSwitchDecides, DecidedDomain DEF Gentle
  <2>2. CASE ~Exhausted(t[current])
    <3>1. procs' = t /\ UNCHANGED <<cpu_vars, queue_index>>
      BY <1>1, <2>2
    <3> QED
      BY <1>6, <3>1, Caller, StayDecides DEF Gentle
  <2> QED
    BY <2>1, <2>2
<1>9. LifecycleInv'
  BY <1>1, <1>8, FrameLifecycle DEF IInv
<1> QED
  BY <1>1, <1>2, <1>8, <1>9 DEF IInv, SchedInv, Decided

\* An interrupt handler that wakes someone and reschedules.
LEMMA RescheduleStep ==
    ASSUME IInv, NEW t, TableInv(t, tick), Gentle(procs, t), Reschedule(t),
           UNCHANGED <<tick, lifecycle_vars>>
    PROVE  IInv'
<1>1. Decided(tick)
  BY Caller, RescheduleDecides
<1>2. DOMAIN procs' = DOMAIN procs
  BY DecidedDomain DEF Gentle
<1> QED
  BY <1>1, <1>2, DecidedStep

LEMMA DeviceStep == \A gsi \in Gsis : IInv /\ DeviceIrq(gsi) => IInv'
<1> SUFFICES ASSUME NEW gsi \in Gsis, IInv, DeviceIrq(gsi) PROVE IInv'
  OBVIOUS
<1> DEFINE o == irq_owner[gsi]
<1>1. o \in Pids /\ None \in Pids \cup {None}
  BY DEF DeviceIrq, IInv, LifecycleInv
<1>2. /\ Reschedule(send_message(procs, None, o))
      /\ UNCHANGED <<tick, lifecycle_vars>>
  BY DEF DeviceIrq
<1> HIDE DEF o
<1>3. /\ TableInv(send_message(procs, None, o), tick)
      /\ Gentle(procs, send_message(procs, None, o))
  BY <1>1, Caller, SendTable
<1> QED
  BY <1>2, <1>3, RescheduleStep

LEMMA UartStep == \A n \in 0..MaxBurst : IInv /\ UartIrq(n) => IInv'
<1> SUFFICES ASSUME NEW n \in 0..MaxBurst, IInv, UartIrq(n) PROVE IInv'
  OBVIOUS
<1> DEFINE t == IF uart_drv = None THEN procs ELSE Burst(procs, uart_drv, n)
<1>1. n \in Nat
  OBVIOUS
<1>2. TableInv(t, tick) /\ Gentle(procs, t)
  <2>1. Gentle(procs, procs) /\ TableInv(procs, tick)
    BY Caller DEF Gentle
  <2>2. /\ TableInv(Burst(procs, uart_drv, n), tick)
        /\ Gentle(procs, Burst(procs, uart_drv, n))
    BY <1>1, <2>1, BurstTable
  <2> QED
    BY <2>1, <2>2
<1>3. Reschedule(t) /\ UNCHANGED <<tick, lifecycle_vars>>
  BY DEF UartIrq
<1> HIDE DEF t
<1> QED
  BY <1>2, <1>3, RescheduleStep

-----------------------------------------------------------------------------
(* Theorems *)

\* The invariant holds initially and is preserved by every step.
THEOREM Inductive == Spec => []IInv
<1>1. Init => IInv
  BY InitSched, InitLifecycle DEF IInv
<1>2. IInv /\ [Next]_vars => IInv'
  <2> SUFFICES ASSUME IInv, [Next]_vars PROVE IInv'
    OBVIOUS
  <2>1. CASE UNCHANGED vars
    BY <2>1 DEF vars, IInv, SchedInv, LifecycleInv, CpuAgrees, cpu_vars,
                stack_vars, device_vars
  <2>2. CASE SysYield
    BY <2>2, YieldStep
  <2>3. CASE \E to \in Pids : SysSend(to) \/ SysNotify(to)
    BY <2>3, SendStep
  <2>4. CASE \E timeout \in Timeouts : SysRecv(timeout) \/ SysRecvMsg(timeout)
    BY <2>4, RecvStep, RecvMsgStep
  <2>5. CASE \E to \in Pids, timeout \in Timeouts \ {0} : SysCall(to, timeout)
    BY <2>5, CallStep
  <2>6. CASE ResumeRecv \/ ResumeCall
    BY <2>6, ResumeStep
  <2>7. CASE \E prio \in Priorities : SysSpawn(prio)
    BY <2>7, SpawnStep
  <2>8. CASE SysExit \/ Fault
    BY <2>8, ExitStep
  <2>9. CASE \/ \E p \in Pids, prio \in Priorities : SysSetprio(p, prio)
             \/ \E p \in Pids, period \in Periods : SysSetrt(p, period)
             \/ \E p \in Pids, budget \in Budgets, limit \in Limits :
                    SysSetquota(p, budget, limit)
    BY <2>9, AttributeStep
  <2>10. CASE \/ \E name \in Names : SysRegister(name)
              \/ \E gsi \in Gsis : SysIrqRegister(gsi)
    BY <2>10, RegisterStep
  <2>11. CASE \E gsi \in Gsis : DeviceIrq(gsi)
    BY <2>11, DeviceStep
  <2>12. CASE TimerTick
    BY <2>12, TimerStep
  <2>13. CASE \E n \in 0..MaxBurst : UartIrq(n)
    BY <2>13, UartStep
  <2> QED
    BY <2>1, <2>2, <2>3, <2>4, <2>5, <2>6, <2>7, <2>8, <2>9, <2>10, <2>11,
       <2>12, <2>13 DEF Next
<1> QED
  BY <1>1, <1>2, PTL DEF Spec

\* Every variable of the kernel always has its type.
THEOREM TypeCorrect == Spec => []TypeOK
<1>1. IInv => TypeOK
  BY DEF IInv, SchedInv, LifecycleInv, TableInv, CpuAgrees, IsTable, TypeOK
<1> QED
  BY <1>1, Inductive, PTL

\* current_process, CURRENT_PID, the loaded context and RSP0 always agree on one
\* live process that is not Blocked, and idle is always there to be picked: the
\* handlers' "no process is ready" branches are never taken.
THEOREM CpuCorrect == Spec => []CpuAgrees
<1>1. IInv => CpuAgrees
  BY DEF IInv, SchedInv
<1> QED
  BY <1>1, Inductive, PTL

\* No process ever sleeps in a receiving system call with a message waiting.
THEOREM WakeupsNotLost == Spec => []NoLostWakeup
<1>1. IInv => NoLostWakeup
  BY DEF IInv, SchedInv, TableInv, SoundPCB, NoLostWakeup
<1> QED
  BY <1>1, Inductive, PTL

\* Whoever sleeps does so inside a receiving system call and until a deadline
\* that is still ahead; nobody else carries a deadline.
THEOREM SleepersSound == Spec => []SleepersAreSound
<1>1. IInv => SleepersAreSound
  BY DEF IInv, SchedInv, TableInv, SoundPCB, SleepersAreSound
<1> QED
  BY <1>1, Inductive, PTL

\* send_message, SYS_RECV and SYS_CALL maintain the wait edges in such a way that
\* no group of processes with empty mailboxes waits for itself.
THEOREM CyclesNeverSilent == Spec => []NoSilentCycle
<1>1. IInv => NoSilentCycle
  BY DEF IInv, SchedInv, TableInv, NoSilentCycle
<1> QED
  BY <1>1, Inductive, PTL

\* No group of Blocked processes waits for itself, with or without the EDEADLK
\* check: the cycle it looks for among sleeping processes cannot arise.
THEOREM WaitsAcyclic == Spec => []NoCyclicWait
<1>1. IInv => NoCyclicWait
  BY DEF IInv, SchedInv, TableInv, SoundPCB, SilentCycle, NoCyclicWait
<1> QED
  BY <1>1, Inductive, PTL

=============================================================================
