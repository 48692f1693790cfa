------------------------------- MODULE Kernel -------------------------------
(***************************************************************************)
(* The single-core Rost microkernel: scheduler, IPC, process lifecycle and *)
(* the handlers (system calls, faults, timer and device interrupts) that   *)
(* drive them.                                                             *)
(*                                                                         *)
(* System calls run with IF = 0 (SFMASK) and every other entry goes        *)
(* through an interrupt gate, so a handler is atomic up to the point where *)
(* it switches to another process.  What it does after that point is an    *)
(* action of its own (ResumeRecv, ResumeCall), taken when the process is   *)
(* next given the CPU; the process's pc records the point.                 *)
(***************************************************************************)
EXTENDS ProcessTable

CONSTANTS
    BootPriorities, \* priorities of the processes spawned at boot, PIDs 1, 2..
    Calls,          \* system calls made by the programs of this instance
    Timeouts,       \* timeout_ticks arguments
    Priorities,     \* priority arguments of SYS_SPAWN* and SYS_SETPRIO
    Periods,        \* period_ticks arguments of SYS_SETRT
    Budgets,        \* cpu_budget_ticks arguments of SYS_SETQUOTA
    Limits,         \* ipc_rate_limit arguments of SYS_SETQUOTA
    Names,          \* service names passed to SYS_REGISTER
    UartNames,      \* the names that start with "uart-drv"
    MaxServices,    \* entries of the service registry (16 in the code)
    Gsis,           \* interrupt lines a server may claim
    MaxBurst,       \* bytes drained from the UART FIFO by one interrupt
    RateWindow,     \* ticks between resets of ipc_rate_used (100)
    BudgetFrame,    \* CPU_BUDGET_FRAME_TICKS (1000)
    MaxTick         \* bound on the tick counter

ASSUME KernelAssumption ==
    /\ BootPriorities \in Seq(Nat)
    /\ Len(BootPriorities) \in 2..MaxPid
    /\ Len(BootPriorities) <= MaxProcesses
    /\ Timeouts \subseteq 0..U64Max
    /\ Priorities \subseteq Nat /\ Periods \subseteq Nat
    /\ Budgets \subseteq Nat /\ Limits \subseteq Nat
    /\ UartNames \subseteq Names /\ "" \notin Names
    /\ MaxServices \in Nat
    /\ MaxBurst \in Nat
    /\ RateWindow \in Nat \ {0} /\ BudgetFrame \in Nat \ {0}
    /\ MaxTick \in Nat /\ MaxTick < U64Max

VARIABLES
    procs,        \* the process table
    next_pid,     \* next PID to allocate
    current,      \* Scheduler.current_process
    cpid,         \* CURRENT_PID, the identity a handler gives its caller
    cpu,          \* the process whose context is loaded on the CPU
    rsp0,         \* the kernel stack the next entry from user mode will use
    queue_index,  \* round-robin position
    tick,         \* Scheduler.tick
    reclaim,      \* STACK_RECLAIM, last element on top
    next_stack,   \* NEXT_STACK
    services,     \* the service registry
    irq_owner,    \* irq_registry: PID notified for each interrupt line
    uart_drv      \* UART_DRV_PID

cpu_vars    == <<current, cpid, cpu, rsp0>>
stack_vars  == <<reclaim, next_stack>>
device_vars == <<irq_owner, uart_drv>>
vars == <<procs, next_pid, cpu_vars, queue_index, tick, stack_vars,
          services, device_vars>>

\* What IPC and scheduling never touch.
lifecycle_vars == <<next_pid, stack_vars, services, device_vars>>

NoStack == MaxProcesses
ServiceSlots == 0..(MaxServices - 1)
FreeEntry == [name |-> "", pid |-> None]

-----------------------------------------------------------------------------
(* Boot: init, idle and the servers are spawned in this order; the boot    *)
(* thread then becomes idle, whose state was never set to Running and for  *)
(* which RSP0 was never set.                                               *)

Init ==
    /\ procs = [p \in DOMAIN BootPriorities |->
                    NewPCB(p - 1, p - 1, BootPriorities[p])]
    /\ next_pid = Len(BootPriorities) + 1
    /\ current = IdlePid /\ cpid = IdlePid /\ cpu = IdlePid
    /\ rsp0 = NoStack
    /\ queue_index = 0
    /\ tick = 0
    /\ reclaim = <<>>
    /\ next_stack = Len(BootPriorities)
    /\ services = [s \in ServiceSlots |-> FreeEntry]
    /\ irq_owner = [g \in Gsis |-> None]
    /\ uart_drv = None

-----------------------------------------------------------------------------
(* Context switches *)

\* Variant: RSP0 keeps pointing at the old process's kernel stack.
SwitchToKeepsRsp0(t, n) ==
    current' = n /\ cpid' = n /\ cpu' = n /\ UNCHANGED rsp0

\* CURRENT_PID store, set_rsp0, switch_context_noints.
SwitchTo(t, n) ==
    current' = n /\ cpid' = n /\ cpu' = n /\ rsp0' = t[n].stack

\* Pick the next process from t and switch to it unconditionally.
Dispatch(t) ==
    \E n \in Candidates(t) :
        /\ Picks(t, queue_index, n)
        /\ queue_index' = NextIndex(t, queue_index)
        /\ procs' = SetRunning(t, n)
        /\ SwitchTo(t, n)

\* The tail of yield_switch and timer_tick: no switch if the pick is current.
KeepOrSwitch(t) ==
    \E n \in Candidates(t) :
        /\ Picks(t, queue_index, n)
        /\ queue_index' = NextIndex(t, queue_index)
        /\ procs' = SetRunning(t, n)
        /\ IF n = current THEN UNCHANGED cpu_vars ELSE SwitchTo(t, n)

\* Variant: the interrupt stub switches without storing CURRENT_PID.
RescheduleKeepsPid(t) ==
    \E n \in Candidates(t) :
        /\ Picks(t, queue_index, n)
        /\ queue_index' = NextIndex(t, queue_index)
        /\ IF n # current /\ t[n].priority < t[current].priority
           THEN /\ procs' = SetRunning(Deschedule(t, current), n)
                /\ current' = n /\ cpu' = n /\ rsp0' = t[n].stack
                /\ UNCHANGED cpid
           ELSE procs' = t /\ UNCHANGED cpu_vars

\* reschedule_isr compares natural priorities; the pick moves queue_index even
\* when no switch follows.
Reschedule(t) ==
    \E n \in Candidates(t) :
        /\ Picks(t, queue_index, n)
        /\ queue_index' = NextIndex(t, queue_index)
        /\ IF n # current /\ t[n].priority < t[current].priority
           THEN procs' = SetRunning(Deschedule(t, current), n) /\ SwitchTo(t, n)
           ELSE procs' = t /\ UNCHANGED cpu_vars

\* prepare_block_switch and the switch itself; p continues at k when it is next
\* picked, which may be at once if it was not marked Blocked.  With nobody to
\* switch to, the handler falls through to its end.
BlockSwitch(t, p, k) ==
    IF Candidates(t) = {}
    THEN procs' = t /\ UNCHANGED <<cpu_vars, queue_index>>
    ELSE Dispatch([t EXCEPT ![p].pc = k])

\* Variant: the terminated process's PID stays in CURRENT_PID.
ForceScheduleKeepsPid(t) ==
    \E n \in Candidates(t) :
        /\ Picks(t, queue_index, n)
        /\ queue_index' = NextIndex(t, queue_index)
        /\ procs' = SetRunning(t, n)
        /\ current' = n /\ cpu' = n /\ rsp0' = t[n].stack
        /\ UNCHANGED cpid

\* force_schedule_next after a termination; with nobody ready the CPU halts.
ForceSchedule(t) ==
    IF Candidates(t) = {}
    THEN /\ procs' = t /\ current' = None /\ cpu' = None
         /\ UNCHANGED <<cpid, rsp0, queue_index>>
    ELSE Dispatch(t)

-----------------------------------------------------------------------------
(* Guards *)

\* The CPU runs user code, or idle's hlt loop: interrupts are enabled.
InUser == cpu # None /\ procs[cpu].pc = "user"

\* A program makes system call c; idle makes none.
Syscall(c) == InUser /\ cpu # IdlePid /\ c \in Calls

-----------------------------------------------------------------------------
(* IPC system calls *)

SysYield ==
    /\ Syscall("yield")
    /\ KeepOrSwitch(Deschedule([procs EXCEPT ![current].cpu_time = 0], current))
    /\ UNCHANGED <<tick, lifecycle_vars>>

\* SYS_SEND, SYS_SEND_MSG
SysSend(to) ==
    /\ Syscall("send")
    /\ procs' = send_message(procs, cpid, to)
    /\ UNCHANGED <<tick, queue_index, cpu_vars, lifecycle_vars>>

SysNotify(to) ==
    /\ Syscall("notify")
    /\ procs' = notify_process(procs, to)
    /\ UNCHANGED <<tick, queue_index, cpu_vars, lifecycle_vars>>

\* SYS_RECV: timeout 0 is a poll that returns at once.
SysRecv(timeout) ==
    /\ Syscall("recv")
    /\ IF procs[cpid].mailbox # <<>>
       THEN procs' = Pop(procs, cpid) /\ UNCHANGED <<cpu_vars, queue_index>>
       ELSE IF timeout = 0 THEN UNCHANGED <<procs, cpu_vars, queue_index>>
       ELSE BlockSwitch(Block(procs, cpid, tick, timeout), cpid, "recv")
    /\ UNCHANGED <<tick, lifecycle_vars>>

\* Variant: blocks without looking into the mailbox.
SysRecvMsgBlocks(timeout) ==
    /\ Syscall("recv_msg")
    /\ BlockSwitch(IF timeout = 0 THEN procs
                   ELSE Block(procs, cpid, tick, timeout), cpid, "recv")
    /\ UNCHANGED <<tick, lifecycle_vars>>

\* SYS_RECV_MSG: as SYS_RECV, but a poll of an empty mailbox also gives up the
\* CPU, in whatever state the caller is.
SysRecvMsg(timeout) ==
    /\ Syscall("recv_msg")
    /\ IF procs[cpid].mailbox # <<>>
       THEN procs' = Pop(procs, cpid) /\ UNCHANGED <<cpu_vars, queue_index>>
       ELSE BlockSwitch(IF timeout = 0 THEN procs
                        ELSE Block(procs, cpid, tick, timeout), cpid, "recv")
    /\ UNCHANGED <<tick, lifecycle_vars>>

\* SYS_CALL: EAGAIN, EDEADLK, a message that is already there, or block.
SysCall(to, timeout) ==
    LET t == send_message(procs, cpid, to) IN
    /\ Syscall("call")
    /\ IF ~Accepted(procs, cpid, to) \/ detect_cycle(t, cpid, to)
       THEN procs' = t /\ UNCHANGED <<cpu_vars, queue_index>>
       ELSE IF t[cpid].mailbox # <<>>
       THEN procs' = Pop(t, cpid) /\ UNCHANGED <<cpu_vars, queue_index>>
       ELSE BlockSwitch(Block(t, cpid, tick, timeout), cpid, "call")
    /\ UNCHANGED <<tick, lifecycle_vars>>

\* The rest of SYS_RECV / SYS_RECV_MSG once the caller runs again: it returns
\* u64::MAX and leaves a message that woke it in the mailbox.
ResumeRecv ==
    /\ cpu # None /\ procs[cpu].pc = "recv"
    /\ procs' = [procs EXCEPT ![cpu].pc = "user"]
    /\ UNCHANGED <<tick, queue_index, cpu_vars, lifecycle_vars>>

\* The rest of SYS_CALL: take the reply, or return ETIMEDOUT.
ResumeCall ==
    /\ cpu # None /\ procs[cpu].pc = "call"
    /\ LET t == [procs EXCEPT ![cpu].pc = "user"]
       IN  procs' = IF t[cpu].mailbox # <<>> THEN Pop(t, cpu) ELSE t
    /\ UNCHANGED <<tick, queue_index, cpu_vars, lifecycle_vars>>

-----------------------------------------------------------------------------
(* Lifecycle *)

\* SYS_SPAWN, SYS_SPAWN_ELF, SYS_RESTART_SERVER, SYS_SPAWN_WITH_VAS.  With no
\* free table slot nothing happens; NEXT_STACK advances even when it is used up.
SysSpawn(prio) ==
    /\ Syscall("spawn")
    /\ next_pid <= MaxPid
    /\ \E s \in Slots :
        /\ IsFirstFreeSlot(procs, s)
        /\ IF reclaim # <<>>
           THEN /\ procs' = create_process(procs, next_pid, s,
                                           reclaim[Len(reclaim)], prio)
                /\ reclaim' = SubSeq(reclaim, 1, Len(reclaim) - 1)
                /\ next_pid' = next_pid + 1
                /\ UNCHANGED next_stack
           ELSE /\ next_stack' = next_stack + 1
                /\ IF next_stack \in Stacks
                   THEN /\ procs' = create_process(procs, next_pid, s,
                                                   next_stack, prio)
                        /\ next_pid' = next_pid + 1
                   ELSE UNCHANGED <<procs, next_pid>>
                /\ UNCHANGED reclaim
    /\ UNCHANGED <<tick, queue_index, cpu_vars, services, device_vars>>

\* service_registry::unregister_pid clears the first entry of pid only.
Unregister(pid) ==
    LET held == {s \in ServiceSlots : services[s].pid = pid}
    IN  [s \in ServiceSlots |->
            IF s \in held /\ \A r \in held : s <= r THEN FreeEntry
            ELSE services[s]]

\* Variant: the PCB is dropped without giving its kernel stack back.
TerminateLeaks(t, pid) ==
    /\ services' = Unregister(pid)
    /\ ForceSchedule(terminate_process(t, pid))
    /\ UNCHANGED <<tick, reclaim, next_pid, next_stack, device_vars>>

\* Scheduler::terminate_process applied to t, Drop of the PCB included.
Terminate(t, pid) ==
    /\ reclaim' = IF Len(reclaim) < MaxProcesses
                  THEN Append(reclaim, t[pid].stack) ELSE reclaim
    /\ services' = Unregister(pid)
    /\ ForceSchedule(terminate_process(t, pid))
    /\ UNCHANGED <<tick, next_pid, next_stack, device_vars>>

SysExit == Syscall("exit") /\ Terminate(procs, cpid)

\* A ring-3 exception: init is told, whether or not its mailbox has room, and
\* the process is terminated.
Fault ==
    /\ Syscall("fault")
    /\ Terminate(send_message(procs, cpid, InitPid), cpid)

-----------------------------------------------------------------------------
(* Attributes and registration *)

SysSetprio(p, prio) ==
    /\ Syscall("setprio")
    /\ procs' = set_priority(procs, p, prio)
    /\ UNCHANGED <<tick, queue_index, cpu_vars, lifecycle_vars>>

SysSetrt(p, period) ==
    /\ Syscall("setrt")
    /\ procs' = set_realtime(procs, p, tick, period)
    /\ UNCHANGED <<tick, queue_index, cpu_vars, lifecycle_vars>>

SysSetquota(p, budget, limit) ==
    /\ Syscall("setquota")
    /\ procs' = set_quotas(procs, p, budget, limit)
    /\ UNCHANGED <<tick, queue_index, cpu_vars, lifecycle_vars>>

\* Variant: a name that is already there is registered again.
CanRegisterAgain(name, s) ==
    LET free == {r \in ServiceSlots : services[r] = FreeEntry}
    IN  s \in free /\ \A r \in free : s <= r

\* service_registry::register: overwrite the entry of that name, or take the
\* first unused one; a full table refuses.
CanRegister(name, s) ==
    LET same == {r \in ServiceSlots : services[r].name = name}
        free == {r \in ServiceSlots : services[r] = FreeEntry}
    IN  IF same # {} THEN s \in same
        ELSE s \in free /\ \A r \in free : s <= r

SysRegister(name) ==
    /\ Syscall("register")
    /\ \E s \in ServiceSlots :
        /\ CanRegister(name, s)
        /\ services' = [services EXCEPT ![s] = [name |-> name, pid |-> cpid]]
    /\ uart_drv' = IF name \in UartNames THEN cpid ELSE uart_drv
    /\ UNCHANGED <<procs, tick, queue_index, cpu_vars, next_pid, stack_vars,
                   irq_owner>>

SysIrqRegister(gsi) ==
    /\ Syscall("irq_register")
    /\ irq_owner' = [irq_owner EXCEPT ![gsi] = cpid]
    /\ UNCHANGED <<procs, tick, queue_index, cpu_vars, next_pid, stack_vars,
                   services, uart_drv>>

-----------------------------------------------------------------------------
(* Interrupts *)

TimerTick ==
    /\ InUser /\ tick < MaxTick
    /\ tick' = tick + 1
    /\ LET woken == check_deadlines(procs, tick')
           rated == IF tick' % RateWindow = 0
                    THEN reset_ipc_rate_counters(woken) ELSE woken
           reset == IF tick' % BudgetFrame = 0
                    THEN reset_cpu_budget_counters(rated) ELSE rated
           t     == [reset EXCEPT ![current] = ChargeTick(@)]
       IN  IF Exhausted(t[current])
           THEN KeepOrSwitch([t EXCEPT ![current] = Preempted(@, tick')])
           ELSE procs' = t /\ UNCHANGED <<cpu_vars, queue_index>>
    /\ UNCHANGED lifecycle_vars

\* A device interrupt on a line some server has claimed.  The owner may be dead.
DeviceIrq(gsi) ==
    /\ InUser
    /\ irq_owner[gsi] # None
    /\ Reschedule(send_message(procs, None, irq_owner[gsi]))
    /\ UNCHANGED <<tick, lifecycle_vars>>

\* COM1 interrupt: n received bytes; none if it is spurious or for the
\* transmitter.  Without a uart-drv they are discarded.
UartIrq(n) ==
    /\ InUser /\ "uart" \in Calls
    /\ Reschedule(IF uart_drv = None THEN procs ELSE Burst(procs, uart_drv, n))
    /\ UNCHANGED <<tick, lifecycle_vars>>

-----------------------------------------------------------------------------

Next ==
    \/ SysYield
    \/ \E to \in Pids : SysSend(to) \/ SysNotify(to)
    \/ \E timeout \in Timeouts : SysRecv(timeout) \/ SysRecvMsg(timeout)
    \/ \E to \in Pids, timeout \in Timeouts \ {0} : SysCall(to, timeout)
    \/ ResumeRecv
    \/ ResumeCall
    \/ \E prio \in Priorities : SysSpawn(prio)
    \/ SysExit
    \/ Fault
    \/ \E p \in Pids, prio \in Priorities : SysSetprio(p, prio)
    \/ \E p \in Pids, period \in Periods : SysSetrt(p, period)
    \/ \E p \in Pids, budget \in Budgets, limit \in Limits :
            SysSetquota(p, budget, limit)
    \/ \E name \in Names : SysRegister(name)
    \/ \E gsi \in Gsis : SysIrqRegister(gsi) \/ DeviceIrq(gsi)
    \/ TimerTick
    \/ \E n \in 0..MaxBurst : UartIrq(n)

Spec == Init /\ [][Next]_vars

-----------------------------------------------------------------------------
(* Invariants *)

\* Every variable has its type.
TypeOK ==
    /\ IsTable(procs)
    /\ next_pid \in 3..(MaxPid + 1)
    /\ {current, cpid, cpu} \subseteq Pids \cup {None}
    /\ rsp0 \in Stacks \cup {NoStack}
    /\ queue_index \in Nat
    /\ tick \in 0..MaxTick
    /\ reclaim \in Seq(Stacks)
    /\ next_stack \in Nat
    /\ services \in [ServiceSlots -> [name : Names \cup {""}, pid : Pids \cup {None}]]
    /\ irq_owner \in [Gsis -> Pids \cup {None}]
    /\ uart_drv \in Pids \cup {None}

\* The scheduler's idea of the running process, the identity system calls use
\* and the context really loaded on the CPU are the same live process, which is
\* not Blocked, and kernel entries use its own kernel stack (idle, which never
\* leaves ring 0, needs none).  Idle is therefore always there to run.
CpuAgrees ==
    /\ cpu \in DOMAIN procs /\ current = cpu /\ cpid = cpu
    /\ procs[cpu].state # "Blocked"
    /\ cpu # IdlePid => rsp0 = procs[cpu].stack
    /\ IdlePid \in DOMAIN procs /\ procs[IdlePid].state # "Blocked"

\* No lost wake-up: a process never sleeps in SYS_RECV, SYS_RECV_MSG or SYS_CALL
\* while a message waits in its mailbox.
NoLostWakeup ==
    \A p \in DOMAIN procs : procs[p].state = "Blocked" => procs[p].mailbox = <<>>

\* A Blocked process is inside a receiving system call, its deadline lies in the
\* future, and nobody else carries a deadline (the next tick would otherwise act
\* on a stale one).
SleepersAreSound ==
    \A p \in DOMAIN procs :
        IF procs[p].state = "Blocked"
        THEN procs[p].blocked_deadline > tick /\ procs[p].pc # "user"
        ELSE procs[p].blocked_deadline = U64Max

\* No group of Blocked processes in which each waits for another of the group:
\* the wait cycle SYS_CALL's deadlock detection exists to prevent.
NoCyclicWait ==
    \A S \in SUBSET DOMAIN procs :
        S # {} => ~ \A p \in S : procs[p].state = "Blocked"
                                 /\ procs[p].waiting_for \in S

\* The stronger fact behind it, true also of processes that are not Blocked: in
\* every group with empty mailboxes someone's last message went outside the
\* group.  A message to a member would still be in the mailbox, or its receipt
\* has ended the receiver's own wait.
NoSilentCycle == \A S \in SUBSET DOMAIN procs : ~SilentCycle(procs, S)

LiveStacks == {procs[p].stack : p \in DOMAIN procs}
PoolStacks == {reclaim[i] : i \in DOMAIN reclaim}

\* Kernel stacks are neither shared nor leaked: each stack drawn from NEXT_STACK
\* so far is owned by exactly one live process or is exactly once in the pool.
\* Hence a free table slot always comes with a stack: spawning never fails for
\* want of one, although SYS_SPAWN draws from two separate pools.
StacksConserved ==
    /\ \A p, q \in DOMAIN procs : procs[p].stack = procs[q].stack => p = q
    /\ \A i, j \in DOMAIN reclaim : reclaim[i] = reclaim[j] => i = j
    /\ LiveStacks \cap PoolStacks = {}
    /\ LiveStacks \cup PoolStacks = 0..(next_stack - 1)
    /\ Slots \ UsedSlots(procs) # {} => reclaim # <<>> \/ next_stack < MaxProcesses

\* A service name resolves to one process only.
NamesUnique ==
    \A r, s \in ServiceSlots :
        services[r].name # "" /\ services[r].name = services[s].name => r = s

-----------------------------------------------------------------------------
(* What a step may never do *)

Survivors == DOMAIN procs \cap DOMAIN procs'

\* A sleeper is woken only by a message, by its deadline, or by a notification.
WakeHasCause ==
    [][\A p \in Survivors :
          procs[p].state = "Blocked" /\ procs'[p].state # "Blocked"
          => \/ procs'[p].mailbox # <<>>
             \/ tick' = tick + 1 /\ procs[p].blocked_deadline <= tick'
             \/ SysNotify(p)]_vars

\* A delivered message stays in order in its mailbox until its owner, running
\* on the CPU, takes it from the front.
MessagesKept ==
    [][\A p \in Survivors :
          LET old == procs[p].mailbox  new == procs'[p].mailbox
          IN  \/ Len(new) >= Len(old) /\ SubSeq(new, 1, Len(old)) = old
              \/ p = cpu /\ old # <<>> /\ new = Tail(old)]_vars

\* Priority inheritance: whenever the CPU changes hands and nothing is real-time,
\* no process is chosen over a ready server on which a more urgent process is
\* blocked.
NoDirectInversion ==
    [][cpu' # cpu /\ Realtime(procs') = {}
       => \A w \in DOMAIN procs' :
             /\ procs'[w].state = "Blocked"
             /\ procs'[w].waiting_for \in Candidates(procs')
             => effective_prio(procs', cpu') <= procs'[w].priority]_vars

\* Earliest deadline first: whichever handler hands the CPU over, while a real-time
\* process is ready the CPU goes to one whose deadline no other undercuts.
EarliestDeadlineFirst ==
    [][cpu' # cpu /\ Realtime(procs') # {}
       => /\ cpu' \in Realtime(procs')
          /\ \A q \in Realtime(procs') :
                procs'[cpu'].rt_deadline <= procs'[q].rt_deadline]_vars

\* A process with an IPC rate limit never has more sends counted against one
\* window than the limit allows.
RateLimited ==
    [][\A p \in Survivors :
          /\ procs[p].rate_limit > 0
          /\ procs'[p].rate_used # procs[p].rate_used
          => procs'[p].rate_used <= procs[p].rate_limit]_vars

-----------------------------------------------------------------------------
(* Claims of the repository's documents and comments that the code does not   *)
(* meet.  TLC refutes each of them within seconds on the instance of ipc.cfg   *)
(* (EdeadlkIsReal) or of lifecycle.cfg with two names (NoDeadServices).        *)

\* SYS_CALL returns EDEADLK only to a caller for which the target, directly or
\* through other Blocked processes, is already waiting.
EdeadlkIsReal ==
    LET blocked == {p \in DOMAIN procs : procs[p].state = "Blocked"}
    IN  \A to \in DOMAIN procs \ {cpid} :
            /\ Syscall("call") /\ Accepted(procs, cpid, to)
            /\ detect_cycle(send_message(procs, cpid, to), cpid, to)
            => detect_cycle([p \in blocked |-> procs[p]], cpid, to)

\* No registry entry of a terminated process remains discoverable.
NoDeadServices ==
    \A s \in ServiceSlots : services[s].pid \in DOMAIN procs \cup {None}

=============================================================================
