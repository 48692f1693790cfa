---------------------------- MODULE ProcessTable ----------------------------
(***************************************************************************)
(* The process table of the Rost kernel and the operations the scheduler   *)
(* performs on it, as operators from a table to a table.                   *)
(*                                                                         *)
(* A table t is a function whose domain is the set of live PIDs: the Rust  *)
(* get_process(pid) is Some exactly when pid \in DOMAIN t.  PIDs are never *)
(* reused; table slots are, and every scan of the Rust code goes in slot   *)
(* order, so a PCB remembers its slot.                                     *)
(***************************************************************************)
EXTENDS Integers, Sequences, FiniteSets

CONSTANTS
    MaxPid,         \* bound on next_pid: PIDs that can ever be allocated
    MaxProcesses,   \* MAX_PROCESSES and MAX_KERNEL_STACKS (32 in the code)
    QueueCap,       \* capacity of a mailbox (16 in the code)
    TimeSlice,      \* time_slice of a PCB, in ticks (10 in the code)
    U64Max,         \* u64::MAX, "no deadline"
    RateMod         \* 2^16, the modulus of the u16 counter ipc_rate_used

ASSUME TableAssumption ==
    /\ MaxPid \in Nat /\ MaxPid >= 2
    /\ MaxProcesses \in Nat /\ MaxProcesses >= 2
    /\ QueueCap \in Nat /\ QueueCap >= 1
    /\ TimeSlice \in Nat /\ TimeSlice >= 1
    /\ U64Max \in Nat /\ U64Max >= 1
    /\ RateMod \in Nat /\ RateMod >= 1

Pids == 1..MaxPid

\* PID 0 is never allocated (next_pid starts at 1); it stands for Option::None
\* and is the pseudo-sender of messages the kernel itself sends.
None == 0

\* PIDs fixed by the boot order: init is spawned first, idle second.
InitPid == 1
IdlePid == 2

Slots  == 0..(MaxProcesses - 1)
Stacks == 0..(MaxProcesses - 1)

\* Where a process continues when it is next given the CPU: in user code, or
\* inside the system call that switched away from it.
Continuations == {"user", "recv", "call"}

\* MessageQueue: a ring of QueueCap messages.  A message is abstracted to its
\* kernel-stamped sender.
Mailboxes == {m \in Seq(Pids \cup {None}) : Len(m) <= QueueCap}

\* ProcessControlBlock
PCB == [slot             : Slots,
        stack            : Stacks,
        state            : {"Ready", "Running", "Blocked"},
        priority         : Nat,
        cpu_time         : Nat,
        budget           : Nat,
        budget_used      : Nat,
        rate_limit       : Nat,
        rate_used        : Nat,
        rt_period        : Nat,
        rt_deadline      : Nat,
        blocked_deadline : Nat,
        waiting_for      : Pids \cup {None},
        mailbox          : Mailboxes,
        pc               : Continuations]

IsTable(t) == DOMAIN t \subseteq Pids /\ t \in [DOMAIN t -> PCB]

-----------------------------------------------------------------------------
(* Creation and termination *)

\* The PCB written by new / new_ring3_into, with the priority set_priority
\* gives it before the process first runs.
NewPCB(slot, stack, priority) ==
    [slot |-> slot, stack |-> stack, state |-> "Ready", priority |-> priority,
     cpu_time |-> 0, budget |-> 0, budget_used |-> 0,
     rate_limit |-> 0, rate_used |-> 0, rt_period |-> 0, rt_deadline |-> 0,
     blocked_deadline |-> U64Max, waiting_for |-> None, mailbox |-> <<>>,
     pc |-> "user"]

UsedSlots(t) == {t[p].slot : p \in DOMAIN t}

\* s is the slot create_process fills: the first one that is None.
IsFirstFreeSlot(t, s) ==
    s \in Slots \ UsedSlots(t) /\ \A r \in Slots \ UsedSlots(t) : s <= r

create_process(t, pid, slot, stack, priority) ==
    [p \in DOMAIN t \cup {pid} |->
        IF p = pid THEN NewPCB(slot, stack, priority) ELSE t[p]]

terminate_process(t, pid) == [p \in DOMAIN t \ {pid} |-> t[p]]

-----------------------------------------------------------------------------
(* Selection of the next process *)

\* get_ready_with_priority: Running counts as Ready.
Candidates(t) == {p \in DOMAIN t : t[p].state \in {"Ready", "Running"}}

\* get_ready_realtime
Realtime(t) == {p \in Candidates(t) : t[p].rt_period > 0}

\* get_blocked_waiters, those that wait for p.
Donors(t, p) ==
    {b \in DOMAIN t : t[b].state = "Blocked" /\ t[b].waiting_for = p}

\* Variant: no donation.
NaturalPriority(t, p) == t[p].priority

\* The best (lowest) of a candidate's own priority and the donated ones.
effective_prio(t, p) ==
    LET offers == {t[p].priority} \cup {t[b].priority : b \in Donors(t, p)}
    IN  CHOOSE m \in offers : \A x \in offers : m <= x

AtMin(t) ==
    {p \in Candidates(t) :
        \A q \in Candidates(t) : effective_prio(t, p) <= effective_prio(t, q)}

\* p is the element number i (from 0) of S in slot order.
IsNth(t, S, p, i) ==
    p \in S /\ Cardinality({q \in S : t[q].slot < t[p].slot}) = i

\* The round-robin index actually used: out of range means start again at 0.
StartIndex(t, qi) == IF qi >= Cardinality(AtMin(t)) THEN 0 ELSE qi

\* Variant: the EDF tier takes the first real-time process in slot order.
PicksFirstRealtime(t, qi, p) ==
    IF Realtime(t) # {}
    THEN p \in Realtime(t) /\ \A q \in Realtime(t) \ {p} : t[p].slot < t[q].slot
    ELSE IsNth(t, AtMin(t), p, StartIndex(t, qi))

\* pick_next_priority selects p from table t with queue_index qi.  The EDF tier
\* takes the earliest deadline, the first in slot order among equals.
Picks(t, qi, p) ==
    IF Realtime(t) # {}
    THEN /\ p \in Realtime(t)
         /\ \A q \in Realtime(t) \ {p} :
               \/ t[p].rt_deadline < t[q].rt_deadline
               \/ t[p].rt_deadline = t[q].rt_deadline /\ t[p].slot < t[q].slot
    ELSE IsNth(t, AtMin(t), p, StartIndex(t, qi))

\* Variant: the index is not advanced.
IndexStays(t, qi) == IF Realtime(t) # {} THEN qi ELSE StartIndex(t, qi)

\* queue_index after the pick; the EDF tier does not touch it.
NextIndex(t, qi) ==
    IF Realtime(t) # {} THEN qi
    ELSE (StartIndex(t, qi) + 1) % Cardinality(AtMin(t))

SetRunning(t, p) == [t EXCEPT ![p].state = "Running"]

\* A process that gives up the CPU involuntarily or by yielding.
Deschedule(t, p) ==
    [t EXCEPT ![p].state = IF @ = "Running" THEN "Ready" ELSE @]

-----------------------------------------------------------------------------
(* Blocking, waking and messages *)

\* Variant: the deadline of the wait is left behind.
WakeKeepsDeadline(b) ==
    IF b.state = "Blocked"
    THEN [b EXCEPT !.state = "Ready", !.waiting_for = None] ELSE b

\* What every unblocking path does to a Blocked PCB.
Wake(b) ==
    IF b.state = "Blocked"
    THEN [b EXCEPT !.state = "Ready", !.blocked_deadline = U64Max,
                   !.waiting_for = None]
    ELSE b

\* Variant: a process is woken one tick after its deadline, or one before.
WakesLate(t, now) ==
    [p \in DOMAIN t |->
        IF t[p].state = "Blocked" /\ t[p].blocked_deadline < now
        THEN Wake(t[p]) ELSE t[p]]
WakesEarly(t, now) ==
    [p \in DOMAIN t |->
        IF t[p].state = "Blocked" /\ t[p].blocked_deadline <= now + 1
        THEN Wake(t[p]) ELSE t[p]]

\* check_deadlines
check_deadlines(t, now) ==
    [p \in DOMAIN t |->
        IF t[p].state = "Blocked" /\ t[p].blocked_deadline <= now
        THEN Wake(t[p]) ELSE t[p]]

\* Variant: the limit is checked with > instead of >=.
RefusedLate(t, from, to) ==
    \/ to \notin DOMAIN t
    \/ /\ from \in DOMAIN t
       /\ t[from].rate_limit > 0
       /\ t[from].rate_used > t[from].rate_limit

\* send_message gives up before it touches the sender.
Refused(t, from, to) ==
    \/ to \notin DOMAIN t
    \/ /\ from \in DOMAIN t
       /\ t[from].rate_limit > 0
       /\ t[from].rate_used >= t[from].rate_limit

\* Variant: the ring takes one message too many.
AcceptedWhenFull(t, from, to) ==
    ~Refused(t, from, to) /\ Len(t[to].mailbox) <= QueueCap

\* The message is enqueued and send_message returns true.
Accepted(t, from, to) ==
    ~Refused(t, from, to) /\ Len(t[to].mailbox) < QueueCap

\* The sender's rate slot is used and its wait edge is set even if the mailbox
\* turns out to be full.
Charge(t, from, to) ==
    IF from \in DOMAIN t
    THEN [t EXCEPT ![from].rate_used = (@ + 1) % RateMod,
                   ![from].waiting_for = to]
    ELSE t

\* Variant: the receiver is not woken.
DeliverSilently(t, from, to) ==
    [t EXCEPT ![to].mailbox = Append(@, from)]

Deliver(t, from, to) ==
    [t EXCEPT ![to] = Wake([t[to] EXCEPT !.mailbox = Append(@, from)])]

send_message(t, from, to) ==
    IF Refused(t, from, to) THEN t
    ELSE IF Accepted(t, from, to) THEN Deliver(Charge(t, from, to), from, to)
    ELSE Charge(t, from, to)

\* Variant: the process is not woken.
BurstSilently(t, to, n) ==
    LET room == QueueCap - Len(t[to].mailbox)
        k    == IF n < room THEN n ELSE room
    IN  IF to \notin DOMAIN t \/ room <= 0 THEN t
        ELSE [t EXCEPT ![to].mailbox = @ \o [i \in 1..k |-> None]]

\* n messages from the kernel to one process, one send_message each: those that
\* fit are enqueued, the first of them wakes it, the others are lost.
Burst(t, to, n) ==
    LET room == QueueCap - Len(t[to].mailbox)
        k    == IF n < room THEN n ELSE room
    IN  IF to \notin DOMAIN t \/ n = 0 \/ room <= 0 THEN t
        ELSE [t EXCEPT ![to] = Wake([t[to] EXCEPT
                                  !.mailbox = @ \o [i \in 1..k |-> None]])]

\* notify_process; the notification word itself is never read by the kernel.
notify_process(t, to) ==
    IF to \in DOMAIN t THEN [t EXCEPT ![to] = Wake(@)] ELSE t

\* Variants: the wait edge survives the receipt; the newest message is taken.
PopKeepsEdge(t, p) == [t EXCEPT ![p].mailbox = Tail(@)]
PopNewest(t, p) ==
    [t EXCEPT ![p].mailbox = SubSeq(@, 1, Len(@) - 1), ![p].waiting_for = None]

\* blocking_receive finds a message.
Pop(t, p) == [t EXCEPT ![p].mailbox = Tail(@), ![p].waiting_for = None]

\* tick.saturating_add(timeout), with u64::MAX for "no timeout".
DeadlineAfter(now, timeout) ==
    IF timeout = U64Max \/ now + timeout > U64Max THEN U64Max
    ELSE now + timeout

\* blocking_receive finds the mailbox empty and the timeout is not 0.
Block(t, p, now, timeout) ==
    [t EXCEPT ![p].state = "Blocked",
              ![p].blocked_deadline = DeadlineAfter(now, timeout)]

\* The process a link leads to; None once a link is missing or leads to a dead
\* process.
Follow(t, p) == IF p \in DOMAIN t THEN t[p].waiting_for ELSE None

\* detect_cycle: the waiting_for links, followed from target, lead to waiter.  The
\* Rust loop stops at the first revisited slot; a walk that revisits a slot
\* before it meets waiter never meets it.
detect_cycle(t, waiter, target) ==
    LET chain[n \in 0..MaxProcesses] ==
            IF n = 0 THEN target ELSE Follow(t, chain[n - 1])
    IN  \E n \in 1..MaxProcesses : chain[n] = waiter

\* Every member of S has an empty mailbox and last wrote to a member of S: unless
\* someone outside S interferes, S cannot make progress by receiving.
SilentCycle(t, S) ==
    S # {} /\ \A p \in S : t[p].mailbox = <<>> /\ t[p].waiting_for \in S

-----------------------------------------------------------------------------
(* Window counters and attributes *)

reset_ipc_rate_counters(t) ==
    [p \in DOMAIN t |-> [t[p] EXCEPT !.rate_used = 0]]

reset_cpu_budget_counters(t) ==
    [p \in DOMAIN t |-> [t[p] EXCEPT !.budget_used = 0]]

set_priority(t, p, prio) ==
    IF p \in DOMAIN t THEN [t EXCEPT ![p].priority = prio] ELSE t

\* Sums of u64 wrap (the kernel is built without overflow checks).
WrapAdd(a, b) == (a + b) % (U64Max + 1)

set_realtime(t, p, now, period) ==
    IF p \in DOMAIN t
    THEN [t EXCEPT ![p].rt_period = period,
                   ![p].rt_deadline = IF period > 0 THEN WrapAdd(now, period)
                                      ELSE 0]
    ELSE t

\* timer_tick: one more tick of CPU time for the running process ...
ChargeTick(b) ==
    [b EXCEPT !.cpu_time = @ + 1,
              !.budget_used = IF b.budget > 0 THEN @ + 1 ELSE @]

\* ... whose quantum, or whose budget, may now be exhausted ...
Exhausted(b) ==
    \/ b.cpu_time >= TimeSlice
    \/ b.budget > 0 /\ b.budget_used >= b.budget

\* ... in which case it is preempted, and a real-time deadline that has passed
\* is renewed.
Preempted(b, now) ==
    [b EXCEPT !.cpu_time = 0,
              !.state = IF @ = "Running" THEN "Ready" ELSE @,
              !.rt_deadline = IF b.rt_period > 0 /\ @ <= now
                              THEN WrapAdd(@, b.rt_period) ELSE @]

set_quotas(t, p, budget, limit) ==
    IF p \in DOMAIN t
    THEN [t EXCEPT ![p].budget = budget, ![p].rate_limit = limit]
    ELSE t

=============================================================================
