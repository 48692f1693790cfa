--------------------------- MODULE LifecycleProofs ---------------------------
(***************************************************************************)
(* Proofs about process creation, termination and registration, for every  *)
(* value of the constants: kernel stacks are conserved and a service name  *)
(* has one owner.                                                          *)
(*                                                                         *)
(* Table slots and kernel stacks are two pools of the same size, kept by   *)
(* different code.  Counting shows that they run out together: each live   *)
(* process has a slot and a stack of its own.                              *)
(***************************************************************************)
EXTENDS KernelProofs

\* The processes of t have a slot and a stack, ...
Housed(t) == \A p \in DOMAIN t : {"slot", "stack"} \subseteq DOMAIN t[p]

\* ... which b has in common with c, ...
SameHouse(b, c) == DOMAIN c = DOMAIN b /\ c.slot = b.slot /\ c.stack = b.stack

\* ... and u with t.
SameHouses(t, u) ==
    DOMAIN u = DOMAIN t /\ \A p \in DOMAIN t : SameHouse(t[p], u[p])

\* No two processes have a slot or a stack in common.
Apart(t) ==
    \A p, q \in DOMAIN t : t[p].slot = t[q].slot \/ t[p].stack = t[q].stack => p = q

\* What creation and termination maintain; StacksConserved follows by counting.
StackInv ==
    /\ Apart(procs)
    /\ \A i, j \in DOMAIN reclaim : reclaim[i] = reclaim[j] => i = j
    /\ LiveStacks \cap PoolStacks = {}
    /\ LiveStacks \cup PoolStacks = 0..(next_stack - 1)
    /\ next_stack <= MaxProcesses

-----------------------------------------------------------------------------
(* No table operation moves a process *)

LEMMA SameHousesTrans ==
    ASSUME NEW t, NEW u, NEW w, Housed(t), SameHouses(t, u)
    PROVE  /\ Housed(u)
           /\ SameHouses(u, w) => SameHouses(t, w)
  BY DEF Housed, SameHouses, SameHouse

LEMMA WakeHouse ==
    ASSUME NEW b, {"slot", "stack"} \subseteq DOMAIN b
    PROVE  SameHouse(b, Wake(b))
  BY DEF SameHouse, Wake

\* The operations of the scheduler.
LEMMA SchedulerHouses ==
    ASSUME NEW t, Housed(t), NEW p, NEW k
    PROVE  /\ SameHouses(t, t)
           /\ SameHouses(t, SetRunning(t, p))
           /\ SameHouses(t, Deschedule(t, p))
           /\ SameHouses(t, [t EXCEPT ![p].cpu_time = 0])
           /\ SameHouses(t, [t EXCEPT ![p].pc = k])
<1>1. SameHouses(t, t) /\ SameHouses(t, SetRunning(t, p))
  BY DEF Housed, SameHouses, SameHouse, SetRunning
<1>2. SameHouses(t, Deschedule(t, p))
  BY DEF Housed, SameHouses, SameHouse, Deschedule
<1>3. /\ SameHouses(t, [t EXCEPT ![p].cpu_time = 0])
      /\ SameHouses(t, [t EXCEPT ![p].pc = k])
  BY DEF Housed, SameHouses, SameHouse
<1> QED
  BY <1>1, <1>2, <1>3

\* The operations on mailboxes.
LEMMA MailHouses ==
    ASSUME NEW t, Housed(t), NEW from, NEW to, NEW n, NEW now, NEW timeout
    PROVE  /\ SameHouses(t, send_message(t, from, to))
           /\ SameHouses(t, notify_process(t, to))
           /\ SameHouses(t, Burst(t, to, n))
           /\ SameHouses(t, Pop(t, to))
           /\ SameHouses(t, Block(t, to, now, timeout))
<1>1. SameHouses(t, Charge(t, from, to))
  BY DEF Housed, SameHouses, SameHouse, Charge
<1>2. \A u, box : Housed(u) =>
        SameHouses(u, [u EXCEPT ![to] = Wake([u[to] EXCEPT !.mailbox = box])])
  <2> TAKE u, box
  <2> HAVE Housed(u)
  <2> DEFINE b == [u[to] EXCEPT !.mailbox = box]
  <2>1. CASE to \in DOMAIN u
    <3>1. SameHouse(u[to], b) /\ {"slot", "stack"} \subseteq DOMAIN b
      BY <2>1 DEF Housed, SameHouse
    <3> HIDE DEF b
    <3>2. SameHouse(u[to], Wake(b))
      BY <3>1, WakeHouse DEF SameHouse
    <3> QED
      BY <2>1, <3>2 DEF Housed, SameHouses, SameHouse, b
  <2>2. CASE to \notin DOMAIN u
    BY <2>2 DEF Housed, SameHouses, SameHouse
  <2> QED
    BY <2>1, <2>2
<1>3. SameHouses(t, Deliver(Charge(t, from, to), from, to))
  <2> DEFINE c == Charge(t, from, to)
  <2>1. Housed(c) /\ SameHouses(t, c)
    BY <1>1, SameHousesTrans
  <2> HIDE DEF c
  <2>2. SameHouses(c, Deliver(c, from, to))
    <3> DEFINE box == Append(c[to].mailbox, from)
    <3>1. Deliver(c, from, to) = [c EXCEPT ![to] = Wake([c[to] EXCEPT !.mailbox = box])]
      BY DEF Deliver
    <3> HIDE DEF box
    <3>2. SameHouses(c, [c EXCEPT ![to] = Wake([c[to] EXCEPT !.mailbox = box])])
      BY <1>2, <2>1, Zenon
    <3> QED
      BY <3>1, <3>2, Zenon
  <2>3. SameHouses(t, Deliver(c, from, to))
    BY <2>1, <2>2, SameHousesTrans
  <2> QED
    BY <2>3 DEF c
<1>4. SameHouses(t, t)
  BY DEF SameHouses, SameHouse
<1>5. SameHouses(t, send_message(t, from, to))
  BY <1>1, <1>3, <1>4 DEF send_message
<1>6. SameHouses(t, notify_process(t, to))
  BY <1>4, WakeHouse DEF notify_process, Housed, SameHouses, SameHouse
<1>7. SameHouses(t, Burst(t, to, n))
  <2> DEFINE room == QueueCap - Len(t[to].mailbox)
             k    == IF n < room THEN n ELSE room
             box  == t[to].mailbox \o [i \in 1..k |-> None]
  <2>1. \/ Burst(t, to, n) = t
        \/ Burst(t, to, n) = [t EXCEPT ![to] = Wake([t[to] EXCEPT !.mailbox = box])]
    BY DEF Burst
  <2> HIDE DEF box
  <2> QED
    BY <1>2, <1>4, <2>1
<1>8. SameHouses(t, Pop(t, to)) /\ SameHouses(t, Block(t, to, now, timeout))
  BY DEF Pop, Block, Housed, SameHouses, SameHouse
<1> QED
  BY <1>5, <1>6, <1>7, <1>8

\* The operations of the clock and of the attribute calls.
LEMMA ClockHouses ==
    ASSUME NEW t, Housed(t), NEW p, NEW now, NEW x, NEW y
    PROVE  /\ SameHouses(t, check_deadlines(t, now))
           /\ SameHouses(t, reset_ipc_rate_counters(t))
           /\ SameHouses(t, reset_cpu_budget_counters(t))
           /\ SameHouses(t, [t EXCEPT ![p] = ChargeTick(@)])
           /\ SameHouses(t, [t EXCEPT ![p] = Preempted(@, now)])
           /\ SameHouses(t, set_priority(t, p, x))
           /\ SameHouses(t, set_realtime(t, p, now, x))
           /\ SameHouses(t, set_quotas(t, p, x, y))
<1>1. SameHouses(t, check_deadlines(t, now))
  BY WakeHouse DEF check_deadlines, Housed, SameHouses, SameHouse
<1>2. /\ SameHouses(t, reset_ipc_rate_counters(t))
      /\ SameHouses(t, reset_cpu_budget_counters(t))
  BY DEF reset_ipc_rate_counters, reset_cpu_budget_counters, Housed, SameHouses,
         SameHouse
<1>3. SameHouses(t, [t EXCEPT ![p] = ChargeTick(@)])
  BY DEF ChargeTick, Housed, SameHouses, SameHouse
<1>4. SameHouses(t, [t EXCEPT ![p] = Preempted(@, now)])
  BY DEF Preempted, Housed, SameHouses, SameHouse
<1>5. /\ SameHouses(t, set_priority(t, p, x))
      /\ SameHouses(t, set_realtime(t, p, now, x))
      /\ SameHouses(t, set_quotas(t, p, x, y))
  BY DEF set_priority, set_realtime, set_quotas, Housed, SameHouses, SameHouse
<1> QED
  BY <1>1, <1>2, <1>3, <1>4, <1>5

-----------------------------------------------------------------------------
(* No handler but spawn, exit and fault moves a process *)

LEMMA ProcsHoused == IInv => Housed(procs)
  BY DEF IInv, SchedInv, TableInv, IsTable, PCB, Housed

LEMMA DecisionHouses ==
    ASSUME NEW t, Housed(t), NEW p, NEW k
    PROVE  /\ Dispatch(t) => SameHouses(t, procs')
           /\ KeepOrSwitch(t) => SameHouses(t, procs')
           /\ Reschedule(t) => SameHouses(t, procs')
           /\ BlockSwitch(t, p, k) => SameHouses(t, procs')
<1>1. \A u : Housed(u) /\ Dispatch(u) => SameHouses(u, procs')
  BY SchedulerHouses DEF Dispatch
<1>2. KeepOrSwitch(t) => SameHouses(t, procs')
  BY SchedulerHouses DEF KeepOrSwitch
<1>3. ASSUME Reschedule(t) PROVE SameHouses(t, procs')
  <2> DEFINE u == Deschedule(t, current)
  <2>1. Housed(u) /\ SameHouses(t, u) /\ SameHouses(t, t)
    BY SchedulerHouses, SameHousesTrans
  <2>2. procs' = t \/ \E n : procs' = SetRunning(u, n)
    BY <1>3 DEF Reschedule
  <2> HIDE DEF u
  <2> QED
    BY <2>1, <2>2, SchedulerHouses, SameHousesTrans
<1>4. ASSUME BlockSwitch(t, p, k) PROVE SameHouses(t, procs')
  <2> DEFINE u == [t EXCEPT ![p].pc = k]
  <2>1. Housed(u) /\ SameHouses(t, u) /\ SameHouses(t, t)
    BY SchedulerHouses, SameHousesTrans
  <2>2. procs' = t \/ Dispatch(u)
    BY <1>4 DEF BlockSwitch
  <2> HIDE DEF u
  <2> QED
    BY <1>1, <2>1, <2>2, SameHousesTrans
<1> QED
  BY <1>1, <1>2, <1>3, <1>4

LEMMA IpcHouses ==
    ASSUME IInv, NEW to, NEW timeout,
           \/ SysYield \/ SysSend(to) \/ SysNotify(to)
           \/ SysRecv(timeout) \/ SysRecvMsg(timeout) \/ SysCall(to, timeout)
           \/ ResumeRecv \/ ResumeCall
    PROVE  SameHouses(procs, procs') /\ UNCHANGED lifecycle_vars
<1>1. Housed(procs) /\ SameHouses(procs, procs)
  BY ProcsHoused DEF SameHouses, SameHouse
<1>2. CASE SysYield
  <2> DEFINE a == [procs EXCEPT ![current].cpu_time = 0]
             t == Deschedule(a, current)
  <2>1. Housed(a) /\ SameHouses(procs, a)
    BY <1>1, SchedulerHouses, SameHousesTrans
  <2>2. KeepOrSwitch(t) /\ UNCHANGED lifecycle_vars
    BY <1>2 DEF SysYield
  <2> HIDE DEF a
  <2>3. Housed(t) /\ SameHouses(procs, t)
    BY <1>1, <2>1, SchedulerHouses, SameHousesTrans
  <2> HIDE DEF t
  <2> QED
    BY <1>1, <2>2, <2>3, DecisionHouses, SameHousesTrans
<1>3. CASE SysSend(to) \/ SysNotify(to)
  BY <1>1, <1>3, MailHouses DEF SysSend, SysNotify
<1>4. CASE SysRecv(timeout) \/ SysRecvMsg(timeout)
  <2> DEFINE b == Block(procs, cpid, tick, timeout)
  <2>1. /\ \/ procs' = procs \/ procs' = Pop(procs, cpid)
           \/ BlockSwitch(procs, cpid, "recv") \/ BlockSwitch(b, cpid, "recv")
        /\ UNCHANGED lifecycle_vars
    BY <1>4 DEF SysRecv, SysRecvMsg
  <2>2. Housed(b) /\ SameHouses(procs, b) /\ SameHouses(procs, Pop(procs, cpid))
    BY <1>1, MailHouses, SameHousesTrans
  <2> HIDE DEF b
  <2> QED
    BY <1>1, <2>1, <2>2, DecisionHouses, SameHousesTrans
<1>5. CASE SysCall(to, timeout)
  <2> DEFINE t == send_message(procs, cpid, to)
             b == Block(t, cpid, tick, timeout)
  <2>1. /\ procs' = t \/ procs' = Pop(t, cpid) \/ BlockSwitch(b, cpid, "call")
        /\ UNCHANGED lifecycle_vars
    BY <1>5 DEF SysCall
  <2>2. Housed(t) /\ SameHouses(procs, t)
    BY <1>1, MailHouses, SameHousesTrans
  <2> HIDE DEF t
  <2>3. Housed(b) /\ SameHouses(t, b) /\ SameHouses(t, Pop(t, cpid))
    BY <2>2, MailHouses, SameHousesTrans
  <2> HIDE DEF b
  <2>4. SameHouses(t, procs') \/ procs' = t
    BY <2>1, <2>2, <2>3, DecisionHouses, SameHousesTrans
  <2> QED
    BY <1>1, <2>1, <2>2, <2>4, SameHousesTrans
<1>6. CASE ResumeRecv \/ ResumeCall
  <2> DEFINE t == [procs EXCEPT ![cpu].pc = "user"]
  <2>1. (procs' = t \/ procs' = Pop(t, cpu)) /\ UNCHANGED lifecycle_vars
    BY <1>6 DEF ResumeRecv, ResumeCall
  <2>2. Housed(t) /\ SameHouses(procs, t)
    BY <1>1, SchedulerHouses, SameHousesTrans
  <2> HIDE DEF t
  <2>3. SameHouses(t, Pop(t, cpu))
    BY <2>2, MailHouses
  <2> QED
    BY <1>1, <2>1, <2>2, <2>3, SameHousesTrans
<1> QED
  BY <1>2, <1>3, <1>4, <1>5, <1>6

LEMMA InterruptHouses ==
    ASSUME IInv, TimerTick \/ (\E g \in Gsis : DeviceIrq(g))
                 \/ (\E n \in 0..MaxBurst : UartIrq(n))
    PROVE  SameHouses(procs, procs') /\ UNCHANGED lifecycle_vars
<1>1. Housed(procs) /\ SameHouses(procs, procs)
  BY ProcsHoused DEF SameHouses, SameHouse
<1>2. CASE TimerTick
  <2> DEFINE woken == check_deadlines(procs, tick')
             rated == IF tick' % RateWindow = 0
                      THEN reset_ipc_rate_counters(woken) ELSE woken
             reset == IF tick' % BudgetFrame = 0
                      THEN reset_cpu_budget_counters(rated) ELSE rated
             t     == [reset EXCEPT ![current] = ChargeTick(@)]
             u     == [t EXCEPT ![current] = Preempted(@, tick')]
  <2>1. (procs' = t \/ KeepOrSwitch(u)) /\ UNCHANGED lifecycle_vars
    BY <1>2 DEF TimerTick
  <2>2. Housed(woken) /\ SameHouses(procs, woken)
    BY <1>1, ClockHouses, SameHousesTrans
  <2> HIDE DEF woken
  <2>3. Housed(rated) /\ SameHouses(procs, rated)
    BY <1>1, <2>2, ClockHouses, SameHousesTrans
  <2> HIDE DEF rated
  <2>4. Housed(reset) /\ SameHouses(procs, reset)
    BY <1>1, <2>3, ClockHouses, SameHousesTrans
  <2> HIDE DEF reset
  <2>5. Housed(t) /\ SameHouses(procs, t)
    <3>1. SameHouses(reset, t)
      BY <2>4, ClockHouses
    <3> HIDE DEF t
    <3> QED
      BY <1>1, <2>4, <3>1, SameHousesTrans
  <2> HIDE DEF t
  <2>6. Housed(u) /\ SameHouses(procs, u)
    <3>1. SameHouses(t, u)
      BY <2>5, ClockHouses
    <3> HIDE DEF u
    <3> QED
      BY <1>1, <2>5, <3>1, SameHousesTrans
  <2> HIDE DEF u
  <2> QED
    BY <1>1, <2>1, <2>5, <2>6, DecisionHouses, SameHousesTrans
<1>3. ASSUME NEW g \in Gsis, DeviceIrq(g)
      PROVE  SameHouses(procs, procs') /\ UNCHANGED lifecycle_vars
  <2> DEFINE t == send_message(procs, None, irq_owner[g])
  <2>1. Reschedule(t) /\ UNCHANGED lifecycle_vars
    BY <1>3 DEF DeviceIrq
  <2>2. Housed(t) /\ SameHouses(procs, t)
    BY <1>1, MailHouses, SameHousesTrans
  <2> HIDE DEF t
  <2> QED
    BY <1>1, <2>1, <2>2, DecisionHouses, SameHousesTrans
<1>4. ASSUME NEW n \in 0..MaxBurst, UartIrq(n)
      PROVE  SameHouses(procs, procs') /\ UNCHANGED lifecycle_vars
  <2> DEFINE t == IF uart_drv = None THEN procs ELSE Burst(procs, uart_drv, n)
  <2>1. Reschedule(t) /\ UNCHANGED lifecycle_vars
    BY <1>4 DEF UartIrq
  <2>2. Housed(t) /\ SameHouses(procs, t)
    BY <1>1, MailHouses, SameHousesTrans
  <2> HIDE DEF t
  <2> QED
    BY <1>1, <2>1, <2>2, DecisionHouses, SameHousesTrans
<1> QED
  BY <1>2, <1>3, <1>4

\* The other handlers that are neither spawn, exit nor fault.
LEMMA OtherHouses ==
    ASSUME IInv, \/ \E p \in Pids, x \in Priorities : SysSetprio(p, x)
                 \/ \E p \in Pids, x \in Periods : SysSetrt(p, x)
                 \/ \E p \in Pids, x \in Budgets, y \in Limits : SysSetquota(p, x, y)
                 \/ \E name \in Names : SysRegister(name)
                 \/ \E gsi \in Gsis : SysIrqRegister(gsi)
    PROVE  SameHouses(procs, procs') /\ UNCHANGED stack_vars
<1>1. Housed(procs) /\ SameHouses(procs, procs)
  BY ProcsHoused DEF SameHouses, SameHouse
<1>2. PICK p, x, y :
        /\ UNCHANGED stack_vars
        /\ procs' \in {procs, set_priority(procs, p, x),
                       set_realtime(procs, p, tick, x), set_quotas(procs, p, x, y)}
  BY DEF SysSetprio, SysSetrt, SysSetquota, SysRegister, SysIrqRegister,
         lifecycle_vars
<1>3. /\ SameHouses(procs, set_priority(procs, p, x))
      /\ SameHouses(procs, set_realtime(procs, p, tick, x))
      /\ SameHouses(procs, set_quotas(procs, p, x, y))
  BY <1>1, ClockHouses
<1> QED
  BY <1>1, <1>2, <1>3

-----------------------------------------------------------------------------
(* Counting slots and stacks *)

\* The pool has room for the stack of a live process.
LEMMA PoolHasRoom ==
    ASSUME IInv, StackInv, NEW p \in DOMAIN procs
    PROVE  Len(reclaim) < MaxProcesses
<1> DEFINE k == procs[p].stack
           n == Len(reclaim)
<1>1. /\ reclaim \in Seq(Stacks) /\ n \in Nat /\ DOMAIN reclaim = 1..n
      /\ k \in Stacks /\ MaxProcesses \in Nat
  <2>1. reclaim \in Seq(Stacks) /\ TableInv(procs, tick)
    BY Zenon DEF IInv, LifecycleInv, SchedInv
  <2>2. k \in Stacks
    BY <2>1 DEF TableInv, IsTable, PCB
  <2> QED
    BY <2>1, <2>2, TableAssumption
<1>2. reclaim \in [1..n -> Stacks \ {k}]
  BY <1>1 DEF StackInv, LiveStacks, PoolStacks
<1>3. \A i, j \in 1..n : reclaim[i] = reclaim[j] => i = j
  BY <1>1 DEF StackInv
<1> HIDE DEF k, n
<1>4. /\ IsFiniteSet(1..n) /\ Cardinality(1..n) = n
      /\ IsFiniteSet(Stacks) /\ Cardinality(Stacks) = MaxProcesses
  BY <1>1, TableAssumption, FS_Interval DEF Stacks
<1>5. IsFiniteSet(Stacks \ {k}) /\ Cardinality(Stacks \ {k}) = MaxProcesses - 1
  BY <1>1, <1>4, FS_RemoveElement
<1>6. ASSUME Cardinality(Stacks \ {k}) < Cardinality(1..n) PROVE FALSE
  <2>1. \E i, j \in 1..n : i # j /\ reclaim[i] = reclaim[j]
    BY <1>2, <1>4, <1>5, <1>6, FS_PigeonHole, Zenon
  <2> QED
    BY <1>3, <2>1
<1>7. n < MaxProcesses
  BY <1>1, <1>4, <1>5, <1>6
<1> QED
  BY <1>7 DEF n

\* A free slot comes with a stack.
LEMMA SlotHasStack ==
    ASSUME IInv, StackInv, Slots \ UsedSlots(procs) # {}, reclaim = <<>>
    PROVE  next_stack < MaxProcesses
<1>0. next_stack \in Nat /\ next_stack <= MaxProcesses
  BY Zenon DEF StackInv, IInv, LifecycleInv
<1> SUFFICES ASSUME next_stack = MaxProcesses PROVE FALSE
  BY <1>0, TableAssumption
<1>1. PICK s \in Slots : s \notin UsedSlots(procs)
  OBVIOUS
<1>2. PoolStacks = {}
  BY DEF PoolStacks
<1>3. \A k \in Stacks : \E p \in DOMAIN procs : procs[p].stack = k
  BY <1>2 DEF StackInv, LiveStacks, Stacks
<1> DEFINE owner(k) == CHOOSE p \in DOMAIN procs : procs[p].stack = k
           f == [k \in Stacks |-> procs[owner(k)].slot]
<1>4. \A k \in Stacks : owner(k) \in DOMAIN procs /\ procs[owner(k)].stack = k
  BY <1>3
<1>5. \A p \in DOMAIN procs : procs[p].slot \in Slots \ {s}
  BY <1>1 DEF UsedSlots, IInv, SchedInv, TableInv, IsTable, PCB
<1> HIDE DEF owner
<1>6. f \in [Stacks -> Slots \ {s}]
  BY <1>4, <1>5
<1>7. \A j, k \in Stacks : f[j] = f[k] => j = k
  BY <1>4 DEF StackInv, Apart
<1>8. /\ IsFiniteSet(Stacks) /\ Cardinality(Stacks) = MaxProcesses
      /\ IsFiniteSet(Slots) /\ Cardinality(Slots) = MaxProcesses
      /\ MaxProcesses \in Nat
  BY TableAssumption, FS_Interval DEF Slots, Stacks
<1>9. /\ IsFiniteSet(Slots \ {s})
      /\ Cardinality(Slots \ {s}) = MaxProcesses - 1
  BY <1>8, FS_RemoveElement
<1>10. Cardinality(Slots \ {s}) < Cardinality(Stacks)
  BY <1>8, <1>9
<1> HIDE DEF f
<1> QED
  BY <1>6, <1>7, <1>8, <1>9, <1>10, FS_PigeonHole

-----------------------------------------------------------------------------
(* Steps *)

LEMMA InitStacks == Init => StackInv
<1> SUFFICES ASSUME Init PROVE StackInv
  OBVIOUS
<1> DEFINE n == Len(BootPriorities)
<1>1. n \in Nat /\ n <= MaxProcesses /\ DOMAIN BootPriorities = 1..n
  BY Bounds
<1>2. /\ DOMAIN procs = 1..n /\ reclaim = <<>> /\ next_stack = n
      /\ \A p \in 1..n : procs[p].slot = p - 1 /\ procs[p].stack = p - 1
  BY <1>1 DEF Init, NewPCB
<1> HIDE DEF n
<1>3. LiveStacks = 0..(n - 1)
  <2>1. \A k \in 0..(n - 1) : k + 1 \in 1..n /\ (k + 1) - 1 = k
    BY <1>1
  <2>2. \A k \in 0..(n - 1) : \E p \in 1..n : procs[p].stack = k
    BY <1>2, <2>1
  <2>3. \A p \in 1..n : procs[p].stack \in 0..(n - 1)
    BY <1>1, <1>2
  <2> QED
    BY <1>2, <2>2, <2>3 DEF LiveStacks
<1>4. PoolStacks = {} /\ DOMAIN reclaim = {}
  BY <1>2 DEF PoolStacks
<1>5. Apart(procs)
  BY <1>1, <1>2 DEF Apart
<1> QED
  BY <1>1, <1>2, <1>3, <1>4, <1>5 DEF StackInv

\* A handler that leaves every process where it is.
LEMMA FrameStacks ==
    ASSUME StackInv, SameHouses(procs, procs'), UNCHANGED stack_vars
    PROVE  StackInv'
<1>1. LiveStacks' = LiveStacks /\ PoolStacks' = PoolStacks
  BY DEF SameHouses, SameHouse, LiveStacks, PoolStacks, stack_vars
<1>2. Apart(procs)'
  BY DEF StackInv, Apart, SameHouses, SameHouse
<1> QED
  BY <1>1, <1>2 DEF StackInv, stack_vars

\* A process is created in a free slot on a stack that is nobody's.
LEMMA CreateApart ==
    ASSUME Apart(procs), NEW pid, pid \notin DOMAIN procs,
           NEW s, s \notin UsedSlots(procs), NEW k, k \notin LiveStacks, NEW prio,
           procs' = create_process(procs, pid, s, k, prio)
    PROVE  Apart(procs)' /\ LiveStacks' = LiveStacks \cup {k}
<1> DEFINE b == NewPCB(s, k, prio)
<1>1. b.slot = s /\ b.stack = k
  BY DEF NewPCB
<1>2. procs' = [q \in DOMAIN procs \cup {pid} |-> IF q = pid THEN b ELSE procs[q]]
  BY DEF create_process
<1> HIDE DEF b
<1>3. /\ DOMAIN procs' = DOMAIN procs \cup {pid}
      /\ procs'[pid] = b /\ \A q \in DOMAIN procs : procs'[q] = procs[q]
  BY <1>2
<1>4. Apart(procs)'
  BY <1>1, <1>3 DEF Apart, UsedSlots, LiveStacks
<1>5. LiveStacks' = LiveStacks \cup {k}
  BY <1>1, <1>3 DEF LiveStacks
<1> QED
  BY <1>4, <1>5

\* Taking the top of the pool.
LEMMA PoolPop ==
    ASSUME NEW r \in Seq(Stacks), r # <<>>,
           \A i, j \in DOMAIN r : r[i] = r[j] => i = j
    PROVE  LET q == SubSeq(r, 1, Len(r) - 1)
               k == r[Len(r)]
           IN  /\ \A i, j \in DOMAIN q : q[i] = q[j] => i = j
               /\ {q[i] : i \in DOMAIN q} = {r[i] : i \in DOMAIN r} \ {k}
               /\ k \in {r[i] : i \in DOMAIN r}
<1> DEFINE n == Len(r)
           q == SubSeq(r, 1, n - 1)
<1>1. n \in Nat \ {0} /\ DOMAIN r = 1..n
  OBVIOUS
<1>2. DOMAIN q = 1..(n - 1) /\ \A i \in 1..(n - 1) : q[i] = r[i]
  BY <1>1
<1> HIDE DEF q
<1>3. 1..n = (1..(n - 1)) \cup {n} /\ n \notin 1..(n - 1)
  BY <1>1
<1> HIDE DEF n
<1>4. /\ \A i, j \in DOMAIN q : q[i] = q[j] => i = j
      /\ {q[i] : i \in DOMAIN q} = {r[i] : i \in DOMAIN r} \ {r[n]}
      /\ r[n] \in {r[i] : i \in DOMAIN r}
  BY <1>1, <1>2, <1>3
<1> QED
  BY <1>4 DEF q, n

\* Putting a stack back.
LEMMA PoolPush ==
    ASSUME NEW r \in Seq(Stacks), NEW k \in Stacks,
           k \notin {r[i] : i \in DOMAIN r},
           \A i, j \in DOMAIN r : r[i] = r[j] => i = j
    PROVE  LET q == Append(r, k)
           IN  /\ \A i, j \in DOMAIN q : q[i] = q[j] => i = j
               /\ {q[i] : i \in DOMAIN q} = {r[i] : i \in DOMAIN r} \cup {k}
<1> DEFINE n == Len(r)
           q == Append(r, k)
<1>1. n \in Nat /\ DOMAIN r = 1..n
  OBVIOUS
<1>2. DOMAIN q = 1..(n + 1) /\ q[n + 1] = k /\ \A i \in 1..n : q[i] = r[i]
  BY <1>1
<1> HIDE DEF q
<1>3. 1..(n + 1) = (1..n) \cup {n + 1} /\ n + 1 \notin 1..n
  BY <1>1
<1> HIDE DEF n
<1>4. /\ \A i, j \in DOMAIN q : q[i] = q[j] => i = j
      /\ {q[i] : i \in DOMAIN q} = {r[i] : i \in DOMAIN r} \cup {k}
  BY <1>1, <1>2, <1>3
<1> QED
  BY <1>4 DEF q

LEMMA SpawnStacks ==
    ASSUME IInv, StackInv, NEW prio, SysSpawn(prio)
    PROVE  StackInv'
<1>1. /\ reclaim \in Seq(Stacks) /\ next_stack \in Nat
      /\ next_pid \in 3..(MaxPid + 1) /\ \A p \in DOMAIN procs : p < next_pid
  BY Zenon DEF IInv, LifecycleInv
<1>2. next_pid \notin DOMAIN procs
  <2>1. ~(next_pid < next_pid)
    BY <1>1
  <2> QED
    BY <1>1, <2>1
<1>3. PICK s \in Slots \ UsedSlots(procs) :
        IF reclaim # <<>>
        THEN /\ procs' = create_process(procs, next_pid, s, reclaim[Len(reclaim)], prio)
             /\ reclaim' = SubSeq(reclaim, 1, Len(reclaim) - 1)
             /\ UNCHANGED next_stack
        ELSE /\ next_stack' = next_stack + 1
             /\ next_stack \in Stacks =>
                    procs' = create_process(procs, next_pid, s, next_stack, prio)
             /\ UNCHANGED reclaim
  BY DEF SysSpawn, IsFirstFreeSlot
<1>4. CASE reclaim # <<>>
  <2> DEFINE k == reclaim[Len(reclaim)]
  <2>1. /\ \A i, j \in DOMAIN reclaim' : reclaim'[i] = reclaim'[j] => i = j
        /\ PoolStacks' = PoolStacks \ {k} /\ k \in PoolStacks
    <3> DEFINE q == SubSeq(reclaim, 1, Len(reclaim) - 1)
    <3>1. \A i, j \in DOMAIN reclaim : reclaim[i] = reclaim[j] => i = j
      BY DEF StackInv
    <3>2. /\ \A i, j \in DOMAIN q : q[i] = q[j] => i = j
          /\ {q[i] : i \in DOMAIN q} = {reclaim[i] : i \in DOMAIN reclaim} \ {k}
          /\ k \in {reclaim[i] : i \in DOMAIN reclaim}
      BY <1>1, <1>4, <3>1, PoolPop
    <3>3. reclaim' = q
      BY <1>3, <1>4
    <3> HIDE DEF q, k
    <3> QED
      BY <3>2, <3>3 DEF PoolStacks
  <2>2. procs' = create_process(procs, next_pid, s, k, prio)
    BY <1>3, <1>4
  <2> HIDE DEF k
  <2>3. k \notin LiveStacks
    BY <2>1 DEF StackInv
  <2>4. Apart(procs)' /\ LiveStacks' = LiveStacks \cup {k}
    BY <1>2, <2>2, <2>3, CreateApart DEF StackInv
  <2>5. next_stack' = next_stack
    BY <1>3, <1>4
  <2> QED
    BY <2>1, <2>3, <2>4, <2>5 DEF StackInv
<1>5. CASE reclaim = <<>>
  <2>1. next_stack < MaxProcesses
    BY <1>5, SlotHasStack
  <2>2. /\ next_stack \in Stacks
        /\ next_stack + 1 <= MaxProcesses
        /\ next_stack \notin 0..(next_stack - 1)
        /\ 0..((next_stack + 1) - 1) = 0..(next_stack - 1) \cup {next_stack}
    BY <1>1, <2>1, TableAssumption DEF Stacks
  <2>3. /\ procs' = create_process(procs, next_pid, s, next_stack, prio)
        /\ next_stack' = next_stack + 1 /\ reclaim' = reclaim
    BY <1>3, <1>5, <2>2
  <2>4. next_stack \notin LiveStacks /\ next_stack \notin PoolStacks
    BY <2>2 DEF StackInv
  <2>5. Apart(procs)' /\ LiveStacks' = LiveStacks \cup {next_stack}
    BY <1>2, <2>3, <2>4, CreateApart DEF StackInv
  <2>6. PoolStacks' = PoolStacks
    BY <2>3 DEF PoolStacks
  <2> QED
    BY <2>2, <2>3, <2>4, <2>5, <2>6 DEF StackInv
<1> QED
  BY <1>4, <1>5

LEMMA TerminateStacks ==
    ASSUME IInv, StackInv, SysExit \/ Fault
    PROVE  StackInv'
<1>1. PICK t : Terminate(t, cpid) /\ Housed(t) /\ SameHouses(procs, t)
  <2>1. Housed(procs) /\ SameHouses(procs, procs)
    BY ProcsHoused DEF SameHouses, SameHouse
  <2>2. CASE SysExit
    BY <2>1, <2>2 DEF SysExit
  <2>3. CASE Fault
    <3> DEFINE u == send_message(procs, cpid, InitPid)
    <3>1. Terminate(u, cpid)
      BY <2>3 DEF Fault
    <3>2. Housed(u) /\ SameHouses(procs, u)
      BY <2>1, MailHouses, SameHousesTrans
    <3> HIDE DEF u
    <3> QED
      BY <3>1, <3>2
  <2> QED
    BY <2>2, <2>3
<1> DEFINE u == terminate_process(t, cpid)
           k == procs[cpid].stack
<1>2. /\ cpid \in DOMAIN procs /\ k \in Stacks /\ Len(reclaim) < MaxProcesses
      /\ reclaim \in Seq(Stacks) /\ t[cpid].stack = k
  <2>1. cpid \in DOMAIN procs /\ TableInv(procs, tick)
    BY Caller
  <2>2. reclaim \in Seq(Stacks)
    BY Zenon DEF IInv, LifecycleInv
  <2>3. k \in Stacks /\ t[cpid].stack = k
    BY <1>1, <2>1 DEF TableInv, IsTable, PCB, SameHouses, SameHouse
  <2> QED
    BY <2>1, <2>2, <2>3, PoolHasRoom
<1>3. /\ DOMAIN u = DOMAIN procs \ {cpid}
      /\ \A p \in DOMAIN u : u[p].slot = procs[p].slot /\ u[p].stack = procs[p].stack
      /\ Housed(u)
  BY <1>1 DEF terminate_process, SameHouses, SameHouse, Housed
<1>4. ForceSchedule(u) /\ reclaim' = Append(reclaim, k) /\ next_stack' = next_stack
  BY <1>1, <1>2 DEF Terminate
<1> HIDE DEF u
<1>5. SameHouses(u, procs')
  <2>1. SameHouses(u, u)
    BY DEF SameHouses, SameHouse
  <2> QED
    BY <1>3, <1>4, <2>1, DecisionHouses DEF ForceSchedule
<1>6. /\ DOMAIN procs' = DOMAIN procs \ {cpid}
      /\ \A p \in DOMAIN procs' : /\ procs'[p].slot = procs[p].slot
                                  /\ procs'[p].stack = procs[p].stack
  BY <1>3, <1>5 DEF SameHouses, SameHouse
<1>7. Apart(procs)' /\ k \in LiveStacks /\ LiveStacks' = LiveStacks \ {k}
  <2>1. Apart(procs)'
    BY <1>6 DEF StackInv, Apart
  <2>2. \A p \in DOMAIN procs : procs[p].stack = k => p = cpid
    BY <1>2 DEF StackInv, Apart
  <2>3. k \in LiveStacks
    BY <1>2 DEF LiveStacks
  <2>4. LiveStacks' = {procs[p].stack : p \in DOMAIN procs \ {cpid}}
    BY <1>6 DEF LiveStacks
  <2> HIDE DEF k
  <2>5. LiveStacks' = LiveStacks \ {k}
    <3>1. procs[cpid].stack = k
      BY DEF k
    <3> QED
      BY <2>2, <2>4, <3>1 DEF LiveStacks
  <2> QED
    BY <2>1, <2>3, <2>5
<1> HIDE DEF k
<1>8. /\ \A i, j \in DOMAIN reclaim' : reclaim'[i] = reclaim'[j] => i = j
      /\ PoolStacks' = PoolStacks \cup {k}
  <2>1. k \notin PoolStacks
    BY <1>7 DEF StackInv
  <2> QED
    BY <1>2, <1>4, <2>1, PoolPush DEF StackInv, PoolStacks
<1> QED
  BY <1>4, <1>7, <1>8 DEF StackInv

-----------------------------------------------------------------------------
(* Theorems *)

LEMMA StacksStep == IInv /\ StackInv /\ [Next]_vars => StackInv'
<1> SUFFICES ASSUME IInv, StackInv, [Next]_vars PROVE StackInv'
  OBVIOUS
<1>1. CASE UNCHANGED vars
  <2>1. SameHouses(procs, procs') /\ UNCHANGED stack_vars
    BY <1>1 DEF vars, SameHouses, SameHouse
  <2> QED
    BY <2>1, FrameStacks
<1>2. CASE \/ SysYield \/ ResumeRecv \/ ResumeCall
           \/ \E to \in Pids : SysSend(to) \/ SysNotify(to)
           \/ \E timeout \in Timeouts : SysRecv(timeout) \/ SysRecvMsg(timeout)
           \/ \E to \in Pids, timeout \in Timeouts \ {0} : SysCall(to, timeout)
  BY <1>2, IpcHouses, FrameStacks DEF lifecycle_vars
<1>3. CASE \/ TimerTick \/ (\E g \in Gsis : DeviceIrq(g))
           \/ (\E n \in 0..MaxBurst : UartIrq(n))
  BY <1>3, InterruptHouses, FrameStacks DEF lifecycle_vars
<1>4. CASE \/ \E p \in Pids, x \in Priorities : SysSetprio(p, x)
           \/ \E p \in Pids, x \in Periods : SysSetrt(p, x)
           \/ \E p \in Pids, x \in Budgets, y \in Limits : SysSetquota(p, x, y)
           \/ \E name \in Names : SysRegister(name)
           \/ \E gsi \in Gsis : SysIrqRegister(gsi)
  BY <1>4, OtherHouses, FrameStacks
<1>5. CASE \E prio \in Priorities : SysSpawn(prio)
  BY <1>5, SpawnStacks
<1>6. CASE SysExit \/ Fault
  BY <1>6, TerminateStacks
<1> QED
  BY <1>1, <1>2, <1>3, <1>4, <1>5, <1>6 DEF Next

\* Every kernel stack handed out so far belongs to exactly one live process or is
\* exactly once in STACK_RECLAIM, and SYS_SPAWN never finds a table slot without
\* finding a stack, for every size of the table and any history of spawns,
\* exits and faults.
THEOREM StacksKept == Spec => []StacksConserved
<1>1. IInv /\ StackInv => StacksConserved
  BY SlotHasStack DEF StackInv, Apart, StacksConserved
<1>2. Spec => []StackInv
  BY InitStacks, StacksStep, Inductive, PTL DEF Spec
<1> QED
  BY <1>1, <1>2, Inductive, PTL

\* service_registry::register and unregister_pid keep the names unique: a lookup
\* has one answer, whatever the table's size and whoever dies.
THEOREM NamesKept == Spec => []NamesUnique
<1>1. Init => NamesUnique
  <2> SUFFICES ASSUME Init PROVE NamesUnique
    OBVIOUS
  <2>1. \A s \in ServiceSlots : services[s].name = ""
    BY DEF Init, FreeEntry
  <2> QED
    BY <2>1 DEF NamesUnique
<1>2. IInv /\ NamesUnique /\ [Next]_vars => NamesUnique'
  <2> SUFFICES ASSUME IInv, NamesUnique, [Next]_vars PROVE NamesUnique'
    OBVIOUS
  <2>1. services \in [ServiceSlots -> [name : Names \cup {""}, pid : Pids \cup {None}]]
    BY Zenon DEF IInv, LifecycleInv
  <2>2. \/ services' = services
        \/ services' = Unregister(cpid)
        \/ \E name \in Names, s \in ServiceSlots :
              /\ CanRegister(name, s)
              /\ services' = [services EXCEPT ![s] = [name |-> name, pid |-> cpid]]
    BY DEF Next, vars, lifecycle_vars, SysYield, SysSend, SysNotify, SysRecv,
           SysRecvMsg, SysCall, ResumeRecv, ResumeCall, SysSpawn, SysExit, Fault,
           Terminate, SysSetprio, SysSetrt, SysSetquota, SysRegister,
           SysIrqRegister, TimerTick, DeviceIrq, UartIrq
  <2>3. CASE services' = services
    BY <2>3 DEF NamesUnique
  <2>4. CASE services' = Unregister(cpid)
    BY <2>1, <2>4 DEF NamesUnique, Unregister, FreeEntry
  <2>5. ASSUME NEW name \in Names, NEW s \in ServiceSlots, CanRegister(name, s),
               services' = [services EXCEPT ![s] = [name |-> name, pid |-> cpid]]
        PROVE  NamesUnique'
    <3>1. \A r \in ServiceSlots : services[r].name = name =>
              s \in {q \in ServiceSlots : services[q].name = name}
      BY <2>5 DEF CanRegister
    <3>2. \A r \in ServiceSlots \ {s} : name # "" => services[r].name # name
      BY <3>1 DEF NamesUnique
    <3> QED
      BY <2>1, <2>5, <3>2 DEF NamesUnique
  <2> QED
    BY <2>2, <2>3, <2>4, <2>5
<1> QED
  BY <1>1, <1>2, Inductive, PTL DEF Spec

=============================================================================
