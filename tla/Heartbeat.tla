------------------------------ MODULE Heartbeat ------------------------------
(***************************************************************************)
(* The clock that drives the scheduler, and what eventually happens under  *)
(* it.  The LAPIC timer is a one-shot that counts down to one interrupt;   *)
(* the timer handler re-arms it, and so does every other path that         *)
(* switches context.                                                       *)
(*                                                                         *)
(* Time is relative: a blocked_deadline is the number of ticks to go, and  *)
(* a tick is Period steps of the countdown.  The processes compute, yield  *)
(* (Yielders) or sleep in SYS_RECV with a timeout (Sleepers); nobody sends *)
(* messages, so the rest of a receive only returns to user code and needs  *)
(* no step of its own.                                                     *)
(***************************************************************************)
EXTENDS ProcessTable

CONSTANTS
    BootPriorities, \* priorities of the processes spawned at boot
    Yielders,       \* processes that call SYS_YIELD
    Sleepers,       \* processes that call SYS_RECV on an empty mailbox ...
    Timeouts,       \* ... with one of these timeouts
    Period          \* countdown steps of one tick (10 ms in the code)

ASSUME HeartbeatAssumption ==
    /\ BootPriorities \in Seq(Nat) /\ Len(BootPriorities) \in 2..MaxPid
    /\ Yielders \cup Sleepers \subseteq DOMAIN BootPriorities \ {IdlePid}
    /\ Timeouts \subseteq 1..(U64Max - 1)
    /\ Period \in Nat \ {0}

VARIABLES
    procs,        \* the process table
    current,      \* the running process
    queue_index,  \* round-robin position
    timer,        \* the LAPIC's current count; 0 once it has expired
    pending       \* a timer interrupt awaits delivery

vars == <<procs, current, queue_index, timer, pending>>

Procs == DOMAIN BootPriorities

Init ==
    /\ procs = [p \in Procs |-> NewPCB(p - 1, p - 1, BootPriorities[p])]
    /\ current = IdlePid
    /\ queue_index = 0
    /\ timer = Period
    /\ pending = FALSE

-----------------------------------------------------------------------------

\* pick_next_priority on t takes n, which becomes the running process.
Pick(t, n) ==
    /\ n \in Candidates(t) /\ Picks(t, queue_index, n)
    /\ queue_index' = NextIndex(t, queue_index)
    /\ procs' = SetRunning(t, n)
    /\ current' = n

arm_oneshot == timer' = Period

\* A system call re-arms the timer.  An interrupt that fell due inside the call,
\* before the re-arming, is delivered on the return to user mode.
ArmInSyscall ==
    /\ arm_oneshot
    /\ pending' \in IF timer = 1 THEN BOOLEAN ELSE {FALSE}

\* The hardware: time passes while a process runs.
Elapse ==
    /\ timer > 0
    /\ timer' = timer - 1
    /\ pending' = (pending \/ timer = 1)
    /\ UNCHANGED <<procs, current, queue_index>>

\* SYS_YIELD re-arms only if another process is switched to.
Yield ==
    /\ ~pending /\ current \in Yielders
    /\ LET t == Deschedule([procs EXCEPT ![current].cpu_time = 0], current)
       IN  \E n \in Procs :
              /\ Pick(t, n)
              /\ IF n = current THEN UNCHANGED <<timer, pending>>
                 ELSE ArmInSyscall

\* SYS_RECV with a timeout: block, re-arm, switch.
Sleep(timeout) ==
    /\ ~pending /\ current \in Sleepers
    /\ \E n \in Procs : Pick(Block(procs, current, 0, timeout), n)
    /\ ArmInSyscall

\* One tick less to go for every sleeper.
Aged(t) ==
    [p \in DOMAIN t |->
        IF t[p].state = "Blocked" THEN [t[p] EXCEPT !.blocked_deadline = @ - 1]
        ELSE t[p]]

\* Variant: the timer is re-armed only when no switch follows.
TickArmsLate ==
    /\ pending /\ pending' = FALSE
    /\ LET t == [check_deadlines(Aged(procs), 0) EXCEPT ![current] = ChargeTick(@)]
       IN  IF Exhausted(t[current])
           THEN \E n \in Procs :
                   /\ Pick([t EXCEPT ![current] = Preempted(@, 0)], n)
                   /\ timer' = IF n = current THEN Period ELSE timer
           ELSE procs' = t /\ arm_oneshot /\ UNCHANGED <<current, queue_index>>

\* The timer interrupt: timer_tick, then arm_oneshot(1) on both paths.
Tick ==
    /\ pending /\ pending' = FALSE
    /\ arm_oneshot
    /\ LET t == [check_deadlines(Aged(procs), 0) EXCEPT ![current] = ChargeTick(@)]
       IN  IF Exhausted(t[current])
           THEN \E n \in Procs : Pick([t EXCEPT ![current] = Preempted(@, 0)], n)
           ELSE procs' = t /\ UNCHANGED <<current, queue_index>>

Next == Elapse \/ Yield \/ (\E timeout \in Timeouts : Sleep(timeout)) \/ Tick

\* The hardware keeps counting and delivers what it raised; programs promise
\* nothing.
Fairness == WF_vars(Elapse) /\ WF_vars(Tick)

Spec == Init /\ [][Next]_vars /\ Fairness

-----------------------------------------------------------------------------
(* What eventually happens *)

\* The clock never stops: timer interrupts keep being handled.
TicksGoOn == []<><<Tick>>_vars

\* A sleeper whose deadline passes is woken.
SleepersWake ==
    \A p \in Sleepers :
        (procs[p].state = "Blocked") ~> (procs[p].state # "Blocked")

TopPriority ==
    {p \in Procs : \A q \in Procs : BootPriorities[p] <= BootPriorities[q]}

\* A process of the most urgent priority level that is ready gets the CPU: with one
\* process at that level, whatever the others do; with several, in turn.
TopLevelRuns ==
    \A p \in TopPriority : (procs[p].state = "Ready") ~> (current = p)

=============================================================================
