----------------------------- MODULE StepProofs -----------------------------
(***************************************************************************)
(* Proofs of action properties of Kernel, what a step may never do, for    *)
(* every value of the constants and whichever handler makes the step.      *)
(*                                                                         *)
(* Scheduling: every handler that changes the CPU's process does so by a   *)
(* pick from some intermediate table.  What the pick compares (states,     *)
(* deadlines, priorities, wait edges) is the same in that table and in the *)
(* one the handler leaves behind.                                          *)
(*                                                                         *)
(* Wake-ups and rate limits: a handler applies at most one table operation *)
(* that wakes a sleeper or touches a rate counter, and every other one is  *)
(* Steady.                                                                 *)
(***************************************************************************)
EXTENDS KernelProofs, WellFoundedInduction

-----------------------------------------------------------------------------
(* Minima *)

\* A set of natural numbers has a least element.
LEMMA LeastNat ==
    ASSUME NEW S, S \subseteq Nat, S # {}
    PROVE  \E m \in S : \A x \in S : m <= x
<1> DEFINE R == OpToRel(<, Nat)
<1>1. IsWellFoundedOn(R, Nat)
  BY NatLessThanWellFounded
<1>2. \A x, y \in Nat : <<x, y>> \in R <=> x < y
  BY DEF OpToRel
<1> HIDE DEF R
<1>3. PICK m \in S : \A y \in S : ~(<<y, m>> \in R)
  BY <1>1, WFMin
<1>4. \A y \in S : ~(y < m)
  BY <1>2, <1>3
<1> QED
  BY <1>4

\* effective_prio is the least of the offers.
LEMMA EffectiveLeast ==
    ASSUME NEW t, IsTable(t), NEW p \in DOMAIN t
    PROVE  /\ effective_prio(t, p) \in Nat
           /\ \A b \in Donors(t, p) : effective_prio(t, p) <= t[b].priority
<1> DEFINE offers == {t[p].priority} \cup {t[b].priority : b \in Donors(t, p)}
<1>1. offers \subseteq Nat /\ offers # {}
  BY DEF IsTable, PCB, Donors
<1>2. \E m \in offers : \A x \in offers : m <= x
  BY <1>1, LeastNat
<1>3. /\ effective_prio(t, p) \in offers
      /\ \A x \in offers : effective_prio(t, p) <= x
  BY <1>2 DEF effective_prio
<1> QED
  BY <1>1, <1>3

-----------------------------------------------------------------------------
(* Picks *)

\* t and u agree on everything a pick compares.
SameView(t, u) ==
    /\ DOMAIN u = DOMAIN t
    /\ \A p \in DOMAIN t :
        /\ u[p].state = "Blocked" <=> t[p].state = "Blocked"
        /\ u[p].state \in {"Ready", "Running"} <=> t[p].state \in {"Ready", "Running"}
        /\ u[p].priority = t[p].priority
        /\ u[p].waiting_for = t[p].waiting_for
        /\ u[p].rt_period = t[p].rt_period
        /\ u[p].rt_deadline = t[p].rt_deadline

\* The fields it compares.
ViewFields == {"state", "priority", "waiting_for", "rt_period", "rt_deadline"}

\* The CPU was given to the process picked from t.
Handed(t) ==
    /\ cpu' \in Candidates(t) /\ Picks(t, queue_index, cpu')
    /\ procs' \in {SetRunning(t, cpu'), SetRunning(Deschedule(t, current), cpu')}

\* Marking the process Running, and its predecessor Ready, hides nothing.
LEMMA HandedView ==
    ASSUME NEW t, Handed(t), IsTable(procs')
    PROVE  SameView(procs', t)
<1>1. \A p \in DOMAIN procs' : ViewFields \subseteq DOMAIN procs'[p]
  BY DEF IsTable, PCB, ViewFields
<1>2. \A u, n : /\ \A p \in DOMAIN SetRunning(u, n) :
                       ViewFields \subseteq DOMAIN SetRunning(u, n)[p]
                /\ n \in Candidates(u)
                => /\ \A p \in DOMAIN u : ViewFields \subseteq DOMAIN u[p]
                   /\ SameView(SetRunning(u, n), u)
  BY DEF SetRunning, SameView, Candidates, ViewFields
<1>3. \A u, n : (\A p \in DOMAIN Deschedule(u, n) :
                       ViewFields \subseteq DOMAIN Deschedule(u, n)[p])
                => SameView(Deschedule(u, n), u)
  BY DEF Deschedule, SameView, ViewFields
<1>4. CASE procs' = SetRunning(t, cpu')
  BY <1>1, <1>2, <1>4 DEF Handed
<1>5. CASE procs' = SetRunning(Deschedule(t, current), cpu')
  <2> DEFINE u == Deschedule(t, current)
  <2>1. cpu' \in Candidates(u)
    BY DEF Handed, Candidates, Deschedule
  <2> HIDE DEF u
  <2>2. (\A p \in DOMAIN u : ViewFields \subseteq DOMAIN u[p]) /\ SameView(procs', u)
    BY <1>1, <1>2, <1>5, <2>1 DEF u
  <2>3. SameView(u, t)
    BY <1>3, <2>2 DEF u
  <2> QED
    BY <2>2, <2>3 DEF SameView
<1> QED
  BY <1>4, <1>5 DEF Handed

\* What the pick guarantees, read in the table the handler leaves behind.
LEMMA HandedDeadline ==
    ASSUME NEW t, Handed(t), IsTable(procs'), Realtime(procs') # {}
    PROVE  /\ cpu' \in Realtime(procs')
           /\ \A q \in Realtime(procs') :
                 procs'[cpu'].rt_deadline <= procs'[q].rt_deadline
<1>1. SameView(procs', t)
  BY HandedView
<1>2. Realtime(t) = Realtime(procs') /\ Realtime(procs') \subseteq DOMAIN procs'
  BY <1>1 DEF Realtime, Candidates, SameView
<1>3. \A q \in Realtime(procs') :
        procs'[q].rt_deadline \in Nat /\ procs'[q].rt_deadline = t[q].rt_deadline
  BY <1>1, <1>2 DEF SameView, IsTable, PCB
<1>4. /\ cpu' \in Realtime(procs')
      /\ \A q \in Realtime(procs') \ {cpu'} :
            \/ t[cpu'].rt_deadline < t[q].rt_deadline
            \/ t[cpu'].rt_deadline = t[q].rt_deadline
  BY <1>2 DEF Handed, Picks
<1> QED
  BY <1>3, <1>4

LEMMA HandedPriority ==
    ASSUME NEW t, Handed(t), IsTable(procs'), Realtime(procs') = {},
           NEW w \in DOMAIN procs', procs'[w].state = "Blocked",
           procs'[w].waiting_for \in Candidates(procs')
    PROVE  effective_prio(procs', cpu') <= procs'[w].priority
<1>1. SameView(procs', t)
  BY HandedView
<1>2. /\ Realtime(t) = {} /\ Candidates(t) = Candidates(procs')
      /\ Candidates(procs') \subseteq DOMAIN procs'
  BY <1>1 DEF Realtime, Candidates, SameView
<1>3. \A p \in DOMAIN procs' : effective_prio(t, p) = effective_prio(procs', p)
  <2> TAKE p \in DOMAIN procs'
  <2>1. Donors(t, p) = Donors(procs', p)
    BY <1>1 DEF Donors, SameView
  <2>2. {t[b].priority : b \in Donors(t, p)}
          = {procs'[b].priority : b \in Donors(procs', p)}
    BY <1>1, <2>1 DEF Donors, SameView
  <2>3. t[p].priority = procs'[p].priority
    BY <1>1 DEF SameView
  <2> QED
    BY <2>2, <2>3 DEF effective_prio
<1> DEFINE q == procs'[w].waiting_for
<1>4. cpu' \in Candidates(procs')
      /\ effective_prio(procs', cpu') <= effective_prio(procs', q)
  BY <1>2, <1>3 DEF Handed, Picks, IsNth, AtMin
<1>5. w \in Donors(procs', q)
  BY DEF Donors
<1>6. /\ effective_prio(procs', q) <= procs'[w].priority
      /\ effective_prio(procs', q) \in Nat /\ effective_prio(procs', cpu') \in Nat
  BY <1>2, <1>4, <1>5, EffectiveLeast
<1>7. procs'[w].priority \in Nat
  BY DEF IsTable, PCB
<1> QED
  BY <1>4, <1>6, <1>7

-----------------------------------------------------------------------------
(* Handlers *)

\* A scheduling decision keeps the CPU's process, hands the CPU over by a pick, or
\* finds nobody to run.
Settled == cpu' = cpu \/ (\E t : Handed(t)) \/ Candidates(procs') = {}

LEMMA DecisionsSettle ==
    ASSUME NEW t, NEW p, NEW k
    PROVE  /\ Dispatch(t) => Settled
           /\ KeepOrSwitch(t) => Settled
           /\ Reschedule(t) => Settled
           /\ BlockSwitch(t, p, k) => Settled
           /\ ForceSchedule(t) => Settled
<1>1. \A u : Dispatch(u) => \E w : Handed(w)
  <2> TAKE u
  <2> HAVE Dispatch(u)
  <2>1. Handed(u)
    BY DEF Dispatch, SwitchTo, Handed
  <2> QED
    BY <2>1
<1>2. KeepOrSwitch(t) => Handed(t) \/ cpu' = cpu
  BY DEF KeepOrSwitch, SwitchTo, Handed, cpu_vars
<1>3. Reschedule(t) => Handed(t) \/ cpu' = cpu
  BY DEF Reschedule, SwitchTo, Handed, cpu_vars
<1>4. BlockSwitch(t, p, k) => Settled
  BY <1>1 DEF BlockSwitch, cpu_vars, Settled
<1>5. ForceSchedule(t) => Settled
  BY <1>1 DEF ForceSchedule, Settled
<1> QED
  BY <1>1, <1>2, <1>3, <1>4, <1>5 DEF Settled

LEMMA StepsSettle == [Next]_vars => Settled
<1> SUFFICES ASSUME [Next]_vars PROVE Settled
  OBVIOUS
<1>1. CASE SysYield
  BY <1>1, DecisionsSettle DEF SysYield
<1>2. CASE \E timeout \in Timeouts : SysRecv(timeout) \/ SysRecvMsg(timeout)
  <2>1. PICK timeout \in Timeouts : SysRecv(timeout) \/ SysRecvMsg(timeout)
    BY <1>2
  <2>2. UNCHANGED cpu_vars \/ \E t : BlockSwitch(t, cpid, "recv")
    BY <2>1 DEF SysRecv, SysRecvMsg
  <2> QED
    BY <2>2, DecisionsSettle DEF cpu_vars, Settled
<1>3. CASE \E to \in Pids, timeout \in Timeouts \ {0} : SysCall(to, timeout)
  <2>1. UNCHANGED cpu_vars \/ \E t : BlockSwitch(t, cpid, "call")
    BY <1>3 DEF SysCall
  <2> QED
    BY <2>1, DecisionsSettle DEF cpu_vars, Settled
<1>4. CASE SysExit \/ Fault
  <2>1. \E t : ForceSchedule(t)
    BY <1>4 DEF SysExit, Fault, Terminate
  <2> QED
    BY <2>1, DecisionsSettle
<1>5. CASE TimerTick
  <2>1. UNCHANGED cpu_vars \/ \E t : KeepOrSwitch(t)
    BY <1>5 DEF TimerTick
  <2> QED
    BY <2>1, DecisionsSettle DEF cpu_vars, Settled
<1>6. CASE (\E gsi \in Gsis : DeviceIrq(gsi)) \/ (\E n \in 0..MaxBurst : UartIrq(n))
  <2>1. \E t : Reschedule(t)
    BY <1>6 DEF DeviceIrq, UartIrq
  <2> QED
    BY <2>1, DecisionsSettle
<1>7. CASE \/ UNCHANGED vars \/ ResumeRecv \/ ResumeCall
           \/ \E to \in Pids : SysSend(to) \/ SysNotify(to)
           \/ \E prio \in Priorities : SysSpawn(prio)
           \/ \E p \in Pids, prio \in Priorities : SysSetprio(p, prio)
           \/ \E p \in Pids, period \in Periods : SysSetrt(p, period)
           \/ \E p \in Pids, budget \in Budgets, limit \in Limits :
                    SysSetquota(p, budget, limit)
           \/ \E name \in Names : SysRegister(name)
           \/ \E gsi \in Gsis : SysIrqRegister(gsi)
  <2>1. cpu' = cpu
    BY <1>7 DEF vars, cpu_vars, ResumeRecv, ResumeCall, SysSend, SysNotify, SysSpawn,
                SysSetprio, SysSetrt, SysSetquota, SysRegister, SysIrqRegister
  <2> QED
    BY <2>1 DEF Settled
<1> QED
  BY <1>1, <1>2, <1>3, <1>4, <1>5, <1>6, <1>7 DEF Next

-----------------------------------------------------------------------------
(* Wake-ups and rate counters *)

\* The fields they are about.
SleepFields == {"state", "mailbox", "rate_used"}

Sleepy(t) == \A p \in DOMAIN t : SleepFields \subseteq DOMAIN t[p]

\* On the way from t to u nobody is woken, no rate counter moves, and no mailbox
\* but c's is touched.
Steady(t, u, c) ==
    \A p \in DOMAIN u :
        /\ p \in DOMAIN t /\ DOMAIN u[p] = DOMAIN t[p]
        /\ t[p].state = "Blocked" => u[p].state = "Blocked"
        /\ u[p].rate_used = t[p].rate_used
        /\ p # c => u[p].mailbox = t[p].mailbox

LEMMA SteadyTrans ==
    ASSUME NEW t, NEW u, NEW w, NEW c, Sleepy(t), Steady(t, u, c)
    PROVE  /\ Sleepy(u)
           /\ Steady(u, w, c) => Steady(t, w, c)
  BY DEF Sleepy, Steady

LEMMA SteadyOps ==
    ASSUME NEW t, Sleepy(t), NEW c, NEW p, NEW k, NEW now, NEW timeout
    PROVE  /\ Steady(t, t, c)
           /\ p \in Candidates(t) => Steady(t, SetRunning(t, p), c)
           /\ Steady(t, Deschedule(t, p), c)
           /\ Steady(t, [t EXCEPT ![p].cpu_time = 0], c)
           /\ Steady(t, [t EXCEPT ![p].pc = k], c)
           /\ Steady(t, Pop(t, c), c)
           /\ Steady(t, Block(t, p, now, timeout), c)
           /\ Steady(t, terminate_process(t, p), c)
           /\ Steady(t, [t EXCEPT ![p] = ChargeTick(@)], c)
           /\ Steady(t, [t EXCEPT ![p] = Preempted(@, now)], c)
<1>1. Steady(t, t, c) /\ Steady(t, terminate_process(t, p), c)
  BY DEF Steady, terminate_process
<1>2. p \in Candidates(t) => Steady(t, SetRunning(t, p), c)
  BY DEF Sleepy, SleepFields, Steady, SetRunning, Candidates
<1>3. Steady(t, Deschedule(t, p), c)
  BY DEF Sleepy, SleepFields, Steady, Deschedule
<1>4. /\ Steady(t, [t EXCEPT ![p].cpu_time = 0], c)
      /\ Steady(t, [t EXCEPT ![p].pc = k], c)
  BY DEF Sleepy, SleepFields, Steady
<1>5. Steady(t, Pop(t, c), c) /\ Steady(t, Block(t, p, now, timeout), c)
  BY DEF Sleepy, SleepFields, Steady, Pop, Block
<1>6. Steady(t, [t EXCEPT ![p] = ChargeTick(@)], c)
  BY DEF Sleepy, SleepFields, Steady, ChargeTick
<1>7. Steady(t, [t EXCEPT ![p] = Preempted(@, now)], c)
  BY DEF Sleepy, SleepFields, Steady, Preempted
<1> QED
  BY <1>1, <1>2, <1>3, <1>4, <1>5, <1>6, <1>7

LEMMA SteadyAttributes ==
    ASSUME NEW t, Sleepy(t), NEW c, NEW p, NEW now, NEW x, NEW y
    PROVE  /\ Steady(t, set_priority(t, p, x), c)
           /\ Steady(t, set_realtime(t, p, now, x), c)
           /\ Steady(t, set_quotas(t, p, x, y), c)
  BY DEF Sleepy, SleepFields, Steady, set_priority, set_realtime, set_quotas

LEMMA SteadyDecisions ==
    ASSUME NEW t, Sleepy(t), NEW c, NEW p, NEW k
    PROVE  /\ KeepOrSwitch(t) => Steady(t, procs', c)
           /\ Reschedule(t) => Steady(t, procs', c)
           /\ BlockSwitch(t, p, k) => Steady(t, procs', c)
           /\ ForceSchedule(t) => Steady(t, procs', c)
<1>1. \A u : Sleepy(u) /\ Dispatch(u) => Steady(u, procs', c)
  BY SteadyOps DEF Dispatch
<1>2. KeepOrSwitch(t) => Steady(t, procs', c)
  BY SteadyOps DEF KeepOrSwitch
<1>3. ASSUME Reschedule(t) PROVE Steady(t, procs', c)
  <2> DEFINE u == Deschedule(t, current)
  <2>1. Sleepy(u) /\ Steady(t, u, c) /\ Steady(t, t, c)
    BY SteadyOps, SteadyTrans
  <2>2. procs' = t \/ \E n \in Candidates(u) : procs' = SetRunning(u, n)
    BY <1>3 DEF Reschedule, Candidates, Deschedule, Sleepy, SleepFields
  <2> HIDE DEF u
  <2>3. ASSUME NEW n \in Candidates(u), procs' = SetRunning(u, n)
        PROVE  Steady(t, procs', c)
    <3>1. Steady(u, procs', c)
      BY <2>1, <2>3, SteadyOps
    <3> QED
      BY <2>1, <3>1, SteadyTrans
  <2> QED
    BY <2>1, <2>2, <2>3
<1>4. ASSUME BlockSwitch(t, p, k) PROVE Steady(t, procs', c)
  <2> DEFINE u == [t EXCEPT ![p].pc = k]
  <2>1. Sleepy(u) /\ Steady(t, u, c) /\ Steady(t, t, c)
    BY SteadyOps, SteadyTrans
  <2>2. procs' = t \/ Dispatch(u)
    BY <1>4 DEF BlockSwitch
  <2> HIDE DEF u
  <2> QED
    BY <1>1, <2>1, <2>2, SteadyTrans
<1>5. ForceSchedule(t) => Steady(t, procs', c)
  BY <1>1, SteadyOps DEF ForceSchedule
<1> QED
  BY <1>2, <1>3, <1>4, <1>5

\* On the way from t to u a sleeper is woken only with a message in its mailbox,
\* and a rate counter that moves stays within the limit.
Rated(b, c) ==
    b.rate_limit > 0 /\ c.rate_used # b.rate_used => c.rate_used <= b.rate_limit

Stirred(t, u) ==
    \A p \in DOMAIN t \cap DOMAIN u :
        /\ t[p].state = "Blocked" /\ u[p].state # "Blocked" => u[p].mailbox # <<>>
        /\ Rated(t[p], u[p])

LEMMA StirredThenSteady ==
    ASSUME NEW t, NEW u, NEW w, NEW c, Stirred(t, u), DOMAIN u \subseteq DOMAIN t,
           t[c].state # "Blocked", Steady(u, w, c)
    PROVE  Stirred(t, w)
  BY DEF Stirred, Steady, Rated

LEMMA SendStirs ==
    ASSUME NEW t, IsTable(t), NEW from, NEW to
    PROVE  LET u == send_message(t, from, to) IN
           Stirred(t, u) /\ DOMAIN u = DOMAIN t /\ Sleepy(u)
<1> DEFINE u == send_message(t, from, to)
           c == Charge(t, from, to)
<1> SUFFICES Stirred(t, u) /\ DOMAIN u = DOMAIN t /\ Sleepy(u)
  OBVIOUS
<1>1. \A p \in DOMAIN t : /\ SleepFields \subseteq DOMAIN t[p]
                          /\ t[p].rate_limit \in Nat /\ t[p].rate_used \in Nat
                          /\ t[p].mailbox \in Seq(Pids \cup {None})
  BY DEF IsTable, PCB, SleepFields, Mailboxes
<1>2. CASE Refused(t, from, to)
  <2>1. u = t
    BY <1>2 DEF send_message
  <2> QED
    BY <1>1, <2>1 DEF Stirred, Rated, Sleepy
<1>3. CASE ~Refused(t, from, to)
  <2>1. to \in DOMAIN t
    BY <1>3 DEF Refused
  <2>2. /\ DOMAIN c = DOMAIN t
        /\ \A p \in DOMAIN t :
              /\ DOMAIN c[p] = DOMAIN t[p] /\ c[p].state = t[p].state
              /\ c[p].mailbox = t[p].mailbox /\ Rated(t[p], c[p])
    <3>1. CASE from \in DOMAIN t
      <4>1. \A x \in Nat : x % RateMod \in Nat /\ x % RateMod <= x
        BY TableAssumption
      <4>2. t[from].rate_limit > 0 => (t[from].rate_used + 1) % RateMod <= t[from].rate_limit
        BY <1>1, <1>3, <3>1, <4>1 DEF Refused
      <4>3. c = [t EXCEPT ![from] = [t[from] EXCEPT !.rate_used = (t[from].rate_used + 1) % RateMod,
                                                    !.waiting_for = to]]
        BY <3>1 DEF Charge
      <4> HIDE DEF c
      <4> QED
        BY <1>1, <3>1, <4>2, <4>3 DEF SleepFields, Rated
    <3>2. CASE from \notin DOMAIN t
      BY <3>2 DEF Charge, Rated
    <3> QED
      BY <3>1, <3>2
  <2>3. u = c \/ u = Deliver(c, from, to)
    BY <1>3 DEF send_message
  <2> HIDE DEF c, u
  <2>4. CASE u = c
    BY <1>1, <2>2, <2>4 DEF Stirred, Sleepy
  <2>5. CASE u = Deliver(c, from, to)
    <3> DEFINE b == [c[to] EXCEPT !.mailbox = Append(c[to].mailbox, from)]
    <3>1. u = [c EXCEPT ![to] = Wake(b)]
      BY <2>5 DEF Deliver
    <3>2. Append(t[to].mailbox, from) # <<>>
      BY <1>1, <2>1
    <3>3. /\ DOMAIN b = DOMAIN t[to] /\ b.mailbox # <<>> /\ b.rate_used = c[to].rate_used
      BY <1>1, <2>1, <2>2, <3>2 DEF SleepFields
    <3> HIDE DEF b
    <3>4. /\ DOMAIN Wake(b) = DOMAIN t[to] /\ Wake(b).mailbox # <<>>
          /\ Wake(b).rate_used = c[to].rate_used
      BY <1>1, <2>1, <3>3 DEF Wake, SleepFields
    <3>5. /\ DOMAIN u = DOMAIN t /\ u[to] = Wake(b)
          /\ \A p \in DOMAIN t \ {to} : u[p] = c[p]
      BY <2>1, <2>2, <3>1
    <3> QED
      BY <1>1, <2>1, <2>2, <3>4, <3>5 DEF Stirred, Sleepy, Rated
  <2> QED
    BY <2>3, <2>4, <2>5
<1> QED
  BY <1>2, <1>3

\* Two sequences put one after the other.
LEMMA Joined ==
    ASSUME NEW S, NEW a \in Seq(S), NEW b \in Seq(S)
    PROVE  a \o b \in Seq(S) /\ Len(a \o b) = Len(a) + Len(b) /\ Len(a) \in Nat
  OBVIOUS

LEMMA BurstStirs ==
    ASSUME NEW t, IsTable(t), NEW to, NEW n \in Nat
    PROVE  LET u == Burst(t, to, n) IN
           Stirred(t, u) /\ DOMAIN u = DOMAIN t /\ Sleepy(u)
<1> DEFINE room == QueueCap - Len(t[to].mailbox)
           k    == IF n < room THEN n ELSE room
           more == [i \in 1..k |-> None]
           box  == t[to].mailbox \o more
           u    == Burst(t, to, n)
<1> SUFFICES Stirred(t, u) /\ DOMAIN u = DOMAIN t /\ Sleepy(u)
  OBVIOUS
<1>1. \A p \in DOMAIN t : /\ SleepFields \subseteq DOMAIN t[p]
                          /\ t[p].mailbox \in Seq(Pids \cup {None})
  BY DEF IsTable, PCB, SleepFields, Mailboxes
<1>2. CASE to \notin DOMAIN t \/ n = 0 \/ room <= 0
  <2>1. u = t
    BY <1>2 DEF Burst
  <2> QED
    BY <1>1, <2>1 DEF Stirred, Rated, Sleepy
<1>3. CASE to \in DOMAIN t /\ n # 0 /\ room > 0
  <2> DEFINE b == [t[to] EXCEPT !.mailbox = box]
  <2>1. u = [t EXCEPT ![to] = Wake(b)]
    BY <1>1, <1>3, TableAssumption DEF Burst
  <2>2. box # <<>>
    <3>1. k \in Nat /\ k # 0
      BY <1>1, <1>3, TableAssumption
    <3> HIDE DEF k
    <3>2. more \in Seq(Pids \cup {None}) /\ Len(more) = k
      BY <3>1
    <3> HIDE DEF more
    <3>3. t[to].mailbox \in Seq(Pids \cup {None})
      BY <1>1, <1>3
    <3>4. /\ box \in Seq(Pids \cup {None})
          /\ Len(box) = Len(t[to].mailbox) + k /\ Len(t[to].mailbox) \in Nat
      BY <3>2, <3>3, Joined, Zenon
    <3> HIDE DEF box
    <3>5. Len(box) # 0
      BY <3>1, <3>4
    <3> QED
      BY <3>5
  <2> HIDE DEF box, u
  <2>3. DOMAIN b = DOMAIN t[to] /\ b.mailbox # <<>> /\ b.rate_used = t[to].rate_used
    BY <1>1, <1>3, <2>2 DEF SleepFields
  <2> HIDE DEF b
  <2>4. /\ DOMAIN Wake(b) = DOMAIN t[to] /\ Wake(b).mailbox # <<>>
        /\ Wake(b).rate_used = t[to].rate_used
    BY <1>1, <1>3, <2>3 DEF Wake, SleepFields
  <2>5. /\ DOMAIN u = DOMAIN t /\ u[to] = Wake(b)
        /\ \A p \in DOMAIN t \ {to} : u[p] = t[p]
    BY <1>3, <2>1
  <2> QED
    BY <1>1, <1>3, <2>4, <2>5 DEF Stirred, Sleepy, Rated
<1>4. room \in Int \/ to \notin DOMAIN t
  BY <1>1, TableAssumption
<1> QED
  BY <1>2, <1>3, <1>4

\* The clock wakes whose deadline has come, and clears rate counters.
LEMMA TimerStirs ==
    ASSUME IInv, TimerTick
    PROVE  \A p \in DOMAIN procs \cap DOMAIN procs' :
              /\ procs[p].state = "Blocked" /\ procs'[p].state # "Blocked"
                 => procs[p].blocked_deadline <= tick'
              /\ Rated(procs[p], procs'[p])
<1> DEFINE woken == check_deadlines(procs, tick')
           rated == IF tick' % RateWindow = 0
                    THEN reset_ipc_rate_counters(woken) ELSE woken
           reset == IF tick' % BudgetFrame = 0
                    THEN reset_cpu_budget_counters(rated) ELSE rated
           t     == [reset EXCEPT ![current] = ChargeTick(@)]
           u     == [t EXCEPT ![current] = Preempted(@, tick')]
<1>1. procs' = t \/ KeepOrSwitch(u)
  BY DEF TimerTick
<1>2. \A p \in DOMAIN procs : SleepFields \subseteq DOMAIN procs[p]
                             /\ procs[p].rate_limit \in Nat
  BY Caller DEF TableInv, IsTable, PCB, SleepFields
<1>3. /\ DOMAIN woken = DOMAIN procs
      /\ \A p \in DOMAIN procs :
            /\ DOMAIN woken[p] = DOMAIN procs[p]
            /\ procs[p].state = "Blocked" /\ woken[p].state # "Blocked"
               => procs[p].blocked_deadline <= tick'
            /\ woken[p].rate_used = procs[p].rate_used
  BY <1>2 DEF check_deadlines, Wake, SleepFields
<1> HIDE DEF woken
<1>4. /\ DOMAIN rated = DOMAIN procs
      /\ \A p \in DOMAIN procs :
            /\ DOMAIN rated[p] = DOMAIN procs[p]
            /\ procs[p].state = "Blocked" /\ rated[p].state # "Blocked"
               => procs[p].blocked_deadline <= tick'
            /\ rated[p].rate_used \in {0, procs[p].rate_used}
  BY <1>2, <1>3 DEF reset_ipc_rate_counters, SleepFields
<1> HIDE DEF rated
<1>5. /\ DOMAIN reset = DOMAIN procs
      /\ \A p \in DOMAIN procs :
            /\ DOMAIN reset[p] = DOMAIN procs[p]
            /\ procs[p].state = "Blocked" /\ reset[p].state # "Blocked"
               => procs[p].blocked_deadline <= tick'
            /\ reset[p].rate_used \in {0, procs[p].rate_used}
  BY <1>2, <1>4 DEF reset_cpu_budget_counters, SleepFields
<1> HIDE DEF reset
<1>6. Sleepy(reset)
  BY <1>2, <1>5 DEF Sleepy
<1>7. Steady(reset, procs', cpid)
  <2>1. Sleepy(t) /\ Steady(reset, t, cpid)
    <3>1. Steady(reset, t, cpid)
      BY <1>6, SteadyOps
    <3> HIDE DEF t
    <3> QED
      BY <1>6, <3>1, SteadyTrans
  <2> HIDE DEF t
  <2>2. Sleepy(u) /\ Steady(t, u, cpid)
    <3>1. Steady(t, u, cpid)
      BY <2>1, SteadyOps
    <3> HIDE DEF u
    <3> QED
      BY <2>1, <3>1, SteadyTrans
  <2> HIDE DEF u
  <2>3. procs' = t \/ Steady(u, procs', cpid)
    BY <1>1, <2>2, SteadyDecisions
  <2> QED
    BY <1>6, <2>1, <2>2, <2>3, SteadyTrans
<1> QED
  BY <1>2, <1>5, <1>7 DEF Steady, Rated

\* Every other handler stirs sleepers by a message only, a notification excepted.
LEMMA StepsStir ==
    ASSUME IInv, [Next]_vars
    PROVE  \/ Stirred(procs, procs')
           \/ TimerTick
           \/ \E to \in Pids : SysNotify(to)
<1>1. /\ IsTable(procs) /\ Sleepy(procs) /\ procs[cpid].state # "Blocked"
      /\ cpid = cpu
  BY Caller DEF TableInv, IsTable, PCB, Sleepy, SleepFields
<1>2. Stirred(procs, procs)
  BY DEF Stirred, Rated
<1>3. \A u : Steady(procs, u, cpid) => Stirred(procs, u)
  BY <1>1, <1>2, StirredThenSteady
<1>4. CASE SysYield
  <2> DEFINE a == [procs EXCEPT ![current].cpu_time = 0]
             t == Deschedule(a, current)
  <2>1. Sleepy(a) /\ Steady(procs, a, cpid)
    BY <1>1, SteadyOps, SteadyTrans
  <2>2. KeepOrSwitch(t)
    BY <1>4 DEF SysYield
  <2> HIDE DEF a
  <2>3. Sleepy(t) /\ Steady(a, t, cpid)
    BY <2>1, SteadyOps, SteadyTrans
  <2> HIDE DEF t
  <2>4. Steady(t, procs', cpid)
    BY <2>2, <2>3, SteadyDecisions
  <2>5. Steady(a, procs', cpid)
    BY <2>1, <2>3, <2>4, SteadyTrans
  <2> QED
    BY <1>1, <1>3, <2>1, <2>5, SteadyTrans
<1>5. CASE \E timeout \in Timeouts : SysRecv(timeout) \/ SysRecvMsg(timeout)
  <2>1. PICK timeout \in Timeouts : SysRecv(timeout) \/ SysRecvMsg(timeout)
    BY <1>5
  <2> DEFINE b == Block(procs, cpid, tick, timeout)
  <2>2. \/ procs' = procs \/ procs' = Pop(procs, cpid)
        \/ BlockSwitch(procs, cpid, "recv") \/ BlockSwitch(b, cpid, "recv")
    BY <2>1 DEF SysRecv, SysRecvMsg
  <2>3. Sleepy(b) /\ Steady(procs, b, cpid) /\ Steady(procs, Pop(procs, cpid), cpid)
    BY <1>1, SteadyOps, SteadyTrans
  <2> HIDE DEF b
  <2>4. procs' = procs \/ Steady(procs, procs', cpid)
    BY <1>1, <2>2, <2>3, SteadyDecisions, SteadyTrans
  <2> QED
    BY <1>2, <1>3, <2>4
<1>6. CASE \E to \in Pids, timeout \in Timeouts \ {0} : SysCall(to, timeout)
  <2>1. PICK to \in Pids, timeout \in Timeouts \ {0} : SysCall(to, timeout)
    BY <1>6
  <2> DEFINE t == send_message(procs, cpid, to)
             b == Block(t, cpid, tick, timeout)
  <2>2. procs' = t \/ procs' = Pop(t, cpid) \/ BlockSwitch(b, cpid, "call")
    BY <2>1 DEF SysCall
  <2>3. Stirred(procs, t) /\ DOMAIN t = DOMAIN procs /\ Sleepy(t)
    BY <1>1, SendStirs
  <2> HIDE DEF t
  <2>4. Sleepy(b) /\ Steady(t, b, cpid) /\ Steady(t, Pop(t, cpid), cpid)
    BY <2>3, SteadyOps, SteadyTrans
  <2> HIDE DEF b
  <2>5. procs' = t \/ Steady(t, procs', cpid)
    BY <2>2, <2>3, <2>4, SteadyDecisions, SteadyTrans
  <2> QED
    BY <1>1, <2>3, <2>5, StirredThenSteady
<1>7. CASE ResumeRecv \/ ResumeCall
  <2> DEFINE t == [procs EXCEPT ![cpu].pc = "user"]
  <2>1. procs' = t \/ procs' = Pop(t, cpid)
    BY <1>1, <1>7 DEF ResumeRecv, ResumeCall
  <2>2. Sleepy(t) /\ Steady(procs, t, cpid)
    BY <1>1, SteadyOps, SteadyTrans
  <2> HIDE DEF t
  <2>3. Steady(t, Pop(t, cpid), cpid)
    BY <2>2, SteadyOps
  <2>4. Steady(procs, Pop(t, cpid), cpid)
    BY <1>1, <2>2, <2>3, SteadyTrans
  <2> QED
    BY <1>3, <2>1, <2>2, <2>4
<1>8. CASE SysExit \/ Fault
  <2>1. PICK t : /\ Terminate(t, cpid) /\ Stirred(procs, t)
                 /\ DOMAIN t = DOMAIN procs /\ Sleepy(t)
    BY <1>1, <1>2, <1>8, SendStirs DEF SysExit, Fault
  <2> DEFINE u == terminate_process(t, cpid)
  <2>2. Sleepy(u) /\ Steady(t, u, cpid)
    BY <2>1, SteadyOps, SteadyTrans
  <2>3. ForceSchedule(u)
    BY <2>1 DEF Terminate
  <2> HIDE DEF u
  <2>4. Steady(t, procs', cpid)
    BY <2>1, <2>2, <2>3, SteadyDecisions, SteadyTrans
  <2> QED
    BY <1>1, <2>1, <2>4, StirredThenSteady
<1>9. CASE (\E gsi \in Gsis : DeviceIrq(gsi)) \/ (\E n \in 0..MaxBurst : UartIrq(n))
  <2>1. PICK t : /\ Reschedule(t) /\ Stirred(procs, t)
                 /\ DOMAIN t = DOMAIN procs /\ Sleepy(t)
    BY <1>1, <1>2, <1>9, SendStirs, BurstStirs DEF DeviceIrq, UartIrq
  <2>2. Steady(t, procs', cpid)
    BY <2>1, SteadyDecisions
  <2> QED
    BY <1>1, <2>1, <2>2, StirredThenSteady
<1>10. CASE \E to \in Pids : SysSend(to)
  BY <1>1, <1>10, SendStirs DEF SysSend
<1>11. CASE \E prio \in Priorities : SysSpawn(prio)
  <2>1. \A p \in DOMAIN procs : p # next_pid
    <3>1. next_pid \in 3..(MaxPid + 1) /\ \A p \in DOMAIN procs : p < next_pid
      BY Zenon DEF IInv, LifecycleInv
    <3>2. ~(next_pid < next_pid)
      BY <3>1
    <3> QED
      BY <3>1, <3>2
  <2>2. \A p \in DOMAIN procs : procs'[p] = procs[p]
    BY <1>11, <2>1 DEF SysSpawn, create_process
  <2> QED
    BY <2>2 DEF Stirred, Rated
<1>12. CASE \/ \E p \in Pids, x \in Priorities : SysSetprio(p, x)
            \/ \E p \in Pids, x \in Periods : SysSetrt(p, x)
            \/ \E p \in Pids, x \in Budgets, y \in Limits : SysSetquota(p, x, y)
  <2>1. PICK p, x, y :
          procs' \in {set_priority(procs, p, x), set_realtime(procs, p, tick, x),
                     set_quotas(procs, p, x, y)}
    BY <1>12 DEF SysSetprio, SysSetrt, SysSetquota
  <2> QED
    BY <1>1, <1>3, <2>1, SteadyAttributes
<1>13. CASE \/ UNCHANGED vars \/ (\E name \in Names : SysRegister(name))
            \/ (\E gsi \in Gsis : SysIrqRegister(gsi))
  BY <1>2, <1>13 DEF vars, SysRegister, SysIrqRegister
<1> QED
  BY <1>4, <1>5, <1>6, <1>7, <1>8, <1>9, <1>10, <1>11, <1>12, <1>13 DEF Next

-----------------------------------------------------------------------------
(* Theorems *)

\* Whichever handler hands the CPU over (yield, block, exit, fault, quantum end or
\* interrupt), while a real-time process is ready it goes to one whose deadline no
\* other undercuts.
THEOREM DeadlinesFirst == Spec => EarliestDeadlineFirst
<1>1. IInv' /\ [Next]_vars
        => [cpu' # cpu /\ Realtime(procs') # {}
            => /\ cpu' \in Realtime(procs')
               /\ \A q \in Realtime(procs') :
                     procs'[cpu'].rt_deadline <= procs'[q].rt_deadline]_vars
  <2> SUFFICES ASSUME IInv', [Next]_vars, cpu' # cpu, Realtime(procs') # {}
               PROVE  /\ cpu' \in Realtime(procs')
                      /\ \A q \in Realtime(procs') :
                            procs'[cpu'].rt_deadline <= procs'[q].rt_deadline
    OBVIOUS
  <2>1. IsTable(procs')
    BY DEF IInv, SchedInv, TableInv
  <2>2. PICK t : Handed(t)
    BY StepsSettle DEF Settled, Realtime
  <2> QED
    BY <2>1, <2>2, HandedDeadline
<1> QED
  BY <1>1, Inductive, PTL DEF Spec, EarliestDeadlineFirst

\* Whichever handler hands the CPU over, with nothing real-time no process is chosen
\* over a ready server on which a more urgent process is blocked.
THEOREM InversionAvoided == Spec => NoDirectInversion
<1>1. IInv' /\ [Next]_vars
        => [cpu' # cpu /\ Realtime(procs') = {}
            => \A w \in DOMAIN procs' :
                  /\ procs'[w].state = "Blocked"
                  /\ procs'[w].waiting_for \in Candidates(procs')
                  => effective_prio(procs', cpu') <= procs'[w].priority]_vars
  <2> SUFFICES ASSUME IInv', [Next]_vars, cpu' # cpu, Realtime(procs') = {},
                      NEW w \in DOMAIN procs', procs'[w].state = "Blocked",
                      procs'[w].waiting_for \in Candidates(procs')
               PROVE  effective_prio(procs', cpu') <= procs'[w].priority
    OBVIOUS
  <2>1. IsTable(procs')
    BY DEF IInv, SchedInv, TableInv
  <2>2. PICK t : Handed(t)
    BY StepsSettle DEF Settled
  <2> QED
    BY <2>1, <2>2, HandedPriority
<1> QED
  BY <1>1, Inductive, PTL DEF Spec, NoDirectInversion

\* A sleeper is woken only by a message that is in its mailbox, by its deadline, or
\* by a notification: no handler wakes a process without one of the three causes.
THEOREM WakesCaused == Spec => WakeHasCause
<1>1. IInv /\ [Next]_vars
        => [\A p \in Survivors :
              procs[p].state = "Blocked" /\ procs'[p].state # "Blocked"
              => \/ procs'[p].mailbox # <<>>
                 \/ tick' = tick + 1 /\ procs[p].blocked_deadline <= tick'
                 \/ SysNotify(p)]_vars
  <2> SUFFICES ASSUME IInv, [Next]_vars, NEW p \in DOMAIN procs \cap DOMAIN procs',
                      procs[p].state = "Blocked", procs'[p].state # "Blocked"
               PROVE  \/ procs'[p].mailbox # <<>>
                      \/ tick' = tick + 1 /\ procs[p].blocked_deadline <= tick'
                      \/ SysNotify(p)
    BY DEF Survivors
  <2>1. CASE Stirred(procs, procs')
    BY <2>1 DEF Stirred
  <2>2. CASE TimerTick
    BY <2>2, TimerStirs DEF TimerTick
  <2>3. ASSUME NEW to \in Pids, SysNotify(to) PROVE SysNotify(p)
    <3>1. p = to
      BY <2>3 DEF SysNotify, notify_process
    <3> QED
      BY <2>3, <3>1
  <2> QED
    BY <2>1, <2>2, <2>3, StepsStir
<1> QED
  BY <1>1, Inductive, PTL DEF Spec, WakeHasCause

\* A send is charged against the sender's window only while the window has room,
\* and nothing but the end of the window moves the counter otherwise, also when it
\* wraps.
THEOREM RatesKept == Spec => RateLimited
<1>1. IInv /\ [Next]_vars
        => [\A p \in Survivors :
              /\ procs[p].rate_limit > 0
              /\ procs'[p].rate_used # procs[p].rate_used
              => procs'[p].rate_used <= procs[p].rate_limit]_vars
  <2> SUFFICES ASSUME IInv, [Next]_vars, NEW p \in DOMAIN procs \cap DOMAIN procs'
               PROVE  Rated(procs[p], procs'[p])
    BY DEF Survivors, Rated
  <2>1. CASE Stirred(procs, procs')
    BY <2>1 DEF Stirred
  <2>2. CASE TimerTick
    BY <2>2, TimerStirs
  <2>3. ASSUME NEW to \in Pids, SysNotify(to) PROVE Rated(procs[p], procs'[p])
    <3>1. SleepFields \subseteq DOMAIN procs[p]
      BY Caller DEF TableInv, IsTable, PCB, SleepFields
    <3>2. procs'[p].rate_used = procs[p].rate_used
      BY <2>3, <3>1 DEF SysNotify, notify_process, Wake, SleepFields
    <3> QED
      BY <3>2 DEF Rated
  <2> QED
    BY <2>1, <2>2, <2>3, StepsStir
<1> QED
  BY <1>1, Inductive, PTL DEF Spec, RateLimited

=============================================================================
