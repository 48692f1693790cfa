---------------------------- MODULE TableProofs -----------------------------
(***************************************************************************)
(* Proofs about the operations of ProcessTable.  TableInv says what every  *)
(* process table satisfies; one lemma per operation shows that it          *)
(* preserves TableInv, and Gentle what else the callers rely on.           *)
(***************************************************************************)
EXTENDS ProcessTable, FiniteSetTheorems, TLAPS

\* What holds of one PCB at time now.
SoundPCB(b, now) ==
    IF b.state = "Blocked"
    THEN b.mailbox = <<>> /\ b.blocked_deadline > now /\ b.pc # "user"
    ELSE b.blocked_deadline = U64Max

TableInv(t, now) ==
    /\ IsTable(t)
    /\ \A p \in DOMAIN t : SoundPCB(t[p], now)
    /\ IdlePid \in DOMAIN t /\ t[IdlePid].state # "Blocked"
    /\ \A S \in SUBSET DOMAIN t : ~SilentCycle(t, S)

\* A table operation that creates, terminates and blocks no process.
Gentle(t, u) ==
    /\ DOMAIN u = DOMAIN t
    /\ \A p \in DOMAIN t :
        /\ u[p].stack = t[p].stack
        /\ t[p].state # "Blocked" => u[p].state # "Blocked"

-----------------------------------------------------------------------------
(* Arithmetic and PCB lemmas *)

LEMMA ModType ==
    ASSUME NEW a \in Nat, NEW m \in Nat, m >= 1
    PROVE  a % m \in Nat
  OBVIOUS

\* Mailboxes stay mailboxes.
LEMMA MailboxOps ==
    /\ <<>> \in Mailboxes
    /\ \A m \in Mailboxes : m \in Seq(Pids \cup {None}) /\ Len(m) <= QueueCap
    /\ \A m \in Seq(Pids \cup {None}) : Len(m) <= QueueCap => m \in Mailboxes
    /\ \A m \in Mailboxes : m # <<>> => Tail(m) \in Mailboxes
    /\ \A m \in Mailboxes, x \in Pids \cup {None} :
          /\ Append(m, x) # <<>>
          /\ Len(m) < QueueCap => Append(m, x) \in Mailboxes
<1> DEFINE T == Pids \cup {None}
<1>1. Mailboxes = {m \in Seq(T) : Len(m) <= QueueCap}
  BY DEF Mailboxes
<1> HIDE DEF T
<1>2. <<>> \in Mailboxes
  <2>1. <<>> \in Seq(T) /\ Len(<<>>) <= QueueCap
    BY TableAssumption
  <2> QED
    BY <1>1, <2>1
<1>3. ASSUME NEW m \in Mailboxes PROVE m \in Seq(T) /\ Len(m) <= QueueCap
  BY <1>1
<1>4. ASSUME NEW m \in Seq(T), Len(m) <= QueueCap PROVE m \in Mailboxes
  BY <1>1, <1>4
<1>5. ASSUME NEW m \in Mailboxes, m # <<>> PROVE Tail(m) \in Mailboxes
  <2>1. m \in Seq(T) /\ Len(m) <= QueueCap
    BY <1>3
  <2>2. Tail(m) \in Seq(T) /\ Len(Tail(m)) = Len(m) - 1 /\ Len(m) \in Nat
    BY <1>5, <2>1
  <2>3. Len(Tail(m)) <= QueueCap
    BY <2>1, <2>2, TableAssumption
  <2> QED
    BY <1>1, <2>2, <2>3
<1>6. ASSUME NEW m \in Mailboxes, NEW x \in T
      PROVE  /\ Append(m, x) # <<>>
             /\ Len(m) < QueueCap => Append(m, x) \in Mailboxes
  <2>1. m \in Seq(T)
    BY <1>3
  <2>2. /\ Append(m, x) \in Seq(T) /\ Append(m, x) # <<>>
        /\ Len(Append(m, x)) = Len(m) + 1 /\ Len(m) \in Nat
    BY <2>1
  <2>3. Len(m) < QueueCap => Len(Append(m, x)) <= QueueCap
    BY <2>2, TableAssumption
  <2> QED
    BY <1>1, <2>2, <2>3
<1> QED
  BY <1>2, <1>3, <1>4, <1>5, <1>6 DEF T

\* Waking a sound PCB gives a sound one that is not Blocked.
LEMMA WakePCB ==
    ASSUME NEW b \in PCB
    PROVE  /\ Wake(b) \in PCB
           /\ Wake(b).state # "Blocked"
           /\ b.state # "Blocked" => Wake(b) = b
           /\ b.state = "Blocked" => /\ Wake(b).blocked_deadline = U64Max
                                     /\ Wake(b).waiting_for = None
           /\ Wake(b).stack = b.stack
           /\ Wake(b).mailbox = b.mailbox
  BY TableAssumption DEF Wake, PCB, None

\* No silent cycle appears when each process keeps its wait edge and does not
\* lose its mail, or has no wait edge.
LEMMA KeptWaits ==
    ASSUME NEW t, NEW u, DOMAIN u \subseteq Pids,
           \A S \in SUBSET DOMAIN t : ~SilentCycle(t, S),
           \A p \in DOMAIN u :
              \/ u[p].waiting_for = None
              \/ /\ p \in DOMAIN t
                 /\ u[p].waiting_for = t[p].waiting_for
                 /\ u[p].mailbox = <<>> => t[p].mailbox = <<>>
    PROVE  \A S \in SUBSET DOMAIN u : ~SilentCycle(u, S)
<1> SUFFICES ASSUME NEW S \in SUBSET DOMAIN u, SilentCycle(u, S)
             PROVE  FALSE
  OBVIOUS
<1>1. \A p \in S : u[p].waiting_for # None
  BY DEF SilentCycle, Pids, None
<1>2. S \subseteq DOMAIN t
  BY <1>1
<1>3. SilentCycle(t, S)
  BY <1>1 DEF SilentCycle
<1> QED
  BY <1>2, <1>3

\* No silent cycle appears when a process with mail becomes the only new target.
LEMMA NewWait ==
    ASSUME NEW t, NEW u, NEW to, DOMAIN u = DOMAIN t, 
           \A S \in SUBSET DOMAIN t : ~SilentCycle(t, S),
           to \in DOMAIN t, u[to].mailbox # <<>>,
           \A p \in DOMAIN u \ {to} :
              /\ u[p].mailbox = t[p].mailbox
              /\ u[p].waiting_for \in {t[p].waiting_for, to}
    PROVE  \A S \in SUBSET DOMAIN u : ~SilentCycle(u, S)
<1> SUFFICES ASSUME NEW S \in SUBSET DOMAIN u, SilentCycle(u, S)
             PROVE  FALSE
  OBVIOUS
<1>1. to \notin S
  BY DEF SilentCycle
<1>2. SilentCycle(t, S)
  BY <1>1 DEF SilentCycle
<1> QED
  BY <1>2

-----------------------------------------------------------------------------
(* Table lemmas *)

\* An operation that changes PCBs one by one, keeps mailboxes and adds no wait
\* edge.
LEMMA FrameTable ==
    ASSUME NEW t, NEW u, NEW now, NEW then, TableInv(t, now),
           u \in [DOMAIN t -> PCB],
           \A p \in DOMAIN t :
              /\ SoundPCB(u[p], then)
              /\ u[p].stack = t[p].stack
              /\ t[p].state # "Blocked" => u[p].state # "Blocked"
              /\ u[p].mailbox = t[p].mailbox
              /\ u[p].waiting_for \in {t[p].waiting_for, None}
    PROVE  TableInv(u, then) /\ Gentle(t, u)
<1>1. IsTable(u)
  BY DEF TableInv, IsTable
<1>2. \A S \in SUBSET DOMAIN u : ~SilentCycle(u, S)
  BY <1>1, KeptWaits DEF TableInv, IsTable
<1> QED
  BY <1>1, <1>2 DEF TableInv, Gentle

\* The same for one PCB.
LEMMA FramePCB ==
    ASSUME NEW t, NEW now, TableInv(t, now), NEW p \in DOMAIN t, NEW b \in PCB,
           SoundPCB(b, now),
           b.stack = t[p].stack,
           t[p].state # "Blocked" => b.state # "Blocked",
           b.mailbox = t[p].mailbox,
           b.waiting_for \in {t[p].waiting_for, None}
    PROVE  /\ TableInv([t EXCEPT ![p] = b], now)
           /\ Gentle(t, [t EXCEPT ![p] = b])
<1> DEFINE u == [t EXCEPT ![p] = b]
<1>1. u \in [DOMAIN t -> PCB]
  BY DEF TableInv, IsTable
<1>2. \A q \in DOMAIN t : u[q] = IF q = p THEN b ELSE t[q]
  OBVIOUS
<1>3. \A q \in DOMAIN t : SoundPCB(t[q], now)
  BY DEF TableInv
<1> HIDE DEF u
<1>4. TableInv(u, now) /\ Gentle(t, u)
  BY <1>1, <1>2, <1>3, FrameTable
<1> QED
  BY <1>4 DEF u

\* Charging the sender changes its rate counter and its wait edge only.
LEMMA ChargeTable ==
    ASSUME NEW t, IsTable(t), NEW from, NEW to \in Pids
    PROVE  LET c == Charge(t, from, to) IN
           /\ c \in [DOMAIN t -> PCB]
           /\ \A p \in DOMAIN t :
                 /\ c[p].stack = t[p].stack
                 /\ c[p].state = t[p].state
                 /\ c[p].mailbox = t[p].mailbox
                 /\ c[p].blocked_deadline = t[p].blocked_deadline
                 /\ c[p].pc = t[p].pc
                 /\ c[p].waiting_for \in {t[p].waiting_for, to}
<1>1. CASE from \notin DOMAIN t
  BY <1>1 DEF Charge, IsTable
<1>2. CASE from \in DOMAIN t
  <2> DEFINE m == (t[from].rate_used + 1) % RateMod
             b == [t[from] EXCEPT !.rate_used = m, !.waiting_for = to]
  <2>1. t[from] \in PCB
    BY <1>2 DEF IsTable
  <2>2. t[from].rate_used + 1 \in Nat
    BY <2>1 DEF PCB
  <2>3. m \in Nat
    BY <2>2, ModType, TableAssumption
  <2>4. Charge(t, from, to) = [t EXCEPT ![from] = b]
    BY <1>2 DEF Charge
  <2> HIDE DEF m
  <2>5. /\ b \in PCB /\ b.stack = t[from].stack /\ b.state = t[from].state
        /\ b.mailbox = t[from].mailbox /\ b.pc = t[from].pc
        /\ b.blocked_deadline = t[from].blocked_deadline
        /\ b.waiting_for = to
    BY <2>1, <2>3 DEF PCB
  <2> HIDE DEF b
  <2> QED
    BY <1>2, <2>4, <2>5 DEF IsTable
<1> QED
  BY <1>1, <1>2

\* Delivering a message to a sound PCB wakes it.
LEMMA DeliverPCB ==
    ASSUME NEW b \in PCB, NEW from \in Pids \cup {None}, NEW now,
           SoundPCB(b, now), Len(b.mailbox) < QueueCap
    PROVE  LET d == Wake([b EXCEPT !.mailbox = Append(@, from)]) IN
           /\ d \in PCB /\ d.stack = b.stack /\ d.state # "Blocked"
           /\ d.mailbox # <<>> /\ SoundPCB(d, now)
<1> DEFINE e == [b EXCEPT !.mailbox = Append(@, from)]
<1>1. /\ Append(b.mailbox, from) \in Mailboxes
      /\ Append(b.mailbox, from) # <<>>
  <2>1. b.mailbox \in Mailboxes
    BY DEF PCB
  <2> QED
    BY <2>1, MailboxOps
<1>2. /\ e \in PCB /\ e.stack = b.stack /\ e.mailbox # <<>>
      /\ e.state = b.state /\ e.blocked_deadline = b.blocked_deadline
  BY <1>1 DEF PCB
<1> HIDE DEF e
<1>3. Wake(e) \in PCB /\ Wake(e).stack = b.stack /\ Wake(e).state # "Blocked"
      /\ Wake(e).mailbox # <<>>
  BY <1>2, WakePCB
<1>4. SoundPCB(Wake(e), now)
  <2>1. CASE e.state = "Blocked"
    BY <1>2, <1>3, <2>1, WakePCB DEF SoundPCB
  <2>2. CASE e.state # "Blocked"
    BY <1>2, <1>3, <2>2, WakePCB DEF SoundPCB
  <2> QED
    BY <2>1, <2>2
<1> QED
  BY <1>3, <1>4 DEF e

\* send_message, whatever its outcome.
LEMMA SendTable ==
    ASSUME NEW t, NEW now, TableInv(t, now),
           NEW from \in Pids \cup {None}, NEW to \in Pids
    PROVE  /\ TableInv(send_message(t, from, to), now)
           /\ Gentle(t, send_message(t, from, to))
<1> DEFINE c == Charge(t, from, to)
           u == send_message(t, from, to)
<1>1. CASE Refused(t, from, to)
  BY <1>1 DEF send_message, Gentle
<1>2. CASE ~Refused(t, from, to)
  <2>1. to \in DOMAIN t
    BY <1>2 DEF Refused
  <2>2. /\ c \in [DOMAIN t -> PCB]
        /\ \A p \in DOMAIN t :
              /\ c[p].stack = t[p].stack
              /\ c[p].state = t[p].state
              /\ c[p].mailbox = t[p].mailbox
              /\ c[p].blocked_deadline = t[p].blocked_deadline
              /\ c[p].pc = t[p].pc
              /\ c[p].waiting_for \in {t[p].waiting_for, to}
    BY ChargeTable DEF TableInv
  <2>3. \A p \in DOMAIN t : SoundPCB(c[p], now)
    BY <2>2 DEF TableInv, SoundPCB
  <2> DEFINE d == Wake([c[to] EXCEPT !.mailbox = Append(@, from)])
  <2>4. Accepted(t, from, to)
        => /\ d \in PCB /\ d.stack = c[to].stack /\ d.state # "Blocked"
           /\ d.mailbox # <<>> /\ SoundPCB(d, now)
    BY <2>1, <2>2, <2>3, DeliverPCB DEF Accepted
  <2>5. u = IF Accepted(t, from, to) THEN [c EXCEPT ![to] = d] ELSE c
    BY <1>2 DEF send_message, Deliver
  <2> HIDE DEF c, d, u
  <2>6. ~Accepted(t, from, to) => c[to].mailbox # <<>>
    <3>1. t[to].mailbox \in Mailboxes
      BY <2>1 DEF TableInv, IsTable, PCB
    <3>2. ~Accepted(t, from, to) => Len(t[to].mailbox) # 0
      BY <1>2, <3>1, TableAssumption, MailboxOps DEF Accepted
    <3> QED
      BY <2>1, <2>2, <3>2
  <2>7. /\ u \in [DOMAIN t -> PCB]
        /\ u[to].mailbox # <<>>
        /\ \A p \in DOMAIN t : SoundPCB(u[p], now) /\ u[p].stack = t[p].stack
        /\ \A p \in DOMAIN t : t[p].state # "Blocked" => u[p].state # "Blocked"
        /\ \A p \in DOMAIN t \ {to} :
              /\ u[p].mailbox = t[p].mailbox
              /\ u[p].waiting_for \in {t[p].waiting_for, to}
    BY <2>1, <2>2, <2>3, <2>4, <2>5, <2>6
  <2>8. \A S \in SUBSET DOMAIN u : ~SilentCycle(u, S)
    BY <2>1, <2>7, NewWait DEF TableInv
  <2>9. TableInv(u, now) /\ Gentle(t, u)
    BY <2>7, <2>8 DEF TableInv, Gentle, IsTable
  <2> QED
    BY <2>9 DEF u
<1> QED
  BY <1>1, <1>2

\* notify_process
LEMMA NotifyTable ==
    ASSUME NEW t, NEW now, TableInv(t, now), NEW to
    PROVE  /\ TableInv(notify_process(t, to), now)
           /\ Gentle(t, notify_process(t, to))
<1>1. CASE to \notin DOMAIN t
  BY <1>1 DEF notify_process, Gentle
<1>2. CASE to \in DOMAIN t
  <2>1. t[to] \in PCB /\ SoundPCB(t[to], now)
    BY <1>2 DEF TableInv, IsTable
  <2> DEFINE b == Wake(t[to])
  <2>2. SoundPCB(b, now)
    BY <2>1, WakePCB DEF SoundPCB
  <2>3. notify_process(t, to) = [t EXCEPT ![to] = b]
    BY <1>2 DEF notify_process
  <2>4. /\ b \in PCB /\ b.stack = t[to].stack /\ b.state # "Blocked"
        /\ b.mailbox = t[to].mailbox
        /\ b.waiting_for \in {t[to].waiting_for, None}
    BY <2>1, WakePCB
  <2> HIDE DEF b
  <2>5. TableInv([t EXCEPT ![to] = b], now) /\ Gentle(t, [t EXCEPT ![to] = b])
    BY <1>2, <2>2, <2>4, FramePCB
  <2> QED
    BY <2>3, <2>5
<1> QED
  BY <1>1, <1>2

\* check_deadlines, run by the tick that makes it now.
LEMMA DeadlineTable ==
    ASSUME NEW t, NEW now \in Nat, TableInv(t, now)
    PROVE  /\ TableInv(check_deadlines(t, now + 1), now + 1)
           /\ Gentle(t, check_deadlines(t, now + 1))
<1> DEFINE due(p) == t[p].state = "Blocked" /\ t[p].blocked_deadline <= now + 1
           u == check_deadlines(t, now + 1)
<1>1. \A p \in DOMAIN t : t[p] \in PCB /\ SoundPCB(t[p], now)
  BY DEF TableInv, IsTable
<1>2. u = [p \in DOMAIN t |-> IF due(p) THEN Wake(t[p]) ELSE t[p]]
  BY DEF check_deadlines
<1>3. u \in [DOMAIN t -> PCB]
  BY <1>1, <1>2, WakePCB
<1>4. ASSUME NEW p \in DOMAIN t
      PROVE  /\ SoundPCB(u[p], now + 1)
             /\ u[p].stack = t[p].stack
             /\ t[p].state # "Blocked" => u[p].state # "Blocked"
             /\ u[p].mailbox = t[p].mailbox
             /\ u[p].waiting_for \in {t[p].waiting_for, None}
  <2>1. CASE due(p)
    BY <1>1, <1>2, <2>1, WakePCB DEF SoundPCB
  <2>2. CASE ~due(p)
    <3>1. u[p] = t[p]
      BY <1>2, <2>2
    <3>2. t[p].blocked_deadline \in Nat
      BY <1>1 DEF PCB
    <3> QED
      BY <1>1, <2>2, <3>1, <3>2 DEF SoundPCB
  <2> QED
    BY <2>1, <2>2
<1> HIDE DEF u
<1>5. TableInv(u, now + 1) /\ Gentle(t, u)
  BY <1>3, <1>4, FrameTable
<1> QED
  BY <1>5 DEF u

\* A change of fields that are not about IPC, in any set of PCBs.
LEMMA AttributeTable ==
    ASSUME NEW t, NEW u, NEW now, TableInv(t, now), u \in [DOMAIN t -> PCB],
           \A p \in DOMAIN t :
              /\ u[p].stack = t[p].stack
              /\ u[p].mailbox = t[p].mailbox
              /\ u[p].waiting_for = t[p].waiting_for
              /\ u[p].blocked_deadline = t[p].blocked_deadline
              /\ u[p].pc = t[p].pc
              /\ t[p].state = "Blocked" <=> u[p].state = "Blocked"
    PROVE  TableInv(u, now) /\ Gentle(t, u)
<1>1. \A p \in DOMAIN t : SoundPCB(u[p], now)
  BY DEF TableInv, SoundPCB
<1> QED
  BY <1>1, FrameTable

\* The same for the attributes of one PCB.
LEMMA AttributePCB ==
    ASSUME NEW t, NEW now, TableInv(t, now), NEW p \in DOMAIN t, NEW b \in PCB,
           b.stack = t[p].stack,
           b.mailbox = t[p].mailbox,
           b.waiting_for = t[p].waiting_for,
           b.blocked_deadline = t[p].blocked_deadline,
           b.pc = t[p].pc,
           t[p].state = "Blocked" <=> b.state = "Blocked"
    PROVE  /\ TableInv([t EXCEPT ![p] = b], now)
           /\ Gentle(t, [t EXCEPT ![p] = b])
<1>1. [t EXCEPT ![p] = b] \in [DOMAIN t -> PCB]
  BY DEF TableInv, IsTable
<1> QED
  BY <1>1, AttributeTable

\* Resetting the rate counters, the budget counters.
LEMMA ResetTable ==
    ASSUME NEW t, NEW now, TableInv(t, now)
    PROVE  /\ TableInv(reset_ipc_rate_counters(t), now)
           /\ Gentle(t, reset_ipc_rate_counters(t))
           /\ TableInv(reset_cpu_budget_counters(t), now)
           /\ Gentle(t, reset_cpu_budget_counters(t))
<1>1. \A p \in DOMAIN t : t[p] \in PCB
  BY DEF TableInv, IsTable
<1>2. ASSUME NEW b \in PCB
      PROVE  /\ [b EXCEPT !.rate_used = 0] \in PCB
             /\ [b EXCEPT !.budget_used = 0] \in PCB
  BY DEF PCB
<1>3. ASSUME NEW b \in PCB
      PROVE  LET r == [b EXCEPT !.rate_used = 0] IN
             /\ r.stack = b.stack /\ r.mailbox = b.mailbox /\ r.state = b.state
             /\ r.waiting_for = b.waiting_for /\ r.pc = b.pc
             /\ r.blocked_deadline = b.blocked_deadline
  BY DEF PCB
<1>4. ASSUME NEW b \in PCB
      PROVE  LET r == [b EXCEPT !.budget_used = 0] IN
             /\ r.stack = b.stack /\ r.mailbox = b.mailbox /\ r.state = b.state
             /\ r.waiting_for = b.waiting_for /\ r.pc = b.pc
             /\ r.blocked_deadline = b.blocked_deadline
  BY DEF PCB
<1>5. TableInv(reset_ipc_rate_counters(t), now) /\ Gentle(t, reset_ipc_rate_counters(t))
  <2> DEFINE u == reset_ipc_rate_counters(t)
  <2>1. /\ u \in [DOMAIN t -> PCB]
        /\ \A p \in DOMAIN t :
              /\ u[p].stack = t[p].stack
              /\ u[p].mailbox = t[p].mailbox
              /\ u[p].waiting_for = t[p].waiting_for
              /\ u[p].blocked_deadline = t[p].blocked_deadline
              /\ u[p].pc = t[p].pc
              /\ u[p].state = t[p].state
    BY <1>1, <1>2, <1>3 DEF reset_ipc_rate_counters
  <2> HIDE DEF u
  <2>2. TableInv(u, now) /\ Gentle(t, u)
    BY <2>1, AttributeTable
  <2> QED
    BY <2>2 DEF u
<1>6. TableInv(reset_cpu_budget_counters(t), now) /\ Gentle(t, reset_cpu_budget_counters(t))
  <2> DEFINE u == reset_cpu_budget_counters(t)
  <2>1. /\ u \in [DOMAIN t -> PCB]
        /\ \A p \in DOMAIN t :
              /\ u[p].stack = t[p].stack
              /\ u[p].mailbox = t[p].mailbox
              /\ u[p].waiting_for = t[p].waiting_for
              /\ u[p].blocked_deadline = t[p].blocked_deadline
              /\ u[p].pc = t[p].pc
              /\ u[p].state = t[p].state
    BY <1>1, <1>2, <1>4 DEF reset_cpu_budget_counters
  <2> HIDE DEF u
  <2>2. TableInv(u, now) /\ Gentle(t, u)
    BY <2>1, AttributeTable
  <2> QED
    BY <2>2 DEF u
<1> QED
  BY <1>5, <1>6

\* Marking a process that is not Blocked Running.
LEMMA RunningTable ==
    ASSUME NEW t, NEW now, TableInv(t, now), NEW p \in DOMAIN t,
           t[p].state # "Blocked"
    PROVE  TableInv(SetRunning(t, p), now) /\ Gentle(t, SetRunning(t, p))
<1> DEFINE b == [t[p] EXCEPT !.state = "Running"]
<1>1. t[p] \in PCB
  BY DEF TableInv, IsTable
<1>2. /\ b \in PCB
      /\ b.stack = t[p].stack /\ b.mailbox = t[p].mailbox
      /\ b.waiting_for = t[p].waiting_for /\ b.pc = t[p].pc
      /\ b.blocked_deadline = t[p].blocked_deadline
      /\ t[p].state = "Blocked" <=> b.state = "Blocked"
  BY <1>1 DEF PCB
<1>3. SetRunning(t, p) = [t EXCEPT ![p] = b]
  BY DEF SetRunning
<1> HIDE DEF b
<1>4. TableInv([t EXCEPT ![p] = b], now) /\ Gentle(t, [t EXCEPT ![p] = b])
  BY <1>2, AttributePCB
<1> QED
  BY <1>3, <1>4

\* A Running process becomes Ready.
LEMMA DescheduleTable ==
    ASSUME NEW t, NEW now, TableInv(t, now), NEW p \in DOMAIN t
    PROVE  TableInv(Deschedule(t, p), now) /\ Gentle(t, Deschedule(t, p))
<1> DEFINE b == [t[p] EXCEPT !.state = IF t[p].state = "Running" THEN "Ready"
                                 ELSE t[p].state]
<1>1. t[p] \in PCB
  BY DEF TableInv, IsTable
<1>2. /\ b \in PCB
      /\ b.stack = t[p].stack /\ b.mailbox = t[p].mailbox
      /\ b.waiting_for = t[p].waiting_for /\ b.pc = t[p].pc
      /\ b.blocked_deadline = t[p].blocked_deadline
      /\ t[p].state = "Blocked" <=> b.state = "Blocked"
  BY <1>1 DEF PCB
<1>3. Deschedule(t, p) = [t EXCEPT ![p] = b]
  BY DEF Deschedule
<1> HIDE DEF b
<1>4. TableInv([t EXCEPT ![p] = b], now) /\ Gentle(t, [t EXCEPT ![p] = b])
  BY <1>2, AttributePCB
<1> QED
  BY <1>3, <1>4

\* A process gets a fresh quantum.
LEMMA QuantumTable ==
    ASSUME NEW t, NEW now, TableInv(t, now), NEW p \in DOMAIN t
    PROVE  TableInv([t EXCEPT ![p].cpu_time = 0], now) /\ Gentle(t, [t EXCEPT ![p].cpu_time = 0])
<1> DEFINE b == [t[p] EXCEPT !.cpu_time = 0]
<1>1. t[p] \in PCB
  BY DEF TableInv, IsTable
<1>2. /\ b \in PCB
      /\ b.stack = t[p].stack /\ b.mailbox = t[p].mailbox
      /\ b.waiting_for = t[p].waiting_for /\ b.pc = t[p].pc
      /\ b.blocked_deadline = t[p].blocked_deadline
      /\ t[p].state = "Blocked" <=> b.state = "Blocked"
  BY <1>1 DEF PCB
<1>3. [t EXCEPT ![p].cpu_time = 0] = [t EXCEPT ![p] = b]
  BY <1>1
<1> HIDE DEF b
<1>4. TableInv([t EXCEPT ![p] = b], now) /\ Gentle(t, [t EXCEPT ![p] = b])
  BY <1>2, AttributePCB
<1> QED
  BY <1>3, <1>4

\* One tick is charged to the running process.
LEMMA ChargeTickTable ==
    ASSUME NEW t, NEW now, TableInv(t, now), NEW p \in DOMAIN t
    PROVE  /\ TableInv([t EXCEPT ![p] = ChargeTick(@)], now)
           /\ Gentle(t, [t EXCEPT ![p] = ChargeTick(@)])
<1> DEFINE b == ChargeTick(t[p])
<1>1. t[p] \in PCB
  BY DEF TableInv, IsTable
<1>2. /\ b \in PCB
      /\ b.stack = t[p].stack /\ b.mailbox = t[p].mailbox
      /\ b.waiting_for = t[p].waiting_for /\ b.pc = t[p].pc
      /\ b.blocked_deadline = t[p].blocked_deadline
      /\ t[p].state = "Blocked" <=> b.state = "Blocked"
  <2> DEFINE c == t[p].cpu_time + 1
             used == IF t[p].budget > 0 THEN t[p].budget_used + 1
                     ELSE t[p].budget_used
  <2>1. c \in Nat /\ used \in Nat
    BY <1>1 DEF PCB
  <2>2. b = [t[p] EXCEPT !.cpu_time = c, !.budget_used = used]
    BY DEF ChargeTick
  <2> HIDE DEF b, c, used
  <2> QED
    BY <1>1, <2>1, <2>2 DEF PCB
<1> HIDE DEF b
<1>3. TableInv([t EXCEPT ![p] = b], now) /\ Gentle(t, [t EXCEPT ![p] = b])
  BY <1>2, AttributePCB
<1> QED
  BY <1>3 DEF b

\* Sums of u64 stay natural numbers.
LEMMA WrapAddType ==
    ASSUME NEW a \in Nat, NEW c \in Nat
    PROVE  WrapAdd(a, c) \in Nat
<1>1. a + c \in Nat /\ U64Max + 1 \in Nat /\ U64Max + 1 >= 1
  BY TableAssumption
<1> QED
  BY <1>1, ModType DEF WrapAdd

\* The running process is preempted at time then.
LEMMA PreemptedTable ==
    ASSUME NEW t, NEW now, TableInv(t, now), NEW p \in DOMAIN t, NEW then
    PROVE  /\ TableInv([t EXCEPT ![p] = Preempted(@, then)], now)
           /\ Gentle(t, [t EXCEPT ![p] = Preempted(@, then)])
<1> DEFINE b == Preempted(t[p], then)
           d == IF t[p].rt_period > 0 /\ t[p].rt_deadline <= then
                THEN WrapAdd(t[p].rt_deadline, t[p].rt_period)
                ELSE t[p].rt_deadline
<1>1. t[p] \in PCB
  BY DEF TableInv, IsTable
<1>2. t[p].rt_deadline \in Nat /\ t[p].rt_period \in Nat
  BY <1>1 DEF PCB
<1>3. d \in Nat
  BY <1>2, WrapAddType
<1>4. b = [t[p] EXCEPT !.cpu_time = 0,
               !.state = IF t[p].state = "Running" THEN "Ready" ELSE t[p].state,
               !.rt_deadline = d]
  BY DEF Preempted
<1> HIDE DEF d
<1>5. /\ b \in PCB
      /\ b.stack = t[p].stack /\ b.mailbox = t[p].mailbox
      /\ b.waiting_for = t[p].waiting_for /\ b.pc = t[p].pc
      /\ b.blocked_deadline = t[p].blocked_deadline
      /\ t[p].state = "Blocked" <=> b.state = "Blocked"
  <2> HIDE DEF b
  <2> QED
    BY <1>1, <1>3, <1>4 DEF PCB
<1> HIDE DEF b
<1>6. TableInv([t EXCEPT ![p] = b], now) /\ Gentle(t, [t EXCEPT ![p] = b])
  BY <1>5, AttributePCB
<1> QED
  BY <1>6 DEF b

\* blocking_receive takes a message.
LEMMA PopTable ==
    ASSUME NEW t, NEW now, TableInv(t, now), NEW p \in DOMAIN t,
           t[p].mailbox # <<>>
    PROVE  TableInv(Pop(t, p), now) /\ Gentle(t, Pop(t, p))
<1> DEFINE b == [t[p] EXCEPT !.mailbox = Tail(t[p].mailbox),
                             !.waiting_for = None]
           u == Pop(t, p)
<1>1. t[p] \in PCB /\ SoundPCB(t[p], now)
  BY DEF TableInv, IsTable
<1>2. Tail(t[p].mailbox) \in Mailboxes
  <2>1. t[p].mailbox \in Mailboxes
    BY <1>1 DEF PCB
  <2> QED
    BY <2>1, MailboxOps
<1>3. /\ b \in PCB /\ b.stack = t[p].stack /\ b.state = t[p].state
      /\ b.waiting_for = None /\ b.blocked_deadline = t[p].blocked_deadline
  BY <1>1, <1>2 DEF PCB
<1>4. u = [t EXCEPT ![p] = b]
  BY DEF Pop
<1>5. t[p].state # "Blocked"
  BY <1>1 DEF SoundPCB
<1>6. SoundPCB(b, now)
  BY <1>1, <1>3, <1>5 DEF SoundPCB
<1> HIDE DEF b, u
<1>7. /\ u \in [DOMAIN t -> PCB]
      /\ \A q \in DOMAIN t : u[q] = IF q = p THEN b ELSE t[q]
  BY <1>3, <1>4 DEF TableInv, IsTable
<1>8. \A S \in SUBSET DOMAIN u : ~SilentCycle(u, S)
  BY <1>3, <1>7, KeptWaits DEF TableInv, IsTable
<1>9. TableInv(u, now) /\ Gentle(t, u)
  BY <1>3, <1>5, <1>6, <1>7, <1>8 DEF TableInv, Gentle, IsTable
<1> QED
  BY <1>9 DEF u

\* A process that is not Blocked moves to another point of its program.
LEMMA PcTable ==
    ASSUME NEW t, NEW now, TableInv(t, now), NEW p \in DOMAIN t,
           NEW k \in Continuations, t[p].state # "Blocked"
    PROVE  /\ TableInv([t EXCEPT ![p].pc = k], now)
           /\ Gentle(t, [t EXCEPT ![p].pc = k])
<1> DEFINE b == [t[p] EXCEPT !.pc = k]
<1>1. t[p] \in PCB /\ SoundPCB(t[p], now)
  BY DEF TableInv, IsTable
<1>2. /\ b \in PCB /\ b.stack = t[p].stack /\ b.state = t[p].state
      /\ b.mailbox = t[p].mailbox /\ b.waiting_for = t[p].waiting_for
      /\ b.blocked_deadline = t[p].blocked_deadline
  BY <1>1 DEF PCB
<1>3. SoundPCB(b, now)
  BY <1>1, <1>2 DEF SoundPCB
<1> HIDE DEF b
<1>4. TableInv([t EXCEPT ![p] = b], now) /\ Gentle(t, [t EXCEPT ![p] = b])
  BY <1>2, <1>3, FramePCB
<1> QED
  BY <1>4 DEF b

\* A deadline computed now lies after now.
LEMMA DeadlineType ==
    ASSUME NEW now \in Nat, now < U64Max,
           NEW timeout \in 0..U64Max, timeout # 0
    PROVE  DeadlineAfter(now, timeout) \in Nat /\ DeadlineAfter(now, timeout) > now
  BY TableAssumption DEF DeadlineAfter

\* blocking_receive blocks a process other than idle, inside a system call.
LEMMA BlockTable ==
    ASSUME NEW t, NEW now \in Nat, now < U64Max, TableInv(t, now),
           NEW p \in DOMAIN t, p # IdlePid, t[p].mailbox = <<>>,
           NEW timeout \in 0..U64Max, timeout # 0, NEW k \in {"recv", "call"}
    PROVE  /\ TableInv([Block(t, p, now, timeout) EXCEPT ![p].pc = k], now)
           /\ IdlePid \in Candidates(Block(t, p, now, timeout))
<1> DEFINE d == DeadlineAfter(now, timeout)
           b == [t[p] EXCEPT !.state = "Blocked", !.blocked_deadline = d,
                             !.pc = k]
           u == [Block(t, p, now, timeout) EXCEPT ![p].pc = k]
<1>1. t[p] \in PCB
  BY DEF TableInv, IsTable
<1>2. u = [t EXCEPT ![p] = b]
  BY <1>1 DEF Block
<1>3. d \in Nat /\ d > now
  BY DeadlineType
<1> HIDE DEF d
<1>4. /\ b \in PCB /\ b.stack = t[p].stack /\ b.state = "Blocked"
      /\ b.mailbox = t[p].mailbox /\ b.waiting_for = t[p].waiting_for
      /\ b.blocked_deadline = d /\ b.pc = k
  BY <1>1, <1>3 DEF PCB, Continuations
<1>5. SoundPCB(b, now)
  BY <1>3, <1>4 DEF SoundPCB
<1> HIDE DEF b, u
<1>6. /\ u \in [DOMAIN t -> PCB]
      /\ \A q \in DOMAIN t : u[q] = IF q = p THEN b ELSE t[q]
  BY <1>2, <1>4 DEF TableInv, IsTable
<1>7. \A S \in SUBSET DOMAIN u : ~SilentCycle(u, S)
  BY <1>4, <1>6, KeptWaits DEF TableInv, IsTable
<1>8. TableInv(u, now)
  BY <1>4, <1>5, <1>6, <1>7 DEF TableInv, IsTable
<1>9. IdlePid \in Candidates(Block(t, p, now, timeout))
  <2>1. t[IdlePid].state \in {"Ready", "Running"} /\ IdlePid \in DOMAIN t
    BY DEF TableInv, IsTable, PCB
  <2> QED
    BY <2>1 DEF Candidates, Block
<1> QED
  BY <1>8, <1>9 DEF u

\* A process other than idle is removed.
LEMMA TerminateTable ==
    ASSUME NEW t, NEW now, TableInv(t, now), NEW p, p # IdlePid
    PROVE  TableInv(terminate_process(t, p), now)
<1> DEFINE u == terminate_process(t, p)
<1>1. DOMAIN u = DOMAIN t \ {p} /\ \A q \in DOMAIN u : u[q] = t[q]
  BY DEF terminate_process
<1>2. IsTable(u)
  BY DEF TableInv, IsTable, terminate_process
<1> HIDE DEF u
<1>3. \A S \in SUBSET DOMAIN u : ~SilentCycle(u, S)
  BY <1>1, <1>2, KeptWaits DEF TableInv, IsTable
<1>4. TableInv(u, now)
  BY <1>1, <1>2, <1>3 DEF TableInv
<1> QED
  BY <1>4 DEF u

\* A fresh PCB is sound.
LEMMA NewPCBSound ==
    ASSUME NEW s \in Slots, NEW k \in Stacks, NEW prio \in Nat, NEW now
    PROVE  LET b == NewPCB(s, k, prio) IN
           /\ b \in PCB /\ SoundPCB(b, now)
           /\ b.stack = k /\ b.state = "Ready"
           /\ b.mailbox = <<>> /\ b.waiting_for = None
<1>1. <<>> \in Mailboxes
  BY MailboxOps
<1>2. /\ NewPCB(s, k, prio) \in PCB
      /\ NewPCB(s, k, prio).waiting_for = None
      /\ NewPCB(s, k, prio).mailbox = <<>>
      /\ NewPCB(s, k, prio).stack = k
      /\ NewPCB(s, k, prio).state = "Ready"
      /\ NewPCB(s, k, prio).blocked_deadline = U64Max
  BY <1>1, TableAssumption DEF NewPCB, PCB, None, Continuations
<1> QED
  BY <1>2 DEF SoundPCB

\* A process is created: the others keep their PCBs and nobody is awaited anew.
LEMMA CreateTable ==
    ASSUME NEW t, NEW now, TableInv(t, now), NEW u, IsTable(u),
           DOMAIN t \subseteq DOMAIN u,
           \A q \in DOMAIN u \ DOMAIN t :
               SoundPCB(u[q], now) /\ u[q].waiting_for = None,
           \A q \in DOMAIN t : u[q] = t[q]
    PROVE  TableInv(u, now)
<1>1. \A S \in SUBSET DOMAIN u : ~SilentCycle(u, S)
  BY KeptWaits DEF TableInv, IsTable
<1> QED
  BY <1>1 DEF TableInv

\* SYS_SETPRIO, SYS_SETRT and SYS_SETQUOTA change attributes only.
LEMMA SetTables ==
    ASSUME NEW t, NEW now \in Nat, TableInv(t, now), NEW p,
           NEW x \in Nat, NEW y \in Nat
    PROVE  /\ TableInv(set_priority(t, p, x), now)
           /\ Gentle(t, set_priority(t, p, x))
           /\ TableInv(set_realtime(t, p, now, x), now)
           /\ Gentle(t, set_realtime(t, p, now, x))
           /\ TableInv(set_quotas(t, p, x, y), now)
           /\ Gentle(t, set_quotas(t, p, x, y))
<1>1. CASE p \notin DOMAIN t
  BY <1>1 DEF set_priority, set_realtime, set_quotas, Gentle
<1>2. CASE p \in DOMAIN t
  <2> DEFINE same(b) == /\ b.stack = t[p].stack /\ b.mailbox = t[p].mailbox
                        /\ b.waiting_for = t[p].waiting_for /\ b.pc = t[p].pc
                        /\ b.blocked_deadline = t[p].blocked_deadline
                        /\ b.state = t[p].state
             a == [t[p] EXCEPT !.priority = x]
             d == IF x > 0 THEN WrapAdd(now, x) ELSE 0
             r == [t[p] EXCEPT !.rt_period = x, !.rt_deadline = d]
             q == [t[p] EXCEPT !.budget = x, !.rate_limit = y]
  <2>1. t[p] \in PCB
    BY <1>2 DEF TableInv, IsTable
  <2>2. d \in Nat
    BY WrapAddType
  <2>3. set_realtime(t, p, now, x) = [t EXCEPT ![p] = r]
    BY <1>2 DEF set_realtime
  <2> HIDE DEF d
  <2>4. a \in PCB /\ same(a)
    BY <2>1 DEF PCB
  <2>5. r \in PCB /\ same(r)
    BY <2>1, <2>2 DEF PCB
  <2>6. q \in PCB /\ same(q)
    BY <2>1 DEF PCB
  <2>7. /\ set_priority(t, p, x) = [t EXCEPT ![p] = a]
        /\ set_quotas(t, p, x, y) = [t EXCEPT ![p] = q]
    BY <1>2 DEF set_priority, set_quotas
  <2> HIDE DEF a, r, q
  <2>8. TableInv([t EXCEPT ![p] = a], now) /\ Gentle(t, [t EXCEPT ![p] = a])
    BY <1>2, <2>4, AttributePCB
  <2>9. TableInv([t EXCEPT ![p] = r], now) /\ Gentle(t, [t EXCEPT ![p] = r])
    BY <1>2, <2>5, AttributePCB
  <2>10. TableInv([t EXCEPT ![p] = q], now) /\ Gentle(t, [t EXCEPT ![p] = q])
    BY <1>2, <2>6, AttributePCB
  <2> QED
    BY <2>3, <2>7, <2>8, <2>9, <2>10
<1> QED
  BY <1>1, <1>2

\* A PCB that gets mail and keeps everything else, then is woken.
LEMMA MailTable ==
    ASSUME NEW t, NEW now, TableInv(t, now), NEW to \in DOMAIN t,
           NEW box \in Mailboxes, box # <<>>
    PROVE  LET u == [t EXCEPT ![to] = Wake([t[to] EXCEPT !.mailbox = box])] IN
           TableInv(u, now) /\ Gentle(t, u)
<1> DEFINE e == [t[to] EXCEPT !.mailbox = box]
           d == Wake(e)
           u == [t EXCEPT ![to] = d]
<1>1. t[to] \in PCB /\ SoundPCB(t[to], now)
  BY DEF TableInv, IsTable
<1>2. /\ e \in PCB /\ e.stack = t[to].stack /\ e.mailbox = box
      /\ e.state = t[to].state /\ e.blocked_deadline = t[to].blocked_deadline
  BY <1>1 DEF PCB
<1> HIDE DEF e
<1>3. /\ d \in PCB /\ d.stack = t[to].stack /\ d.state # "Blocked"
      /\ d.mailbox # <<>> /\ SoundPCB(d, now)
  <2>1. /\ d \in PCB /\ d.stack = t[to].stack /\ d.state # "Blocked"
        /\ d.mailbox # <<>>
    BY <1>2, WakePCB
  <2>2. d.blocked_deadline = U64Max
    <3>1. CASE e.state = "Blocked"
      BY <1>2, <3>1, WakePCB
    <3>2. CASE e.state # "Blocked"
      BY <1>1, <1>2, <3>2, WakePCB DEF SoundPCB
    <3> QED
      BY <3>1, <3>2
  <2> QED
    BY <2>1, <2>2 DEF SoundPCB
<1> HIDE DEF d
<1>4. /\ u \in [DOMAIN t -> PCB]
      /\ \A q \in DOMAIN t : u[q] = IF q = to THEN d ELSE t[q]
  BY <1>3 DEF TableInv, IsTable
<1> HIDE DEF u
<1>5. \A S \in SUBSET DOMAIN u : ~SilentCycle(u, S)
  BY <1>3, <1>4, NewWait DEF TableInv
<1>6. TableInv(u, now) /\ Gentle(t, u)
  BY <1>3, <1>4, <1>5 DEF TableInv, Gentle, IsTable
<1> QED
  BY <1>6 DEF u, d, e

\* The bytes of one UART interrupt.
LEMMA BurstTable ==
    ASSUME NEW t, NEW now, TableInv(t, now), NEW to, NEW n \in Nat
    PROVE  TableInv(Burst(t, to, n), now) /\ Gentle(t, Burst(t, to, n))
<1> DEFINE room == QueueCap - Len(t[to].mailbox)
           k    == IF n < room THEN n ELSE room
           new  == [i \in 1..k |-> None]
           box  == t[to].mailbox \o new
<1>1. CASE to \notin DOMAIN t \/ n = 0 \/ room <= 0
  BY <1>1 DEF Burst, Gentle
<1>2. CASE ~(to \notin DOMAIN t \/ n = 0 \/ room <= 0)
  <2>1. t[to].mailbox \in Seq(Pids \cup {None}) /\ t[to] \in PCB
    <3>1. t[to].mailbox \in Mailboxes /\ t[to] \in PCB
      BY <1>2 DEF TableInv, IsTable, PCB
    <3> QED
      BY <3>1, MailboxOps
  <2>2. /\ room \in Int /\ k \in Nat /\ k >= 1
        /\ k + Len(t[to].mailbox) <= QueueCap
    <3> DEFINE len == Len(t[to].mailbox)
    <3>1. len \in Nat /\ QueueCap \in Nat
      BY <2>1, TableAssumption
    <3>2. room = QueueCap - len /\ ~(room <= 0) /\ n # 0
      BY <1>2
    <3> HIDE DEF len, room
    <3>3. /\ room \in Int /\ k \in Nat /\ k >= 1
          /\ k + len <= QueueCap
      BY <3>1, <3>2
    <3> QED
      BY <3>3 DEF len
  <2>3. Burst(t, to, n) = [t EXCEPT ![to] = Wake([t[to] EXCEPT !.mailbox = box])]
    BY <1>2, <2>1 DEF Burst, PCB
  <2> HIDE DEF k, room
  <2>4. new \in Seq(Pids \cup {None}) /\ Len(new) = k
    BY <2>2
  <2> HIDE DEF new
  <2>5. box \in Mailboxes /\ Len(box) # 0
    <3>1. /\ box \in Seq(Pids \cup {None})
          /\ Len(box) = Len(t[to].mailbox) + k /\ Len(t[to].mailbox) \in Nat
      BY <2>1, <2>2, <2>4
    <3> HIDE DEF box
    <3> QED
      BY <2>2, <3>1, MailboxOps, TableAssumption
  <2> HIDE DEF box
  <2>6. box # <<>>
    BY <2>5
  <2> DEFINE u == [t EXCEPT ![to] = Wake([t[to] EXCEPT !.mailbox = box])]
  <2>7. to \in DOMAIN t
    BY <1>2
  <2>8. TableInv(u, now) /\ Gentle(t, u)
    BY <2>5, <2>6, <2>7, MailTable
  <2>9. Burst(t, to, n) = u
    BY <2>3
  <2> HIDE DEF u
  <2> QED
    BY <2>8, <2>9
<1> QED
  BY <1>1, <1>2

=============================================================================
