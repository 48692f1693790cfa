-------------------------- MODULE SupervisorProofs --------------------------
(***************************************************************************)
(* No service runs twice, and no crash of a critical service gets lost     *)
(* between the kernel and init, for every set of services, restart budget, *)
(* log size and mailbox size.                                              *)
(***************************************************************************)
EXTENDS Supervisor, QueueProofs

-----------------------------------------------------------------------------
(* The inductive invariant *)

States == {"unused", "started", "registered", "dead"}
Names  == Services \cup {"none"}

TypesOK ==
    /\ RingOK
    /\ next_pid \in Nat
    /\ instance \in [Pids -> [name : Names, state : States]]
    /\ registry \in [Services -> Nat]
    /\ services \in [Services -> [pid : Nat, restart_count : Nat]]

\* PIDs not given out run nothing, and a live instance runs a service.
InstancesOK ==
    \A p \in Pids :
        /\ p >= next_pid => instance[p].state = "unused"
        /\ Alive(p) => instance[p].name \in Services

\* The registry names live instances.
RegistryOK ==
    \A s \in Services : registry[s] # NoPid =>
        /\ registry[s] \in Pids
        /\ Alive(registry[s])
        /\ instance[registry[s]].name = s

\* An entry of init names an instance of its service, and no other instance
\* of that service is alive.
EntriesOK ==
    \A s \in Services : services[s].pid # NoPid =>
        /\ services[s].pid \in Pids
        /\ services[s].pid < next_pid
        /\ instance[services[s].pid].name = s
        /\ \A q \in Pids : Alive(q) /\ instance[q].name = s => q = services[s].pid

\* A fault in the mailbox is that of a dead process.
Reported(p) == Waiting(Fault(p))
FaultsOK == \A p \in Pids : Reported(p) => instance[p].state = "dead"

SupInv ==
    /\ TypesOK /\ InstancesOK /\ RegistryOK /\ EntriesOK /\ FaultsOK
    /\ OneInstance /\ CriticalAccounted

-----------------------------------------------------------------------------
(* What the mailbox does to the faults that wait in it *)

LEMMA MessageKinds ==
    /\ \A p \in Pids : Fault(p) \in Message /\ Beat(p) \in Message
    /\ \A n \in LogSeqs : LogRead(n) \in Message
    /\ Shutdown \in Message
    /\ \A m \in Message : m.op = "fault" => m.pid \in Pids /\ m = Fault(m.pid)
    /\ \A p \in Pids : Fault(p).op = "fault" /\ Fault(p).pid = p
    /\ \A p \in Pids : Beat(p).op = "beat"
    /\ \A n \in LogSeqs : LogRead(n).op = "log_read"
    /\ Shutdown.op = "shutdown"
<1>1. /\ \A p \in Pids : Fault(p).op = "fault" /\ Fault(p).pid = p
      /\ \A p \in Pids : Beat(p).op = "beat"
      /\ \A n \in LogSeqs : LogRead(n).op = "log_read"
      /\ Shutdown.op = "shutdown"
  BY DEF Fault, Beat, LogRead, Shutdown
<1>2. /\ \A p \in Pids : Fault(p) \in Message /\ Beat(p) \in Message
      /\ \A n \in LogSeqs : LogRead(n) \in Message
      /\ Shutdown \in Message
  BY MessageAssumption DEF Messages
<1>3. \A m \in Message : m.op = "fault" => m.pid \in Pids /\ m = Fault(m.pid)
  <2> TAKE m \in Message
  <2> HAVE m.op = "fault"
  <2>1. /\ \A p \in Pids : m # Beat(p)
        /\ \A n \in LogSeqs : m # LogRead(n)
        /\ m # Shutdown
    BY <1>1
  <2>2. PICK p \in Pids : m = Fault(p)
    BY <2>1, MessageAssumption DEF Messages
  <2> QED BY <1>1, <2>2
<1> QED BY <1>1, <1>2, <1>3

LEMMA QueueSend ==
    ASSUME RingOK, NEW m \in Message, send(m)
    PROVE  /\ RingOK'
           /\ accepted' \in BOOLEAN
           /\ \A p \in Pids : Reported(p)' <=>
                  Reported(p) \/ (accepted' = TRUE /\ m = Fault(p))
<1>1. RingOK' /\ Mailbox!Send(m)
  BY RingSend
<1>2. Queued \in Seq(Message)
  BY QueuedIsSeq DEF QueuedBySlot
<1>3. CASE Queued' = Append(Queued, m) /\ accepted' = TRUE
  <2>1. \A p \in Pids : Reported(p) => Reported(p)'
    BY <1>2, <1>3 DEF Reported, Waiting, Fault
  <2>2. \A p \in Pids : m = Fault(p) => Reported(p)'
    <3> SUFFICES ASSUME NEW p \in Pids, m = Fault(p) PROVE Reported(p)'
      OBVIOUS
    <3>1. Len(Queued) + 1 \in DOMAIN Queued' /\ Queued'[Len(Queued) + 1] = m
      BY <1>2, <1>3
    <3> QED BY <3>1 DEF Reported, Waiting, Fault
  <2>3. \A p \in Pids : Reported(p)' => Reported(p) \/ m = Fault(p)
    BY <1>2, <1>3 DEF Reported, Waiting, Fault
  <2> QED BY <1>1, <1>3, <2>1, <2>2, <2>3
<1>4. CASE Queued' = Queued /\ accepted' = FALSE
  BY <1>1, <1>4 DEF Reported, Waiting, Fault
<1> QED BY <1>1, <1>3, <1>4 DEF Mailbox!Send

LEMMA QueueReceive ==
    ASSUME RingOK, receive
    PROVE  /\ RingOK'
           /\ \A p \in Pids : Reported(p)' => Reported(p)
           /\ count > 0 => messages[head] \in Message
           /\ count > 0 => \A p \in Pids :
                  /\ messages[head] = Fault(p) => Reported(p)
                  /\ messages[head] # Fault(p) => (Reported(p) => Reported(p)')
           /\ count = 0 => \A p \in Pids : Reported(p) => Reported(p)'
<1>1. RingOK' /\ Mailbox!Receive
  BY RingReceive
<1>2. Queued \in Seq(Message) /\ Len(Queued) = count /\ count \in Nat
  BY QueuedIsSeq DEF QueuedBySlot, RingOK
<1>3. CASE count = 0
  <2>1. Queued' = Queued
    BY <1>3 DEF receive, Queued
  <2> QED BY <1>1, <1>3, <2>1 DEF Reported, Waiting, Fault
<1>4. CASE count > 0
  <2>1. Queued # <<>> /\ Queued' = Tail(Queued) /\ received' = Head(Queued)
    BY <1>1, <1>2, <1>4 DEF Mailbox!Receive
  <2>2. messages[head] = Queued[1]
    BY <1>2, <1>4, <2>1 DEF receive
  <2>3. messages[head] \in Message /\ 1 \in DOMAIN Queued
    BY <1>2, <1>4, <2>2
  <2>4. \A i \in DOMAIN Queued' : i + 1 \in DOMAIN Queued /\ Queued'[i] = Queued[i + 1]
    BY <1>2, <1>4, <2>1
  <2>5. \A i \in DOMAIN Queued : i # 1 => i - 1 \in DOMAIN Queued' /\ Queued'[i - 1] = Queued[i]
    BY <1>2, <1>4, <2>1
  <2>6. \A p \in Pids : Reported(p)' => Reported(p)
    BY <2>4 DEF Reported, Waiting, Fault
  <2>7. \A p \in Pids : messages[head] = Fault(p) => Reported(p)
    BY <2>2, <2>3 DEF Reported, Waiting
  <2>8. \A p \in Pids : messages[head] # Fault(p) => (Reported(p) => Reported(p)')
    BY <2>2, <2>5 DEF Reported, Waiting, Fault
  <2> QED BY <1>1, <1>4, <2>3, <2>6, <2>7, <2>8
<1> QED BY <1>2, <1>3, <1>4

-----------------------------------------------------------------------------
(* Steps that leave the mailbox's faults alone, or add one *)

\* Neither the table of processes nor init's entries change, and no fault
\* leaves the mailbox or enters it.
LEMMA QuietStep ==
    ASSUME SupInv, RingOK',
           UNCHANGED <<next_pid, instance, registry, services, unreported>>,
           \A p \in Pids : Reported(p)' <=> Reported(p),
           pc' # "down" => pc # "down"
    PROVE  SupInv'
<1> USE DEF SupInv
<1>1. TypesOK' /\ InstancesOK' /\ RegistryOK' /\ EntriesOK' /\ OneInstance'
  BY DEF TypesOK, InstancesOK, RegistryOK, EntriesOK, OneInstance, Alive
<1>2. FaultsOK'
  BY DEF FaultsOK
<1>3. CriticalAccounted'
  <2> SUFFICES ASSUME pc' # "down", NEW s \in Critical, services[s].pid # NoPid
               PROVE  \/ Alive(services[s].pid) \/ Reported(services[s].pid)'
                      \/ services[s].pid \in unreported
    BY DEF CriticalAccounted, Alive, Reported
  <2>1. services[s].pid \in Pids
    BY ServicesAssumption DEF EntriesOK, Services
  <2> QED BY <2>1 DEF CriticalAccounted, Reported
<1> QED BY <1>1, <1>2, <1>3

LEMMA QuietSend ==
    ASSUME SupInv, NEW m \in Message, m.op # "fault", SendToInit(m),
           UNCHANGED <<next_pid, instance, registry, services, unreported, pc>>
    PROVE  SupInv'
<1>1. CASE pc = "down"
  <2>1. RingOK' /\ \A p \in Pids : Reported(p)' <=> Reported(p)
    BY <1>1 DEF SendToInit, queue_vars, SupInv, TypesOK, RingOK, Reported, Waiting,
                Queued, Fault
  <2> QED BY <2>1, QuietStep
<1>2. CASE pc # "down"
  <2>1. \A p \in Pids : m # Fault(p)
    BY MessageKinds
  <2>2. RingOK' /\ \A p \in Pids : Reported(p)' <=> Reported(p)
    BY <1>2, <2>1, QueueSend DEF SendToInit, SupInv, TypesOK
  <2> QED BY <2>2, QuietStep
<1> QED BY <1>1, <1>2

\* Terminating a live process: its fault may be reported, or nobody is told.
LEMMA TerminateStep ==
    ASSUME SupInv, NEW p \in Pids, Alive(p), Terminate(p), RingOK',
           UNCHANGED <<next_pid, services, pc>>,
           \A q \in Pids : Reported(q) => Reported(q)',
           \A q \in Pids : q # p => (Reported(q)' => Reported(q)),
           unreported \subseteq unreported',
           pc # "down" => Reported(p)' \/ p \in unreported'
    PROVE  SupInv'
<1> USE DEF SupInv
<1>0. /\ instance' \in [Pids -> [name : Names, state : States]]
      /\ instance'[p].state = "dead" /\ instance'[p].name = instance[p].name
      /\ \A q \in Pids : q # p => instance'[q] = instance[q]
      /\ registry' \in [Services -> Nat]
      /\ \A s \in Services : registry'[s] =
            IF registry[s] = p THEN NoPid ELSE registry[s]
  BY DEF Terminate, TypesOK, States, NoPid
<1>1. TypesOK'
  BY <1>0 DEF TypesOK
<1>2. /\ ~Alive(p)' /\ p < next_pid
      /\ \A q \in Pids : Alive(q)' => Alive(q) /\ q # p
      /\ \A q \in Pids : Alive(q) /\ q # p => Alive(q)'
      /\ \A q \in Pids : instance'[q].name = instance[q].name
  BY <1>0, ServicesAssumption DEF Alive, InstancesOK, TypesOK
<1>3. InstancesOK'
  BY <1>0, <1>2 DEF InstancesOK, Alive, TypesOK
<1>4. RegistryOK'
  BY <1>0, <1>2 DEF RegistryOK
<1>5. EntriesOK'
  BY <1>2 DEF EntriesOK
<1>6. OneInstance'
  BY <1>2 DEF OneInstance
<1>7. FaultsOK'
  BY <1>0 DEF FaultsOK
<1>8. CriticalAccounted'
  <2> SUFFICES ASSUME pc # "down", NEW s \in Critical, services[s].pid # NoPid
               PROVE  \/ Alive(services[s].pid)' \/ Reported(services[s].pid)'
                      \/ services[s].pid \in unreported'
    BY DEF CriticalAccounted, Alive, Reported
  <2>1. services[s].pid \in Pids
    BY ServicesAssumption DEF EntriesOK, Services
  <2> QED BY <1>2, <2>1 DEF CriticalAccounted, Reported
<1> QED BY <1>1, <1>3, <1>4, <1>5, <1>6, <1>7, <1>8
-----------------------------------------------------------------------------
(* The steps of the processes *)

LEMMA SupInit == Init => SupInv
<1> SUFFICES ASSUME Init PROVE SupInv
  OBVIOUS
<1>1. /\ BootOrder \in Seq(STRING) /\ Services = {BootOrder[i] : i \in DOMAIN BootOrder}
      /\ Pids \subseteq Nat \ {0}
  BY ServicesAssumption DEF Services, Range
<1>2. \A p \in Pids :
        /\ instance[p] \in [name : Names, state : States]
        /\ \/ /\ p \in DOMAIN BootOrder /\ BootOrder[p] \in Services
              /\ instance[p].name = BootOrder[p] /\ instance[p].state = "started"
              /\ p < next_pid
           \/ instance[p].state = "unused"
  <2> TAKE p \in Pids
  <2>1. CASE p <= Len(BootOrder)
    <3>1. instance[p] = [name |-> BootOrder[p], state |-> "started"]
      BY <2>1 DEF Init
    <3>2. p \in DOMAIN BootOrder /\ BootOrder[p] \in STRING
      BY <1>1, <2>1
    <3> QED BY <1>1, <3>1, <3>2 DEF Init, States, Names
  <2>2. CASE ~(p <= Len(BootOrder))
    <3>1. instance[p] = [name |-> "none", state |-> "unused"]
      BY <2>2 DEF Init, Unused
    <3>2. instance[p] \in [name : Names, state : States] /\ instance[p].state = "unused"
      BY <3>1 DEF States, Names
    <3> QED BY <3>2, Zenon
  <2> QED BY <2>1, <2>2
<1>3. TypesOK
  <2>1. RingOK
    BY RingInit DEF Init, QueueInit
  <2>2. instance \in [Pids -> [name : Names, state : States]]
    BY <1>2 DEF Init
  <2> QED BY <1>1, <2>1, <2>2 DEF Init, TypesOK, NoPid
<1>4. InstancesOK
  BY <1>1, <1>2, <1>3 DEF InstancesOK, Alive, TypesOK
<1>5. RegistryOK /\ EntriesOK
  BY DEF RegistryOK, EntriesOK, Init
<1>6. FaultsOK
  BY DEF FaultsOK, Init, QueueInit, Reported, Waiting, Queued
<1>7. OneInstance
  BY <1>2, ServicesAssumption DEF OneInstance, Alive
<1>8. CriticalAccounted
  BY ServicesAssumption DEF CriticalAccounted, Init, Services
<1> QED BY <1>3, <1>4, <1>5, <1>6, <1>7, <1>8 DEF SupInv

LEMMA RegisterStep ==
    ASSUME SupInv, NEW p \in Pids, Register(p)
    PROVE  SupInv'
<1> USE DEF SupInv
<1>0. /\ RingOK' /\ UNCHANGED <<next_pid, services, unreported, pc>>
      /\ \A q \in Pids : Reported(q)' <=> Reported(q)
  BY DEF Register, queue_vars, init_vars, TypesOK, RingOK, Reported, Waiting, Queued, Fault
<1>1. /\ instance' \in [Pids -> [name : Names, state : States]]
      /\ Alive(p) /\ Alive(p)' /\ instance'[p].name = instance[p].name
      /\ instance'[p].state # "dead" /\ instance[p].state # "dead"
      /\ \A q \in Pids : q # p => instance'[q] = instance[q]
      /\ registry' = [registry EXCEPT ![instance[p].name] = p]
  BY DEF Register, TypesOK, States, Alive
<1>2. /\ \A q \in Pids : Alive(q)' <=> Alive(q)
      /\ \A q \in Pids : instance'[q].name = instance[q].name
      /\ instance[p].name \in Services /\ p \in Nat
  BY <1>1, ServicesAssumption DEF Alive, InstancesOK, TypesOK
<1>3. TypesOK'
  BY <1>0, <1>1, <1>2 DEF TypesOK
<1>4. InstancesOK'
  BY <1>0, <1>1, <1>2, ServicesAssumption DEF InstancesOK, Alive, TypesOK
<1>5. RegistryOK'
  BY <1>1, <1>2 DEF RegistryOK, TypesOK
<1>6. EntriesOK' /\ OneInstance'
  BY <1>0, <1>2 DEF EntriesOK, OneInstance
<1>7. FaultsOK'
  BY <1>0, <1>1 DEF FaultsOK
<1>8. CriticalAccounted'
  <2> SUFFICES ASSUME pc # "down", NEW s \in Critical, services[s].pid # NoPid
               PROVE  \/ Alive(services[s].pid)' \/ Reported(services[s].pid)'
                      \/ services[s].pid \in unreported
    BY <1>0 DEF CriticalAccounted, Alive, Reported
  <2>1. services[s].pid \in Pids
    BY ServicesAssumption DEF EntriesOK, Services
  <2> QED BY <1>0, <1>2, <2>1 DEF CriticalAccounted, Reported
<1> QED BY <1>3, <1>4, <1>5, <1>6, <1>7, <1>8

LEMMA TakeFaultStep ==
    ASSUME SupInv, NEW p \in Pids, TakeFault(p)
    PROVE  SupInv'
<1>1. /\ Alive(p) /\ Terminate(p) /\ SendToInit(Fault(p))
      /\ UNCHANGED <<next_pid, services, pc>>
      /\ unreported' = IF pc = "down" \/ accepted' = FALSE
                       THEN unreported \cup {p} ELSE unreported
  BY DEF TakeFault, init_vars
<1>2. CASE pc = "down"
  <2>1. RingOK' /\ \A q \in Pids : Reported(q)' <=> Reported(q)
    BY <1>1, <1>2 DEF SendToInit, queue_vars, SupInv, TypesOK, RingOK, Reported, Waiting,
                      Queued, Fault
  <2> QED BY <1>1, <1>2, <2>1, TerminateStep
<1>3. CASE pc # "down"
  <2>1. /\ RingOK' /\ accepted' \in BOOLEAN
        /\ \A q \in Pids : Reported(q)' <=>
              Reported(q) \/ (accepted' = TRUE /\ Fault(p) = Fault(q))
    BY <1>1, <1>3, QueueSend, MessageKinds DEF SendToInit, SupInv, TypesOK
  <2>2. \A q \in Pids : Fault(p) = Fault(q) => p = q
    BY MessageKinds
  <2>3. Reported(p)' \/ p \in unreported'
    BY <1>1, <2>1
  <2> QED BY <1>1, <2>1, <2>2, <2>3, TerminateStep
<1> QED BY <1>2, <1>3

LEMMA ExitStep ==
    ASSUME SupInv, NEW p \in Pids, Exit(p)
    PROVE  SupInv'
<1>1. /\ Alive(p) /\ Terminate(p) /\ UNCHANGED <<next_pid, services, pc>>
      /\ unreported' = unreported \cup {p}
  BY DEF Exit, init_vars
<1>2. RingOK' /\ \A q \in Pids : Reported(q)' <=> Reported(q)
  BY DEF Exit, queue_vars, SupInv, TypesOK, RingOK, Reported, Waiting, Queued, Fault
<1> QED BY <1>1, <1>2, TerminateStep

-----------------------------------------------------------------------------
(* The steps of init *)

LEMMA ResolveStep ==
    ASSUME SupInv, Resolve
    PROVE  SupInv'
<1> USE DEF SupInv
<1>0. /\ RingOK' /\ UNCHANGED <<next_pid, instance, registry, unreported>> /\ pc # "down"
      /\ \A q \in Pids : Reported(q)' <=> Reported(q)
  BY DEF Resolve, queue_vars, TypesOK, RingOK, Reported, Waiting, Queued, Fault
<1>1. /\ services' \in [Services -> [pid : Nat, restart_count : Nat]]
      /\ \A s \in Services : \/ services'[s] = services[s]
                             \/ /\ registry[s] # NoPid
                                /\ services'[s].pid = registry[s]
  BY DEF Resolve, TypesOK
<1>2. TypesOK' /\ InstancesOK' /\ RegistryOK' /\ OneInstance' /\ FaultsOK'
  BY <1>0, <1>1 DEF TypesOK, InstancesOK, RegistryOK, OneInstance, FaultsOK, Alive
<1>3. EntriesOK'
  <2> SUFFICES ASSUME NEW s \in Services, services'[s].pid = registry[s], registry[s] # NoPid
               PROVE  /\ registry[s] \in Pids /\ registry[s] < next_pid
                      /\ instance[registry[s]].name = s
                      /\ \A q \in Pids : Alive(q) /\ instance[q].name = s => q = registry[s]
    BY <1>0, <1>1 DEF EntriesOK, Alive
  <2>1. /\ registry[s] \in Pids /\ Alive(registry[s])
        /\ instance[registry[s]].name = s
    BY DEF RegistryOK
  <2>2. registry[s] < next_pid
    BY <2>1, ServicesAssumption DEF InstancesOK, Alive, TypesOK
  <2> QED BY <2>1, <2>2 DEF OneInstance
<1>4. CriticalAccounted'
  <2> SUFFICES ASSUME NEW s \in Critical, NEW p, p = services'[s].pid, p # NoPid
               PROVE  Alive(p) \/ Reported(p)' \/ p \in unreported
    BY <1>0 DEF CriticalAccounted, Alive, Reported
  <2>1. s \in Services
    BY ServicesAssumption DEF Services
  <2>2. CASE services'[s] = services[s]
    <3>1. p \in Pids
      BY <2>1, <2>2 DEF EntriesOK
    <3> QED BY <1>0, <2>2, <3>1 DEF CriticalAccounted, Reported
  <2>3. CASE registry[s] # NoPid /\ services'[s].pid = registry[s]
    BY <2>1, <2>3 DEF RegistryOK
  <2> QED BY <1>1, <2>1, <2>2, <2>3
<1> QED BY <1>2, <1>3, <1>4
\* A message that is not a fault is taken from the mailbox.
LEMMA QuietHandling ==
    ASSUME SupInv, NEW op, op # "fault", Handling(op),
           UNCHANGED <<next_pid, instance, registry, services, unreported>>
    PROVE  SupInv'
<1>1. /\ receive /\ count > 0 /\ messages[head].op # "fault" /\ pc # "down"
      /\ RingOK
  BY DEF Handling, SupInv, TypesOK
<1>2. \A p \in Pids : messages[head] # Fault(p)
  BY <1>1, MessageKinds
<1>3. RingOK' /\ \A p \in Pids : Reported(p)' <=> Reported(p)
  BY <1>1, <1>2, QueueReceive
<1> QED BY <1>1, <1>3, QuietStep

\* A receive that finds nothing.
LEMMA EmptyReceive ==
    ASSUME SupInv, receive, count = 0, pc # "down",
           UNCHANGED <<next_pid, instance, registry, services, unreported>>
    PROVE  SupInv'
<1>1. RingOK' /\ \A p \in Pids : Reported(p)' <=> Reported(p)
  BY QueueReceive DEF SupInv, TypesOK
<1> QED BY <1>1, QuietStep

\* What init knows when it takes the fault of f from its mailbox: f is dead,
\* at most one entry watches it, and no instance of that entry is alive.
LEMMA FaultTaken ==
    ASSUME SupInv, Handling("fault")
    PROVE  /\ RingOK' /\ pc # "down" /\ messages[head].pid \in Pids
           /\ \A p \in Pids : Reported(p)' => Reported(p)
           /\ \A p \in Pids : p # messages[head].pid => (Reported(p) => Reported(p)')
           /\ \A s \in Watched(messages[head].pid) :
                /\ s \in Services /\ services[s].pid = messages[head].pid
                /\ \A t \in Services : services[t].pid = messages[head].pid => t = s
                /\ \A q \in Pids : Alive(q) => instance[q].name # s
<1> DEFINE f == messages[head].pid
<1>1. /\ receive /\ count > 0 /\ messages[head].op = "fault" /\ pc # "down" /\ RingOK
  BY DEF Handling, SupInv, TypesOK
<1>2. messages[head] \in Message
  BY <1>1, QueueReceive
<1>3. f \in Pids /\ messages[head] = Fault(f)
  BY <1>1, <1>2, MessageKinds
<1>4. \A p \in Pids : p # f => messages[head] # Fault(p)
  BY <1>3, MessageKinds
<1>5. /\ RingOK' /\ \A p \in Pids : Reported(p)' => Reported(p)
      /\ \A p \in Pids : p # f => (Reported(p) => Reported(p)')
      /\ Reported(f)
  BY <1>1, <1>3, <1>4, QueueReceive
<1>6. instance[f].state = "dead" /\ f # NoPid
  BY <1>3, <1>5, ServicesAssumption DEF SupInv, FaultsOK, NoPid
<1>7. ASSUME NEW s \in Watched(f)
      PROVE  /\ s \in Services /\ services[s].pid = f
             /\ \A t \in Services : services[t].pid = f => t = s
             /\ \A q \in Pids : Alive(q) => instance[q].name # s
  <2>1. s \in Services /\ services[s].pid = f
    BY DEF Watched
  <2>2. \A t \in Services : services[t].pid = f => instance[f].name = t
    BY <1>6 DEF SupInv, EntriesOK
  <2>3. \A q \in Pids : Alive(q) /\ instance[q].name = s => q = f
    BY <1>6, <2>1 DEF SupInv, EntriesOK
  <2>4. ~Alive(f)
    BY <1>6 DEF Alive
  <2> QED BY <2>1, <2>2, <2>3, <2>4
<1> QED BY <1>1, <1>3, <1>5, <1>7

\* The fault of a process without a critical entry, or the entry's loss of
\* its PID, leaves every other critical service accounted for.
LEMMA EntryStep ==
    ASSUME SupInv, Handling("fault"),
           UNCHANGED <<next_pid, instance, registry, unreported>>,
           services' \in [Services -> [pid : Nat, restart_count : Nat]],
           \A s \in Services : services'[s].pid \in {services[s].pid, NoPid},
           \A s \in Watched(messages[head].pid) : s \in Critical => pc' = "down"
    PROVE  SupInv'
<1> USE DEF SupInv
<1> DEFINE f == messages[head].pid
<1>0. /\ RingOK' /\ pc # "down" /\ f \in Pids
      /\ \A p \in Pids : Reported(p)' => Reported(p)
      /\ \A p \in Pids : p # f => (Reported(p) => Reported(p)')
  BY FaultTaken
<1>1. TypesOK' /\ InstancesOK' /\ RegistryOK' /\ OneInstance' /\ FaultsOK'
  BY <1>0 DEF TypesOK, InstancesOK, RegistryOK, OneInstance, FaultsOK, Alive
<1>2. EntriesOK'
  BY DEF EntriesOK, Alive
<1>3. CriticalAccounted'
  <2> SUFFICES ASSUME pc' # "down", NEW s \in Critical, NEW p, p = services'[s].pid,
                      p # NoPid
               PROVE  Alive(p) \/ Reported(p)' \/ p \in unreported
    BY DEF CriticalAccounted, Alive, Reported
  <2>1. s \in Services /\ services[s].pid = p
    BY ServicesAssumption DEF Services
  <2>2. p \in Pids /\ p # f
    BY <2>1 DEF EntriesOK, Watched
  <2>3. Alive(p) \/ Reported(p) \/ p \in unreported
    BY <1>0, <2>1 DEF CriticalAccounted, Reported
  <2> QED BY <1>0, <2>2, <2>3
<1> QED BY <1>1, <1>2, <1>3

LEMMA StrangerStep ==
    ASSUME SupInv, HandleStranger
    PROVE  SupInv'
BY EntryStep DEF HandleStranger, SupInv, TypesOK

LEMMA RestartFailsStep ==
    ASSUME SupInv, HandleRestartFails
    PROVE  SupInv'
<1>1. Handling("fault") /\ UNCHANGED <<next_pid, instance, registry, unreported>>
  BY DEF HandleRestartFails
<1>2. PICK s \in Watched(messages[head].pid) :
          services' = Counted(s, services[s].pid) /\ GiveUp(s)
  BY DEF HandleRestartFails
<1>3. /\ s \in Services
      /\ \A t \in Watched(messages[head].pid) : t = s
  BY <1>1, FaultTaken DEF Watched
<1>4. /\ services' \in [Services -> [pid : Nat, restart_count : Nat]]
      /\ \A t \in Services : services'[t].pid \in {services[t].pid, NoPid}
  BY <1>2, <1>3 DEF Counted, SupInv, TypesOK
<1>5. \A t \in Watched(messages[head].pid) : t \in Critical => pc' = "down"
  BY <1>2, <1>3 DEF GiveUp
<1> QED BY <1>1, <1>4, <1>5, EntryStep

LEMMA ExhaustedStep ==
    ASSUME SupInv, HandleExhausted
    PROVE  SupInv'
<1>1. Handling("fault") /\ UNCHANGED <<next_pid, instance, registry, unreported>>
  BY DEF HandleExhausted
<1>2. PICK s \in Watched(messages[head].pid) :
          services' = [services EXCEPT ![s].pid = NoPid] /\ GiveUp(s)
  BY DEF HandleExhausted
<1>3. /\ s \in Services
      /\ \A t \in Watched(messages[head].pid) : t = s
  BY <1>1, FaultTaken DEF Watched
<1>4. /\ services' \in [Services -> [pid : Nat, restart_count : Nat]]
      /\ \A t \in Services : services'[t].pid \in {services[t].pid, NoPid}
  BY <1>2, <1>3 DEF SupInv, TypesOK, NoPid
<1>5. \A t \in Watched(messages[head].pid) : t \in Critical => pc' = "down"
  BY <1>2, <1>3 DEF GiveUp
<1> QED BY <1>1, <1>4, <1>5, EntryStep
\* The restarted service gets a PID that was never used.
LEMMA RestartStep ==
    ASSUME SupInv, HandleRestart
    PROVE  SupInv'
<1> USE DEF SupInv
<1> DEFINE f == messages[head].pid
<1> PICK n : n = next_pid
  OBVIOUS
<1>1. Handling("fault") /\ UNCHANGED <<registry, unreported>>
  BY DEF HandleRestart
<1>2. PICK s \in Watched(f) :
          /\ n \in Pids /\ next_pid' = n + 1
          /\ instance' = [instance EXCEPT ![n] = [name |-> s, state |-> "started"]]
          /\ services' = Counted(s, n)
  BY DEF HandleRestart
<1>3. /\ RingOK' /\ pc # "down" /\ f \in Pids
      /\ \A p \in Pids : Reported(p)' => Reported(p)
      /\ \A p \in Pids : p # f => (Reported(p) => Reported(p)')
      /\ s \in Services /\ services[s].pid = f
      /\ \A t \in Services : services[t].pid = f => t = s
      /\ \A q \in Pids : Alive(q) => instance[q].name # s
  BY <1>1, FaultTaken
<1>4. n \in Nat /\ n # NoPid /\ instance[n].state = "unused" /\ ~Alive(n)
  BY <1>2, ServicesAssumption DEF TypesOK, InstancesOK, Alive, NoPid
<1>5. /\ instance' \in [Pids -> [name : Names, state : States]]
      /\ instance'[n].name = s /\ instance'[n].state = "started" /\ Alive(n)'
      /\ \A q \in Pids : q # n => instance'[q] = instance[q] /\ (Alive(q)' <=> Alive(q))
  BY <1>2, <1>3 DEF TypesOK, States, Names, Alive
<1>6. /\ services' \in [Services -> [pid : Nat, restart_count : Nat]]
      /\ services'[s].pid = n
      /\ \A t \in Services : t # s => services'[t] = services[t]
  BY <1>2, <1>3, <1>4 DEF TypesOK, Counted
<1>7. TypesOK'
  BY <1>1, <1>2, <1>3, <1>4, <1>5, <1>6 DEF TypesOK
<1>8. InstancesOK'
  <2> SUFFICES ASSUME NEW p \in Pids
               PROVE  /\ p >= n + 1 => instance'[p].state = "unused"
                      /\ Alive(p)' => instance'[p].name \in Services
    BY <1>2 DEF InstancesOK
  <2>1. CASE p = n
    BY <1>3, <1>4, <1>5, <2>1
  <2>2. CASE p # n
    BY <1>4, <1>5, <2>2, ServicesAssumption DEF InstancesOK
  <2> QED BY <2>1, <2>2
<1>9. RegistryOK'
  BY <1>1, <1>4, <1>5 DEF RegistryOK
<1>10. EntriesOK'
  <2> SUFFICES ASSUME NEW t \in Services, services'[t].pid # NoPid
               PROVE  /\ services'[t].pid \in Pids /\ services'[t].pid < n + 1
                      /\ instance'[services'[t].pid].name = t
                      /\ \A q \in Pids : Alive(q)' /\ instance'[q].name = t
                                            => q = services'[t].pid
    BY <1>2 DEF EntriesOK
  <2>1. CASE t = s
    <3>1. services'[t].pid = n /\ instance'[n].name = t
      BY <1>5, <1>6, <2>1
    <3>2. n \in Pids /\ n < n + 1
      BY <1>2, <1>4
    <3>3. ASSUME NEW q \in Pids, Alive(q)', instance'[q].name = t, q # n
          PROVE  FALSE
      <4>1. Alive(q) /\ instance[q].name = s
        BY <1>5, <2>1, <3>3
      <4> QED BY <1>3, <4>1
    <3> QED BY <3>1, <3>2, <3>3
  <2>2. CASE t # s
    <3>1. /\ services'[t].pid = services[t].pid /\ services[t].pid \in Pids
          /\ services[t].pid < n /\ instance[services[t].pid].name = t
          /\ \A q \in Pids : Alive(q) /\ instance[q].name = t => q = services[t].pid
      BY <1>6, <2>2 DEF EntriesOK
    <3>2. services[t].pid # n /\ services[t].pid < n + 1
      <4>1. services[t].pid \in Nat
        BY DEF TypesOK
      <4> QED BY <1>4, <3>1, <4>1
    <3> QED BY <1>5, <2>2, <3>1, <3>2
  <2> QED BY <2>1, <2>2
<1>11. OneInstance'
  <2> SUFFICES ASSUME NEW p \in Pids, NEW q \in Pids, Alive(p)', Alive(q)',
                      instance'[p].name = instance'[q].name, p # q
               PROVE  FALSE
    BY Zenon DEF OneInstance
  <2>1. CASE p # n /\ q # n
    <3>1. Alive(p) /\ Alive(q) /\ instance[p].name = instance[q].name
      BY <1>5, <2>1
    <3> QED BY <3>1 DEF OneInstance
  <2>2. CASE p = n
    <3>1. Alive(q) /\ instance[q].name = s
      BY <1>5, <2>2
    <3> QED BY <1>3, <3>1
  <2>3. CASE q = n
    <3>1. Alive(p) /\ instance[p].name = s
      BY <1>5, <2>3
    <3> QED BY <1>3, <3>1
  <2> QED BY <2>1, <2>2, <2>3
<1>12. FaultsOK'
  BY <1>3, <1>4, <1>5 DEF FaultsOK
<1>13. CriticalAccounted'
  <2> SUFFICES ASSUME NEW t \in Critical, NEW p, p = services'[t].pid, p # NoPid
               PROVE  Alive(p)' \/ Reported(p)' \/ p \in unreported
    BY <1>1 DEF CriticalAccounted, Reported, Alive
  <2>1. t \in Services
    BY ServicesAssumption DEF Services
  <2>2. CASE t = s
    BY <1>5, <1>6, <2>2
  <2>3. CASE t # s
    <3>1. services[t].pid = p /\ p \in Pids /\ p # f
      BY <1>3, <1>6, <2>1, <2>3 DEF EntriesOK
    <3>2. Alive(p) \/ Reported(p) \/ p \in unreported
      BY <1>3, <3>1 DEF CriticalAccounted, Reported
    <3>3. Alive(p) => Alive(p)'
      BY <1>4, <1>5, <3>1
    <3> QED BY <1>3, <3>1, <3>2, <3>3
  <2> QED BY <2>2, <2>3
<1> QED BY <1>7, <1>8, <1>9, <1>10, <1>11, <1>12, <1>13

-----------------------------------------------------------------------------
(* The theorems *)

\* A step that touches neither the mailbox nor what the invariant speaks of.
LEMMA SilentStep ==
    ASSUME SupInv, UNCHANGED <<queue_vars, next_pid, instance, registry, services, unreported>>,
           pc' # "down" => pc # "down"
    PROVE  SupInv'
<1>1. RingOK' /\ \A p \in Pids : Reported(p)' <=> Reported(p)
  BY DEF queue_vars, SupInv, TypesOK, RingOK, Reported, Waiting, Queued, Fault
<1> QED BY <1>1, QuietStep

LEMMA InitStepKeeps == SupInv /\ InitStep => SupInv'
<1> SUFFICES ASSUME SupInv, InitStep PROVE SupInv'
  OBVIOUS
<1>1. CASE DrainEnds \/ WaitEnds
  BY <1>1, EmptyReceive DEF DrainEnds, WaitEnds
<1>2. CASE Wake \/ Watchdog
  BY <1>2, SilentStep DEF Wake, Watchdog
<1>3. CASE HandleBeat
  BY <1>3, QuietHandling DEF HandleBeat
<1>4. CASE HandleLogRead
  BY <1>4, QuietHandling DEF HandleLogRead
<1>5. CASE HandleShutdown
  BY <1>5, QuietHandling DEF HandleShutdown
<1> QED BY <1>1, <1>2, <1>3, <1>4, <1>5, ResolveStep, StrangerStep, RestartStep,
           RestartFailsStep, ExhaustedStep DEF InitStep

LEMMA ProcessStepKeeps == SupInv /\ ProcessStep => SupInv'
<1> SUFFICES ASSUME SupInv, ProcessStep PROVE SupInv'
  OBVIOUS
<1>1. ASSUME NEW p \in Pids, SendBeat(p) PROVE SupInv'
  BY <1>1, QuietSend, MessageKinds DEF SendBeat, init_vars
<1>2. ASSUME NEW n \in LogSeqs, SendLogRead(n) PROVE SupInv'
  BY <1>2, QuietSend, MessageKinds DEF SendLogRead, init_vars
<1>3. CASE SendShutdown
  BY <1>3, QuietSend, MessageKinds DEF SendShutdown, init_vars
<1>4. ASSUME NEW s \in Services, BeatOverdue(s) PROVE SupInv'
  BY <1>4, SilentStep DEF BeatOverdue
<1> QED BY <1>1, <1>2, <1>3, <1>4, RegisterStep, TakeFaultStep, ExitStep DEF ProcessStep

\* SupInv is inductive.
LEMMA SupervisorInductive == Spec => []SupInv
<1>1. SupInv /\ [Next]_vars => SupInv'
  <2>1. SupInv /\ UNCHANGED vars => SupInv'
    BY SilentStep DEF vars, init_vars
  <2> QED BY <2>1, InitStepKeeps, ProcessStepKeeps DEF Next
<1> QED BY <1>1, SupInit, PTL DEF Spec

\* No service ever runs in two processes at once, however faults, exits,
\* restarts and lost notifications interleave
\* (handle_msg, servers/init/src/main.rs:246-275).
THEOREM NoDoubleStart == Spec => []OneInstance
BY SupervisorInductive, PTL DEF SupInv

\* A critical service that init watches and that is not alive has its fault in
\* the mailbox, or the kernel could not or did not tell init, unless init has
\* shut down (servers/init/src/main.rs:35, 246-297).
THEOREM CrashesAccounted == Spec => []CriticalAccounted
BY SupervisorInductive, PTL DEF SupInv

=============================================================================
