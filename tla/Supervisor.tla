----------------------------- MODULE Supervisor -----------------------------
(***************************************************************************)
(* The init process (servers/init/src/main.rs) supervising the services:   *)
(* the kernel tells it of faults through its mailbox, it restarts what it  *)
(* watches within a budget, and it gives up in an orderly way.  Its        *)
(* mailbox is the ring of MessageQueue.                                    *)
(*                                                                         *)
(* A step of init is a pass of its loop up to the next receive; the        *)
(* services, the clients and the kernel's fault path run in between.       *)
(***************************************************************************)
EXTENDS MessageQueue, FiniteSets, FiniteSetsExt, Functions

CONSTANTS BootOrder,    \* the names init watches, in the order of their PIDs
          Critical,     \* those it cannot do without
          MAX_RESTARTS,
          LOG_ENTRIES,
          Warmup,       \* passes before heartbeats are checked (30)
          Pids,         \* bound: PIDs that can be given out
          MaxBeats,     \* bound: heartbeats sent
          LogSeqs,      \* the entries clients ask for
          MaxReads,     \* bound: requests by clients
          MaxLog        \* bound: log length beyond which nobody misses a beat

ASSUME ServicesAssumption ==
    /\ BootOrder \in Seq(STRING) /\ Critical \subseteq Range(BootOrder)
    /\ \A i, j \in DOMAIN BootOrder : BootOrder[i] = BootOrder[j] => i = j
    /\ MAX_RESTARTS \in Nat /\ LOG_ENTRIES \in Nat \ {0} /\ Warmup \in Nat
    /\ Pids = 1 .. Cardinality(Pids) /\ Pids \subseteq Nat \ {0}

Services == Range(BootOrder)

VARIABLES
    instance,   \* kernel: PID -> the service it runs, its state
    next_pid,   \* kernel: PIDs are given out in order
    registry,   \* kernel: service registry
    services,   \* init: ServiceEntry of each name
    last_beat,  \* init: last heartbeat of each name
    log,        \* init: LogBuf
    pc,         \* init: where its loop is
    warmup,     \* init: warmup_ticks
    reader,     \* the client reading the boot log
    beats, reads,   \* how many heartbeats and log requests were sent
    unreported  \* history: PIDs that died without a message to init

init_vars   == <<services, last_beat, log, pc, warmup>>
client_vars == <<reader, beats, reads>>
vars == <<queue_vars, instance, next_pid, registry, init_vars, client_vars, unreported>>

NoPid == 0          \* u64::MAX in the code
Never == "never"    \* no heartbeat yet

-----------------------------------------------------------------------------
(* LogBuf: text and timestamps are left out, the sequence numbers kept *)

EmptyLog == [entries |-> [i \in 0 .. LOG_ENTRIES - 1 |-> -1],
             write |-> 0, count |-> 0, next_seq |-> 0]

AppendUncounted(l) ==  \* mutant: the ring is taken to be full from the start
    [entries |-> [l.entries EXCEPT ![l.write] = l.next_seq],
     write |-> (l.write + 1) % LOG_ENTRIES, count |-> l.count,
     next_seq |-> l.next_seq + 1]
append(l) ==
    [entries |-> [l.entries EXCEPT ![l.write] = l.next_seq],
     write |-> (l.write + 1) % LOG_ENTRIES,
     count |-> IF l.count < LOG_ENTRIES THEN l.count + 1 ELSE l.count,
     next_seq |-> l.next_seq + 1]

\* get scans the count entries from the oldest.
get(l, seq) ==
    LET oldest == IF l.count < LOG_ENTRIES THEN 0 ELSE l.write
    IN  \E i \in 0 .. l.count - 1 :
            l.entries[(oldest + i) % LOG_ENTRIES] = seq

-----------------------------------------------------------------------------

Fault(p)    == [op |-> "fault", pid |-> p]
Beat(p)     == [op |-> "beat", pid |-> p]
LogRead(n)  == [op |-> "log_read", seq |-> n]
Shutdown    == [op |-> "shutdown"]
Messages    == {Fault(p) : p \in Pids} \cup {Beat(p) : p \in Pids}
               \cup {LogRead(n) : n \in LogSeqs} \cup {Shutdown}

ASSUME MessageAssumption == Message = Messages

Unused  == [name |-> "none", state |-> "unused"]
Alive(p) == instance[p].state \in {"started", "registered"}
Waiting(m) == \E i \in DOMAIN Queued : Queued[i] = m

\* After boot every service has one instance.
Init ==
    /\ QueueInit
    /\ instance = [p \in Pids |->
           IF p <= Len(BootOrder) THEN [name |-> BootOrder[p], state |-> "started"]
           ELSE Unused]
    /\ next_pid = Len(BootOrder) + 1
    /\ registry = [s \in Services |-> NoPid]
    /\ services = [s \in Services |-> [pid |-> NoPid, restart_count |-> 0]]
    /\ last_beat = [s \in Services |-> Never]
    /\ log = append(EmptyLog)
    /\ pc = "resolve" /\ warmup = Warmup
    /\ reader = [state |-> "idle"] /\ beats = 0 /\ reads = 0
    /\ unreported = {}

-----------------------------------------------------------------------------
(* The services and the kernel *)

\* send_message to init: a full mailbox or a dead init loses the message.
SendToInit(m) == IF pc = "down" THEN UNCHANGED queue_vars ELSE send(m)

\* SYS_REGISTER, the first call of every service.
Register(p) ==
    /\ instance[p].state = "started"
    /\ instance' = [instance EXCEPT ![p].state = "registered"]
    /\ registry' = [registry EXCEPT ![instance[p].name] = p]
    /\ UNCHANGED <<next_pid, queue_vars, init_vars, client_vars, unreported>>

StaysAlive(p) == UNCHANGED <<instance, registry>>  \* mutant
\* terminate_process: the registry forgets the PID.
Terminate(p) ==
    /\ instance' = [instance EXCEPT ![p].state = "dead"]
    /\ registry' = [s \in Services |->
                       IF registry[s] = p THEN NoPid ELSE registry[s]]

\* terminate_faulting_process: the message is sent first and may be lost.
TakeFault(p) ==
    /\ Alive(p)
    /\ SendToInit(Fault(p))
    /\ Terminate(p)
    /\ unreported' = IF pc = "down" \/ accepted' = FALSE
                     THEN unreported \cup {p} ELSE unreported
    /\ UNCHANGED <<next_pid, init_vars, client_vars>>

\* A panicking service calls SYS_EXIT; nobody is told.
Exit(p) ==
    /\ Alive(p)
    /\ Terminate(p)
    /\ unreported' = unreported \cup {p}
    /\ UNCHANGED <<next_pid, queue_vars, init_vars, client_vars>>

SendBeat(p) ==
    /\ instance[p].state = "registered"
    /\ beats < MaxBeats
    /\ beats' = beats + 1
    /\ SendToInit(Beat(p))
    /\ UNCHANGED <<next_pid, instance, registry, init_vars, reader, reads, unreported>>

\* A diagnostic client calls init (SYS_CALL) for entry n of the log.
SendLogRead(n) ==
    /\ reader.state # "waiting"
    /\ reads < MaxReads
    /\ reads' = reads + 1
    /\ SendToInit(LogRead(n))
    /\ reader' = [state |-> IF pc # "down" /\ accepted' = TRUE
                             THEN "waiting" ELSE "idle"]
    /\ UNCHANGED <<next_pid, instance, registry, init_vars, beats, unreported>>

SendShutdown ==
    /\ reads < MaxReads
    /\ reads' = reads + 1
    /\ SendToInit(Shutdown)
    /\ UNCHANGED <<next_pid, instance, registry, init_vars, reader, beats, unreported>>

\* Five seconds pass since the last heartbeat of s.
BeatOverdue(s) ==
    /\ last_beat[s] = "recent"
    /\ log.next_seq < MaxLog
    /\ last_beat' = [last_beat EXCEPT ![s] = "overdue"]
    /\ UNCHANGED <<next_pid, queue_vars, instance, registry, services, log, pc, warmup,
                   client_vars, unreported>>

-----------------------------------------------------------------------------
(* init *)

\* Look up the services not resolved yet.
Resolve ==
    /\ pc = "resolve"
    /\ LET found == {s \in Services : /\ services[s].pid = NoPid
                                      /\ registry[s] # NoPid}
       IN  /\ services' = [s \in Services |->
                  IF s \in found THEN [services[s] EXCEPT !.pid = registry[s]]
                  ELSE services[s]]
           /\ log' = FoldSet(LAMBDA s, l : append(l), log, found)
    /\ pc' = "drain"
    /\ UNCHANGED <<next_pid, queue_vars, instance, registry, last_beat, warmup,
                   client_vars, unreported>>

\* recv_msg(0) finds nothing.
DrainEnds ==
    /\ pc = "drain" /\ count = 0
    /\ receive
    /\ pc' = "wait"
    /\ UNCHANGED <<next_pid, instance, registry, services, last_beat, log, warmup,
                   client_vars, unreported>>

\* recv_msg(50) finds nothing and blocks; a message or the deadline ends the
\* call, and in both cases it returns without one.
WaitEnds ==
    /\ pc = "wait" /\ count = 0
    /\ pc' = "blocked"
    /\ receive
    /\ UNCHANGED <<next_pid, instance, registry, services, last_beat, log, warmup,
                   client_vars, unreported>>

Wake ==
    /\ pc = "blocked"
    /\ pc' = "watchdog"
    /\ UNCHANGED <<next_pid, queue_vars, instance, registry, services, last_beat, log,
                   warmup, client_vars, unreported>>

HandlingAfterWait(op) ==  \* mutant: the drain loop handles nothing
    pc = "wait" /\ count > 0 /\ messages[head].op = op /\ receive
\* A receive that returns a message: in the drain loop, or at once in the wait.
Handling(op) ==
    /\ pc \in {"drain", "wait"}
    /\ count > 0
    /\ messages[head].op = op
    /\ receive

Continue == pc' = IF pc = "drain" THEN "drain" ELSE "watchdog"

\* The entry of the faulting PID, if it is watched.
Watched(p) == {s \in Services : services[s].pid = p}

\* A fault of a process that is not watched is only logged.
HandleStranger ==
    /\ Handling("fault")
    /\ Watched(messages[head].pid) = {}
    /\ log' = append(log)
    /\ Continue
    /\ UNCHANGED <<next_pid, instance, registry, services, last_beat, warmup,
                   client_vars, unreported>>

MayRestartAgain(s) == services[s].restart_count <= MAX_RESTARTS  \* mutant
MayRestart(s)      == services[s].restart_count < MAX_RESTARTS

\* The restart_count is raised before the attempt.
Counted(s, pid) ==
    [services EXCEPT ![s] = [pid |-> pid, restart_count |-> @.restart_count + 1]]

\* SYS_RESTART_SERVER spawns a new instance.
HandleRestart ==
    /\ Handling("fault")
    /\ \E s \in Watched(messages[head].pid) :
        /\ MayRestart(s)
        /\ next_pid \in Pids
        /\ instance' = [instance EXCEPT ![next_pid] =
                           [name |-> s, state |-> "started"]]
        /\ next_pid' = next_pid + 1
        /\ services' = Counted(s, next_pid)
    /\ log' = append(append(log))
    /\ Continue
    /\ UNCHANGED <<registry, last_beat, warmup, client_vars, unreported>>

\* SYS_RESTART_SERVER fails (no memory or no free slot): a critical service
\* takes init down, another keeps its dead PID.
IgnoresFailure(s) == Continue  \* mutant
GiveUp(s) == IF s \in Critical THEN pc' = "down" ELSE Continue

HandleRestartFails ==
    /\ Handling("fault")
    /\ \E s \in Watched(messages[head].pid) :
        /\ MayRestart(s)
        /\ services' = Counted(s, services[s].pid)
        /\ GiveUp(s)
    /\ log' = append(append(log))
    /\ UNCHANGED <<next_pid, instance, registry, last_beat, warmup, client_vars,
                   unreported>>

\* The budget is used up: the entry is cleared.
HandleExhausted ==
    /\ Handling("fault")
    /\ \E s \in Watched(messages[head].pid) :
        /\ ~MayRestart(s)
        /\ services' = [services EXCEPT ![s].pid = NoPid]
        /\ GiveUp(s)
    /\ log' = append(append(log))
    /\ UNCHANGED <<next_pid, instance, registry, last_beat, warmup, client_vars,
                   unreported>>

HandleBeat ==
    /\ Handling("beat")
    /\ last_beat' = [s \in Services |->
                        IF services[s].pid = messages[head].pid
                        THEN "recent" ELSE last_beat[s]]
    /\ Continue
    /\ UNCHANGED <<next_pid, instance, registry, services, log, warmup, client_vars,
                   unreported>>

\* The reply carries next_seq and, if it is still there, the entry.
HandleLogRead ==
    /\ Handling("log_read")
    /\ reader' = [state |-> "answered", seq |-> messages[head].seq, next_seq |-> log.next_seq,
                  found |-> get(log, messages[head].seq)]
    /\ Continue
    /\ UNCHANGED <<next_pid, instance, registry, services, last_beat, log, warmup,
                   beats, reads, unreported>>

\* OP_SHUTDOWN: ordered_shutdown exits.
HandleShutdown ==
    /\ Handling("shutdown")
    /\ pc' = "down"
    /\ UNCHANGED <<next_pid, instance, registry, services, last_beat, log, warmup,
                   client_vars, unreported>>

\* The heartbeat watchdog warns once per period of silence.
Watchdog ==
    /\ pc = "watchdog"
    /\ pc' = "resolve"
    /\ IF warmup > 0
       THEN warmup' = warmup - 1 /\ UNCHANGED <<last_beat, log>>
       ELSE LET missed == {s \in Services : /\ services[s].pid # NoPid
                                            /\ last_beat[s] = "overdue"}
            IN  /\ last_beat' = [s \in Services |->
                       IF s \in missed THEN "recent" ELSE last_beat[s]]
                /\ log' = FoldSet(LAMBDA s, l : append(l), log, missed)
                /\ UNCHANGED warmup
    /\ UNCHANGED <<next_pid, queue_vars, instance, registry, services, client_vars,
                   unreported>>

InitStep ==
    \/ Resolve \/ DrainEnds \/ WaitEnds \/ Wake \/ Watchdog
    \/ HandleStranger \/ HandleRestart \/ HandleRestartFails
    \/ HandleExhausted \/ HandleBeat \/ HandleLogRead \/ HandleShutdown

-----------------------------------------------------------------------------

ProcessStep ==
    \/ \E p \in Pids : Register(p) \/ TakeFault(p) \/ Exit(p) \/ SendBeat(p)
    \/ \E n \in LogSeqs : SendLogRead(n)
    \/ SendShutdown
    \/ \E s \in Services : BeatOverdue(s)

Next == InitStep \/ ProcessStep

\* init has the highest priority of all processes and a deadline on every
\* wait, so it always goes on.
Spec == Init /\ [][Next]_vars /\ WF_vars(InitStep)

-----------------------------------------------------------------------------
(* Properties *)

TypeOK ==
    /\ instance \in [Pids -> [name : Services \cup {"none"},
                              state : {"unused", "started", "registered", "dead"}]]
    /\ registry \in [Services -> Pids \cup {NoPid}]
    /\ services \in [Services -> [pid : Pids \cup {NoPid},
                                  restart_count : 0 .. MAX_RESTARTS]]
    /\ last_beat \in [Services -> {Never, "recent", "overdue"}]
    /\ pc \in {"resolve", "drain", "wait", "blocked", "watchdog", "down"}
    /\ warmup \in 0 .. Warmup
    /\ unreported \subseteq Pids
    /\ log.write \in 0 .. LOG_ENTRIES - 1 /\ log.count \in 0 .. LOG_ENTRIES

\* A service never runs twice at the same time, however faults, exits and
\* restarts interleave (handle_msg, servers/init/src/main.rs:246-275).
OneInstance ==
    \A p, q \in Pids :
        Alive(p) /\ Alive(q) /\ instance[p].name = instance[q].name => p = q

\* While init runs, a critical service it watches is alive, or its fault is
\* still in the mailbox, or it died without a message to init
\* ("Critical services: crash -> restart; if restart fails -> halt",
\* servers/init/src/main.rs:35).
CriticalAccounted ==
    pc # "down" =>
        \A s \in Critical : LET p == services[s].pid IN
            p # NoPid => Alive(p) \/ Waiting(Fault(p)) \/ p \in unreported

\* The reply to a log request has the entry exactly when "seq in
\* [next_seq-16, next_seq)" (servers/init/src/main.rs:55).
LogWindow ==
    reader.state = "answered" =>
        (reader.found <=> /\ reader.seq < reader.next_seq
                          /\ reader.seq >= reader.next_seq - LOG_ENTRIES)

\* Every crash of a watched service that reached the mailbox is answered:
\* the entry names a running instance again, or init shuts down; only a
\* service that is not critical may stay down
\* (servers/init/src/main.rs:31-36).
Running(s) == services[s].pid # NoPid /\ Alive(services[s].pid)
Crashed(s) == services[s].pid # NoPid /\ Waiting(Fault(services[s].pid))
CrashAnswered ==
    \A s \in Services :
        Crashed(s) ~> \/ pc = "down" \/ Running(s)
                      \/ s \notin Critical /\ ~Crashed(s)

\* While init runs, a critical service that crashed is being restarted: "On a
\* crash of a named server, init calls SYS_RESTART_SERVER"
\* (servers/init/src/main.rs:31).
CriticalCrashSeen ==
    pc # "down" =>
        \A s \in Critical : \E p \in Pids :
            /\ instance[p].name = s
            /\ Alive(p) \/ Waiting(Fault(p)) \/ p \in unreported

=============================================================================
