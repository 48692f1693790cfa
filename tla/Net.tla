-------------------------------- MODULE Net --------------------------------
(***************************************************************************)
(* The network server (servers/net/src): its main loop, the two state      *)
(* machines that answer a ping or a TCP connect later, the single TCP      *)
(* connection, the ARP table and the virtio-net rings.  Of UDP only the    *)
(* transmission is modelled.                                               *)
(*                                                                         *)
(* The network is a fault model.  `sent` holds the frames on the wire that *)
(* a host may answer, and stays as it is: an answer can therefore be lost, *)
(* late, repeated or out of order.  A frame enters `sent` when it is given *)
(* to the device; if the device is slow, the single TX_BUF may hold a      *)
(* later frame by then, which amounts to a loss and a repetition.          *)
(* Deadlines are kept as the time left.                                    *)
(***************************************************************************)
EXTENDS Integers, Sequences, FiniteSets, Functions

CONSTANTS Clients,        \* processes that use the server
          Requests,       \* what they ask for: messages [op, sender, ip]
          Noise,          \* frames that hosts send unasked
          Hosts,          \* the IP addresses of the other hosts
          Resolved,       \* ARP_TABLE as earlier traffic left it
          ARP_SIZE,       \* entries of ARP_TABLE (8 in the code)
          TxMax,          \* QUEUE_SIZE / 2
          RxBufs,         \* RX_BUF_COUNT
          RxBytes,        \* size of rx_buf, in payloads
          MboxCap,        \* QUEUE_CAPACITY of the server's mailbox
          PingTime, ConnectTime, \* the two deadlines
          SeqMod,         \* width of the ICMP sequence number (2^16)
          MaxAsks,        \* bound: requests in one behaviour
          MaxArrivals     \* bound: frames received in one behaviour

ASSUME NetAssumption ==
    /\ "none" \notin Hosts
    /\ {ARP_SIZE, TxMax, RxBufs, MboxCap, PingTime, ConnectTime} \subseteq Nat \ {0}
    /\ RxBytes \in Nat /\ MaxArrivals \in Nat
    /\ MaxAsks \in Nat /\ SeqMod \in Nat /\ MaxAsks < SeqMod

VARIABLES
    mbox,        \* kernel: the server's mailbox
    pc,          \* "recv" (blocked or about to be), "drain" (poll_rx), "check"
    nic,         \* virtio::init found the device
    irq_ok,      \* irq_register succeeded
    PENDING,     \* the ping machine: [state, sender, ip, left]
    PENDING_ICMP_SEQ,
    TCP_SM,      \* the connect machine: [state, sender, ip, left]
    TCP_CONN,    \* [state, ip, rx_len, ack]; ack counts the payloads
    ARP_TABLE,   \* the addresses in its slots
    tx,          \* [n, sent]: frames in flight, frames a host may answer
    rx,          \* the used ring of received frames
    isr,         \* the device asserts its interrupt
    owed,        \* requests of each client that have no answer yet
    missed,      \* history: a notification was dropped
    asks, arrivals

machines == <<PENDING, PENDING_ICMP_SEQ, TCP_SM, TCP_CONN>>
config == <<nic, irq_ok>>
vars == <<mbox, pc, config, machines, ARP_TABLE, tx, rx, isr,
          owed, missed, asks, arrivals>>

Frame(k, ip, n) == [kind |-> k, ip |-> ip, n |-> n]
NoConn == [state |-> "Closed", ip |-> "none", rx_len |-> 0, ack |-> 0]

\* The fields of an idle machine are never read: they are cleared with it.
IdleSM == [state |-> "Idle", sender |-> "none", ip |-> "none", left |-> 0]
Machine(st, m, time) == [state |-> st, sender |-> m.sender, ip |-> m.ip, left |-> time]

Irq == [op |-> "irq", sender |-> "kernel", ip |-> "none"]

Init ==
    /\ mbox = << >> /\ pc = "recv"
    /\ nic \in BOOLEAN /\ irq_ok \in {nic, FALSE}
    /\ PENDING = IdleSM /\ PENDING_ICMP_SEQ = 0
    /\ TCP_SM = IdleSM /\ TCP_CONN = NoConn
    /\ ARP_TABLE = Resolved
    /\ tx = [n |-> 0, sent |-> {}]
    /\ rx = << >> /\ isr = FALSE
    /\ owed = [c \in Clients |-> 0]
    /\ missed = FALSE /\ asks = 0 /\ arrivals = 0

-----------------------------------------------------------------------------
(* Helpers: transmission, ARP table, answers.                              *)

\* Frames that a host answers; of the others nothing is kept.
Prompts(f) == f.kind \in {"arpreq", "echo", "syn", "ack"}

Room(t) == t.n < TxMax
send_packet(t, f) ==
    IF Room(t) THEN [n |-> t.n + 1, sent |-> t.sent \cup {g \in {f} : Prompts(g)}] ELSE t

\* store_arp: a full table loses slot 0.
store_arp(ip) ==
    IF ip \in Range(ARP_TABLE) THEN ARP_TABLE
    ELSE IF Len(ARP_TABLE) < ARP_SIZE THEN Append(ARP_TABLE, ip)
    ELSE [ARP_TABLE EXCEPT ![1] = ip]

lookup_mac(ip) == ip \in Range(ARP_TABLE)

advance_ping_seq == (PENDING_ICMP_SEQ + 1) % SeqMod

\* tcp_sm_send_syn: on a connection closed meanwhile, from port 0 to port 0.
Syn(ip) == Frame(IF TCP_CONN.state = "Closed" THEN "stray" ELSE "syn", ip, 0)

\* The replies sent by one step: a set of <<machine or request, client>>.
Reply(R) == owed' = [c \in Clients |-> owed[c] - Cardinality({r \in R : r[2] = c})]

-----------------------------------------------------------------------------
(* The clients, the device and time.                                       *)

Ask(q) ==
    /\ asks < MaxAsks
    /\ Len(mbox) < MboxCap
    /\ mbox' = Append(mbox, q)
    /\ owed' = [owed EXCEPT ![q.sender] = @ + 1]
    /\ asks' = asks + 1
    /\ UNCHANGED <<pc, config, machines, ARP_TABLE, tx, rx, isr,
                   missed, arrivals>>

\* The device has sent a frame.
Transmit ==
    /\ tx.n > 0
    /\ tx' = [tx EXCEPT !.n = @ - 1]
    /\ isr' = TRUE
    /\ UNCHANGED <<mbox, pc, config, machines, ARP_TABLE, rx, owed,
                   missed, asks, arrivals>>

\* What the hosts may answer to the frames sent so far.
Answers ==
    UNION {CASE f.kind = "arpreq" -> {Frame("arprep", f.ip, 0)}
             [] f.kind = "echo" -> {Frame("echorep", f.ip, f.n)}
             [] f.kind = "syn" -> {Frame("synack", f.ip, 0), Frame("rst", f.ip, 0)}
             [] f.kind = "ack" -> {Frame("data", f.ip, 0), Frame("fin", f.ip, 0),
                                   Frame("rst", f.ip, 0)} : f \in tx.sent}

Arrive(f) ==
    /\ nic
    /\ arrivals < MaxArrivals
    /\ Len(rx) < RxBufs
    /\ rx' = Append(rx, f)
    /\ arrivals' = arrivals + 1
    /\ isr' = TRUE
    /\ UNCHANGED <<mbox, pc, config, machines, ARP_TABLE, tx,
                   owed, missed, asks>>

\* handle_pci_irq: the notification is dropped when the mailbox is full.
Interrupt ==
    /\ isr /\ irq_ok
    /\ isr' = FALSE
    /\ mbox' = IF Len(mbox) < MboxCap THEN Append(mbox, Irq) ELSE mbox
    /\ missed' = (missed \/ Len(mbox) = MboxCap)
    /\ UNCHANGED <<pc, config, machines, ARP_TABLE, tx, rx,
                   owed, asks, arrivals>>

\* Handling a frame and a tick commute: time passes between two rounds.
Tick ==
    /\ pc # "drain"
    /\ PENDING.left > 0 \/ TCP_SM.left > 0
    /\ PENDING' = [PENDING EXCEPT !.left = IF @ > 0 THEN @ - 1 ELSE 0]
    /\ TCP_SM' = [TCP_SM EXCEPT !.left = IF @ > 0 THEN @ - 1 ELSE 0]
    /\ UNCHANGED <<mbox, pc, config, PENDING_ICMP_SEQ, TCP_CONN, ARP_TABLE,
                   tx, rx, isr, owed, missed, asks, arrivals>>

-----------------------------------------------------------------------------
(* handle_ipc: one request, answered at once or later.                     *)

Msg == Head(mbox)

Takes(op) ==
    /\ pc = "recv" /\ mbox # << >>
    /\ Msg.op = op
    /\ mbox' = Tail(mbox)
    /\ pc' = "check"
    /\ UNCHANGED <<config, ARP_TABLE, rx, isr, missed, asks, arrivals>>

AnswerNow == Reply({<<"now", Msg.sender>>})
AnswerLater == UNCHANGED owed

NoDevice ==
    /\ ~nic
    /\ \E q \in Requests : Takes(q.op)
    /\ AnswerNow
    /\ UNCHANGED <<machines, tx>>

handle_ping ==
    /\ nic /\ Takes("ping")
    /\ UNCHANGED <<TCP_SM, TCP_CONN>>
    /\ \/ /\ PENDING.state # "Idle"
          /\ AnswerNow
          /\ UNCHANGED <<PENDING, PENDING_ICMP_SEQ, tx>>
       \/ /\ PENDING.state = "Idle" /\ lookup_mac(Msg.ip)
          /\ PENDING_ICMP_SEQ' = advance_ping_seq
          /\ tx' = send_packet(tx, Frame("echo", Msg.ip, advance_ping_seq))
          /\ IF Room(tx) THEN PENDING' = Machine("WaitICMP", Msg, PingTime) /\ AnswerLater
                         ELSE UNCHANGED PENDING /\ AnswerNow
       \/ /\ PENDING.state = "Idle" /\ ~lookup_mac(Msg.ip)
          /\ tx' = send_packet(tx, Frame("arpreq", Msg.ip, 0))
          /\ PENDING' = Machine("WaitARP", Msg, PingTime)
          /\ AnswerLater
          /\ UNCHANGED PENDING_ICMP_SEQ

\* A connect is refused while another one runs or the connection is in use.
CanConnect == TCP_SM.state = "Idle" /\ TCP_CONN.state = "Closed"
Opening(ip) == [state |-> "SynSent", ip |-> ip, rx_len |-> 0, ack |-> 0]

handle_tcp_connect ==
    /\ nic /\ Takes("connect")
    /\ UNCHANGED <<PENDING, PENDING_ICMP_SEQ>>
    /\ \/ /\ ~CanConnect
          /\ AnswerNow
          /\ UNCHANGED <<TCP_SM, TCP_CONN, tx>>
       \/ /\ CanConnect /\ lookup_mac(Msg.ip)
          /\ tx' = send_packet(tx, Frame("syn", Msg.ip, 0))
          /\ IF Room(tx)
             THEN /\ TCP_SM' = Machine("WaitSynAck", Msg, ConnectTime)
                  /\ TCP_CONN' = Opening(Msg.ip)
                  /\ AnswerLater
             ELSE UNCHANGED <<TCP_SM, TCP_CONN>> /\ AnswerNow
       \/ /\ CanConnect /\ ~lookup_mac(Msg.ip)
          /\ tx' = send_packet(tx, Frame("arpreq", Msg.ip, 0))
          /\ TCP_SM' = Machine("WaitARP", Msg, ConnectTime)
          /\ TCP_CONN' = Opening(Msg.ip)
          /\ AnswerLater

\* The result of send_packet is ignored: the client is told that it went well.
handle_tcp_send ==
    /\ nic /\ Takes("send")
    /\ tx' = IF TCP_CONN.state = "Established" /\ lookup_mac(TCP_CONN.ip)
             THEN send_packet(tx, Frame("psh", TCP_CONN.ip, 0)) ELSE tx
    /\ AnswerNow
    /\ UNCHANGED <<machines>>

\* OP_NET_TCP_RECV: what does not fit in the reply is dropped.
TcpRecv ==
    /\ nic /\ Takes("recv")
    /\ TCP_CONN' = [TCP_CONN EXCEPT !.rx_len = 0]
    /\ AnswerNow
    /\ UNCHANGED <<PENDING, PENDING_ICMP_SEQ, TCP_SM, tx>>

\* The connect machine is left as it is.
handle_tcp_close ==
    /\ nic /\ Takes("close")
    /\ tx' = IF TCP_CONN.state = "Established"
             THEN send_packet(tx, Frame("fin", TCP_CONN.ip, 0)) ELSE tx
    /\ TCP_CONN' = NoConn
    /\ AnswerNow
    /\ UNCHANGED <<PENDING, PENDING_ICMP_SEQ, TCP_SM>>

\* Without the address the client is told to try again.
handle_udp_send ==
    /\ nic /\ Takes("udp_send")
    /\ tx' = send_packet(tx, Frame(IF lookup_mac(Msg.ip) THEN "udp" ELSE "arpreq", Msg.ip, 0))
    /\ AnswerNow
    /\ UNCHANGED <<machines>>

\* OP_NET_UDP_BIND, OP_NET_UDP_RECV, OP_NET_GET_IP and unknown opcodes.
OtherRequest ==
    /\ nic /\ Takes("other")
    /\ AnswerNow
    /\ UNCHANGED <<machines, tx>>

-----------------------------------------------------------------------------
(* poll_rx: frames are handled until the ring is empty.                    *)

TakeIrq ==
    /\ pc = "recv" /\ mbox # << >> /\ Msg.op = "irq"
    /\ mbox' = Tail(mbox)
    /\ pc' = "drain"
    /\ UNCHANGED <<config, machines, ARP_TABLE, tx, rx, isr, owed,
                   missed, asks, arrivals>>

Frame1 == Head(rx)

\* Mutant: one frame per notification.
OneFrame(kinds) ==
    /\ pc = "drain" /\ rx # << >>
    /\ Frame1.kind \in kinds
    /\ rx' = Tail(rx)
    /\ pc' = "check"
    /\ UNCHANGED <<mbox, config, isr, missed, asks, arrivals>>

\* The common part of handle_packet for a frame of one of these kinds.
handle_packet(kinds) ==
    /\ pc = "drain" /\ rx # << >>
    /\ Frame1.kind \in kinds
    /\ rx' = Tail(rx)
    /\ UNCHANGED <<mbox, pc, config, isr, missed, asks, arrivals>>

handle_arp_packet ==
    LET table == store_arp(Frame1.ip)
        pings == PENDING.state = "WaitARP" /\ PENDING.ip \in Range(table)
        opens == TCP_SM.state = "WaitARP" /\ TCP_SM.ip \in Range(table)
        t1 == IF Frame1.kind = "arpreq"
              THEN send_packet(tx, Frame("arprep", Frame1.ip, 0)) ELSE tx
        t2 == IF pings THEN send_packet(t1, Frame("echo", PENDING.ip, advance_ping_seq))
                       ELSE t1
        t3 == IF opens THEN send_packet(t2, Syn(TCP_SM.ip)) ELSE t2
        pingFails == pings /\ ~Room(t1)
        openFails == opens /\ ~Room(t2)
    IN /\ handle_packet({"arpreq", "arprep"})
       /\ ARP_TABLE' = table
       /\ tx' = t3
       /\ PENDING_ICMP_SEQ' = IF pings THEN advance_ping_seq ELSE PENDING_ICMP_SEQ
       /\ PENDING' = IF pingFails THEN IdleSM
                     ELSE IF pings THEN [PENDING EXCEPT !.state = "WaitICMP"] ELSE PENDING
       /\ TCP_SM' = IF openFails THEN IdleSM
                    ELSE IF opens THEN [TCP_SM EXCEPT !.state = "WaitSynAck"] ELSE TCP_SM
       /\ TCP_CONN' = IF openFails THEN NoConn ELSE TCP_CONN
       /\ Reply((IF pingFails THEN {<<"ping", PENDING.sender>>} ELSE {})
                \cup (IF openFails THEN {<<"connect", TCP_SM.sender>>} ELSE {}))

EchoRequest ==
    /\ handle_packet({"echoreq"})
    /\ tx' = IF lookup_mac(Frame1.ip)
             THEN send_packet(tx, Frame("echoans", Frame1.ip, 0)) ELSE tx
    /\ UNCHANGED <<machines, ARP_TABLE, owed>>

\* Mutant: any echo reply is taken for the answer.
AnyEcho == PENDING.state = "WaitICMP"

\* The answer is recognised by its sequence number.
Expected == PENDING.state = "WaitICMP" /\ Frame1.n = PENDING_ICMP_SEQ

\* Mutant: the machine is not reset, so that the deadline answers again.
EchoReplyStays ==
    /\ handle_packet({"echorep"})
    /\ Reply(IF Expected THEN {<<"ping", PENDING.sender>>} ELSE {})
    /\ UNCHANGED <<machines, ARP_TABLE, tx>>

EchoReply ==
    /\ handle_packet({"echorep"})
    /\ PENDING' = IF Expected THEN IdleSM ELSE PENDING
    /\ Reply(IF Expected THEN {<<"ping", PENDING.sender>>} ELSE {})
    /\ UNCHANGED <<PENDING_ICMP_SEQ, TCP_SM, TCP_CONN, ARP_TABLE, tx>>

\* Only segments of the connection count.
Ours(state) == TCP_CONN.state = state /\ TCP_CONN.ip = Frame1.ip
TcpSegment(kinds) ==
    /\ handle_packet(kinds)
    /\ UNCHANGED <<PENDING, PENDING_ICMP_SEQ, ARP_TABLE>>

tcp_sm_on_established ==
    /\ TcpSegment({"synack"}) /\ Ours("SynSent")
    /\ TCP_CONN' = [TCP_CONN EXCEPT !.state = "Established", !.ack = 0]
    /\ tx' = send_packet(tx, Frame("ack", Frame1.ip, 0))
    /\ IF TCP_SM.state = "WaitSynAck"
       THEN TCP_SM' = IdleSM /\ Reply({<<"connect", TCP_SM.sender>>})
       ELSE UNCHANGED <<TCP_SM, owed>>

\* What does not fit in rx_buf is dropped, but acknowledged.
DataReceived ==
    /\ TcpSegment({"data"}) /\ Ours("Established")
    /\ TCP_CONN' = [TCP_CONN EXCEPT !.rx_len = IF @ < RxBytes THEN @ + 1 ELSE @,
                                    !.ack = @ + 1]
    /\ tx' = send_packet(tx, Frame("ack", Frame1.ip, 0))
    /\ UNCHANGED <<TCP_SM, owed>>

tcp_sm_on_reset ==
    /\ TcpSegment({"rst"})
    /\ Ours("SynSent") \/ Ours("Established")
    /\ TCP_CONN' = NoConn
    /\ IF TCP_SM.state = "WaitSynAck"
       THEN TCP_SM' = IdleSM /\ Reply({<<"connect", TCP_SM.sender>>})
       ELSE UNCHANGED <<TCP_SM, owed>>
    /\ UNCHANGED tx

PeerCloses ==
    /\ TcpSegment({"fin"}) /\ Ours("Established")
    /\ TCP_CONN' = NoConn
    /\ UNCHANGED <<TCP_SM, tx, owed>>

TcpIgnored ==
    /\ TcpSegment({"synack", "data", "fin", "rst"})
    /\ ~ \/ Frame1.kind \in {"synack", "rst"} /\ Ours("SynSent")
         \/ Frame1.kind \in {"data", "fin", "rst"} /\ Ours("Established")
    /\ UNCHANGED <<TCP_SM, TCP_CONN, tx, owed>>

-----------------------------------------------------------------------------
(* The rest of the loop.                                                   *)

\* Mutant: deadlines are tested after messages only.
AfterMessage == pc = "check" \/ (pc = "drain" /\ rx = << >>)

\* A request is handled, the ring is drained, or recv_msg(100) timed out.
RoundEnds ==
    \/ pc = "check"
    \/ pc = "drain" /\ rx = << >>
    \/ pc = "recv" /\ mbox = << >>

PingDue == PENDING.state # "Idle" /\ PENDING.left = 0
ConnectDue == TCP_SM.state # "Idle" /\ TCP_SM.left = 0

\* Mutant: no tcp_close when a connect times out.
LeavesHalfOpen ==
    /\ RoundEnds
    /\ pc' = "recv"
    /\ PENDING' = IF PingDue THEN IdleSM ELSE PENDING
    /\ TCP_SM' = IF ConnectDue THEN IdleSM ELSE TCP_SM
    /\ UNCHANGED TCP_CONN
    /\ Reply((IF PingDue THEN {<<"ping", PENDING.sender>>} ELSE {})
             \cup (IF ConnectDue THEN {<<"connect", TCP_SM.sender>>} ELSE {}))
    /\ UNCHANGED <<mbox, config, PENDING_ICMP_SEQ, ARP_TABLE, tx, rx, isr,
                   missed, asks, arrivals>>

check_pending_deadlines ==
    /\ RoundEnds
    /\ pc' = "recv"
    /\ PENDING' = IF PingDue THEN IdleSM ELSE PENDING
    /\ TCP_SM' = IF ConnectDue THEN IdleSM ELSE TCP_SM
    /\ TCP_CONN' = IF ConnectDue THEN NoConn ELSE TCP_CONN
    /\ Reply((IF PingDue THEN {<<"ping", PENDING.sender>>} ELSE {})
             \cup (IF ConnectDue THEN {<<"connect", TCP_SM.sender>>} ELSE {}))
    /\ UNCHANGED <<mbox, config, PENDING_ICMP_SEQ, ARP_TABLE, tx, rx, isr,
                   missed, asks, arrivals>>

Ipc == \/ NoDevice \/ handle_ping \/ handle_tcp_connect \/ handle_tcp_send
       \/ TcpRecv \/ handle_tcp_close \/ handle_udp_send
       \/ OtherRequest
Drain == \/ handle_arp_packet \/ EchoRequest \/ EchoReply
         \/ tcp_sm_on_established \/ DataReceived
         \/ tcp_sm_on_reset \/ PeerCloses \/ TcpIgnored
Loop == Ipc \/ TakeIrq \/ Drain \/ check_pending_deadlines

Next == \/ \E q \in Requests : Ask(q)
        \/ \E f \in Answers \cup Noise : Arrive(f)
        \/ Transmit \/ Interrupt \/ Tick \/ Loop

\* The server is scheduled, time passes and interrupts are delivered.
Spec == Init /\ [][Next]_vars /\ WF_vars(Loop) /\ WF_vars(Tick) /\ WF_vars(Interrupt)

-----------------------------------------------------------------------------
(* Properties.                                                             *)

Held(c, m) == IF m.state # "Idle" /\ m.sender = c THEN 1 ELSE 0

\* Each request is answered exactly once: the answers a client is still owed
\* are its requests in the mailbox and those the two machines keep.  A late
\* frame, a full ring or a deadline neither loses nor repeats an answer.
AnsweredOnce ==
    \A c \in Clients :
        owed[c] = Cardinality({i \in DOMAIN mbox : mbox[i].sender = c})
                  + Held(c, PENDING) + Held(c, TCP_SM)

\* A connection that is being opened has a connect waiting for it, and so a
\* deadline: the only TCP connection cannot be stuck half open.
HalfOpenWatched == TCP_CONN.state = "SynSent" => TCP_SM.state # "Idle"

\* A ping that succeeds was answered by the host that was pinged, not by the
\* late or repeated reply of an earlier ping.
PingGenuine ==
    [][(PENDING.state = "WaitICMP" /\ PENDING'.state = "Idle" /\ rx # << >> /\ rx' = Tail(rx))
         => Frame1.ip = PENDING.ip]_vars

\* The frames in the receive ring are read, unless a notification was dropped
\* or the interrupt was never registered: there is no other poll.
FramesRead == (rx # << >>) ~> (rx = << >> \/ missed \/ ~irq_ok)

\* Every request is answered in the end: with no answer from the network, by
\* the deadline that check_pending_deadlines tests after each recv_msg.
RequestsAnswered == (\E c \in Clients : owed[c] > 0) ~> (\A c \in Clients : owed[c] = 0)

\* What main.rs says "shouldn't happen": a SYN-ACK that completes a connection
\* while the connect is not waiting for one.  It does happen.
NoStraySynAck ==
    [][(TCP_CONN.state = "SynSent" /\ TCP_CONN'.state = "Established")
         => TCP_SM.state = "WaitSynAck"]_vars

\* What tcp.rs says of ack: the next byte expected from the peer.  The peers
\* of this model have one payload to send, which may arrive twice.  It is false.
AckIsNext == TCP_CONN.ack <= 1
=============================================================================
