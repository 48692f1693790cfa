----------------------------- MODULE NetProofs -----------------------------
(***************************************************************************)
(* The network server: a connection that is being opened is watched by the *)
(* connect machine, whatever the sizes, the requests and the frames.       *)
(***************************************************************************)
EXTENDS Net, TLAPS

\* Requests: a connect that goes ahead starts the machine together with the
\* connection; a close only ever closes.
LEMMA IpcWatched == HalfOpenWatched /\ Ipc => HalfOpenWatched'
<1>1. ASSUME HalfOpenWatched, handle_tcp_connect PROVE HalfOpenWatched'
  BY <1>1 DEF handle_tcp_connect, HalfOpenWatched, Machine
<1>2. ASSUME HalfOpenWatched, TcpRecv PROVE HalfOpenWatched'
  <2>1. TCP_CONN'.state = TCP_CONN.state
    BY <1>2 DEF TcpRecv
  <2>. QED BY <1>2, <2>1 DEF TcpRecv, HalfOpenWatched
<1>3. ASSUME HalfOpenWatched, handle_tcp_close PROVE HalfOpenWatched'
  BY <1>3 DEF handle_tcp_close, HalfOpenWatched, NoConn
<1>4. ASSUME HalfOpenWatched,
             \/ NoDevice \/ handle_ping \/ handle_tcp_send
             \/ handle_udp_send \/ OtherRequest
      PROVE HalfOpenWatched'
  <2>1. UNCHANGED <<TCP_SM, TCP_CONN>>
    BY <1>4 DEF NoDevice, handle_ping, handle_tcp_send, handle_udp_send, OtherRequest, machines
  <2>. QED BY <1>4, <2>1 DEF HalfOpenWatched
<1>. QED BY <1>1, <1>2, <1>3, <1>4 DEF Ipc

\* Frames: an address that turns up, a SYN-ACK and a reset move the machine
\* and the connection together.
LEMMA DrainWatched == HalfOpenWatched /\ Drain => HalfOpenWatched'
<1>1. ASSUME HalfOpenWatched, handle_arp_packet PROVE HalfOpenWatched'
  <2>1. \/ TCP_CONN' = NoConn
        \/ UNCHANGED <<TCP_SM, TCP_CONN>>
        \/ TCP_SM' = [TCP_SM EXCEPT !.state = "WaitSynAck"] /\ TCP_SM.state = "WaitARP"
    BY <1>1 DEF handle_arp_packet
  <2>2. ASSUME TCP_SM' = [TCP_SM EXCEPT !.state = "WaitSynAck"], TCP_SM.state = "WaitARP"
        PROVE TCP_SM'.state # "Idle"
    BY <2>2
  <2>. QED BY <1>1, <2>1, <2>2 DEF HalfOpenWatched, NoConn
<1>2. ASSUME HalfOpenWatched, tcp_sm_on_established PROVE HalfOpenWatched'
  <2>1. TCP_CONN'.state # "SynSent"
    BY <1>2 DEF tcp_sm_on_established
  <2>. QED BY <2>1 DEF HalfOpenWatched
<1>3. ASSUME HalfOpenWatched, DataReceived PROVE HalfOpenWatched'
  <2>1. TCP_CONN'.state = TCP_CONN.state
    BY <1>3 DEF DataReceived
  <2>. QED BY <1>3, <2>1 DEF DataReceived, HalfOpenWatched
<1>4. ASSUME tcp_sm_on_reset \/ PeerCloses PROVE HalfOpenWatched'
  BY <1>4 DEF tcp_sm_on_reset, PeerCloses, HalfOpenWatched, NoConn
<1>5. ASSUME HalfOpenWatched, EchoRequest \/ EchoReply \/ TcpIgnored PROVE HalfOpenWatched'
  BY <1>5 DEF EchoRequest, EchoReply, TcpIgnored, machines, HalfOpenWatched
<1>. QED BY <1>1, <1>2, <1>3, <1>4, <1>5 DEF Drain

\* The only TCP connection is never stuck half open: as long as it is in
\* SynSent the connect machine runs, whose deadline closes it.
THEOREM OpeningsWatched == Spec => []HalfOpenWatched
<1>1. Init => HalfOpenWatched
  BY DEF Init, HalfOpenWatched, NoConn
<1>2. HalfOpenWatched /\ [Next]_vars => HalfOpenWatched'
  <2>. SUFFICES ASSUME HalfOpenWatched, [Next]_vars PROVE HalfOpenWatched'
    OBVIOUS
  <2>1. CASE \/ \E q \in Requests : Ask(q)
             \/ \E f \in Answers \cup Noise : Arrive(f)
             \/ Transmit \/ Interrupt \/ TakeIrq
    BY <2>1 DEF Ask, Arrive, Transmit, Interrupt, TakeIrq, machines, HalfOpenWatched
  <2>2. CASE Tick
    <3>1. TCP_SM'.state = TCP_SM.state
      BY <2>2 DEF Tick
    <3>. QED BY <2>2, <3>1 DEF Tick, HalfOpenWatched
  <2>3. CASE check_pending_deadlines
    BY <2>3 DEF check_pending_deadlines, HalfOpenWatched, NoConn
  <2>4. CASE Ipc
    BY <2>4, IpcWatched
  <2>5. CASE Drain
    BY <2>5, DrainWatched
  <2>6. CASE UNCHANGED vars
    BY <2>6 DEF vars, machines, HalfOpenWatched
  <2>. QED BY <2>1, <2>2, <2>3, <2>4, <2>5, <2>6 DEF Next, Loop
<1>. QED BY <1>1, <1>2, PTL DEF Spec
=============================================================================
