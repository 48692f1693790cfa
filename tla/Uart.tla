-------------------------------- MODULE Uart --------------------------------
(***************************************************************************)
(* The interrupt-driven transmit path of the serial console                *)
(* (crates/hal/src/uart.rs) with its interrupt handler                     *)
(* (crates/arch-x86_64/src/interrupts/handlers.rs), the 16550A and the     *)
(* edge-triggered I/O APIC input it is wired to.                           *)
(*                                                                         *)
(* System calls and handlers run with interrupts off, so their put_byte is *)
(* one step.  The last line of the boot sequence is printed with           *)
(* interrupts on (crates/kernel/src/main.rs:1104): its put_byte is a       *)
(* sequence of steps, between which handlers and other processes run.      *)
(***************************************************************************)
EXTENDS Integers, Sequences

CONSTANTS RingSize,     \* TX_BUF_SIZE; the u8 indices wrap at it
          MaxBytes,     \* bound: bytes written by processes
          BannerBytes,  \* bytes of the last boot message
          MaxRx         \* bound: bytes received

ASSUME RingAssumption == RingSize \in Nat \ {0, 1}

VARIABLES TX_BUF, TX_HEAD, TX_TAIL,  \* the ring
          fifo,         \* bytes in the transmitter; LSR.THRE means none
          ETBEI,        \* the transmit interrupt is enabled in IER
          thri,         \* the 16550A holds a transmit interrupt
          rbr,          \* bytes in the receiver
          irq,          \* the I/O APIC has seen an edge not yet delivered
          wire,         \* the byte last sent
          written, received, \* history: bytes offered, bytes arrived
          boot          \* the boot thread inside put_byte, with its locals

ring == <<TX_BUF, TX_HEAD, TX_TAIL>>
vars == <<TX_BUF, TX_HEAD, TX_TAIL, fifo, ETBEI, thri, rbr, irq, wire,
          written, received, boot>>

IndexGrows(i)   == i + 1  \* mutant: a wider index does not wrap
wrapping_add(i) == (i + 1) % RingSize

NeverFull(h) == FALSE  \* mutant: the ring may be overrun
RingFull(h)  == wrapping_add(h) = TX_TAIL

LastByte  == TX_TAIL = TX_HEAD \/ wrapping_add(TX_TAIL) = TX_HEAD  \* mutant
RingEmpty == TX_TAIL = TX_HEAD

\* Bytes are told apart by the order in which they were offered.
NoByte == 0

Init ==
    /\ TX_BUF = [i \in 0 .. RingSize - 1 |-> NoByte]
    /\ TX_HEAD = 0 /\ TX_TAIL = 0
    /\ fifo = <<>> /\ ETBEI = FALSE /\ thri = FALSE /\ rbr = 0 /\ irq = FALSE
    /\ wire = NoByte /\ written = 0 /\ received = 0
    /\ boot = [pc |-> IF BannerBytes = 0 THEN "done" ELSE "load",
               left |-> BannerBytes, byte |-> NoByte, head |-> 0, tail |-> 0,
               out |-> NoByte]

\* The interrupt output of the 16550A: received data, or THRE when enabled.
\* The redirection entry is edge-triggered: only a rising line is delivered.
Asserted(en, t, r) == (en /\ t) \/ r > 0
LatchEdge == irq' = (irq \/ (/\ ~Asserted(ETBEI, thri, rbr)
                             /\ Asserted(ETBEI', thri', rbr')))

-----------------------------------------------------------------------------
(* put_byte with interrupts off: SYS_UART_WRITE and the handlers *)

\* Push the byte; an idle transmitter gets the oldest one at once, which also
\* withdraws a held transmit interrupt; then arm the transmit interrupt.
put_byte ==
    /\ written < MaxBytes + BannerBytes
    /\ written' = written + 1
    /\ IF RingFull(TX_HEAD)
       THEN UNCHANGED <<ring, fifo, ETBEI, thri>>
       ELSE /\ TX_BUF' = [TX_BUF EXCEPT ![TX_HEAD] = written + 1]
            /\ TX_HEAD' = wrapping_add(TX_HEAD)
            /\ IF fifo = <<>>
               THEN /\ fifo' = <<TX_BUF'[TX_TAIL]>>
                    /\ TX_TAIL' = wrapping_add(TX_TAIL)
                    /\ thri' = FALSE
               ELSE UNCHANGED <<fifo, TX_TAIL, thri>>
            /\ ETBEI' = TRUE
    /\ UNCHANGED <<rbr, wire, received, boot>>
    /\ LatchEdge

-----------------------------------------------------------------------------
(* handle_uart_rx: one cause per interrupt, received data first *)

Isr ==
    /\ irq
    /\ IF rbr > 0
       THEN /\ rbr' = 0                          \* drain_rx_fifo
            /\ irq' = FALSE
            /\ UNCHANGED <<ring, fifo, ETBEI, thri>>
       ELSE IF ETBEI /\ thri                     \* reading IIR clears it
       THEN /\ thri' = FALSE
            /\ irq' = FALSE
            /\ IF RingEmpty                      \* tx_isr
               THEN /\ ETBEI' = FALSE
                    /\ UNCHANGED <<ring, fifo>>
               ELSE /\ fifo' = Append(fifo, TX_BUF[TX_TAIL])
                    /\ TX_TAIL' = wrapping_add(TX_TAIL)
                    /\ UNCHANGED <<TX_BUF, TX_HEAD, ETBEI>>
            /\ UNCHANGED rbr
       ELSE /\ irq' = FALSE                      \* spurious
            /\ UNCHANGED <<ring, fifo, ETBEI, thri, rbr>>
    /\ UNCHANGED <<wire, written, received, boot>>

-----------------------------------------------------------------------------
(* The device *)

Transmit ==
    /\ fifo # <<>>
    /\ wire' = Head(fifo)
    /\ fifo' = Tail(fifo)
    /\ thri' = (thri \/ fifo' = <<>>)
    /\ UNCHANGED <<ring, ETBEI, rbr, written, received, boot>>
    /\ LatchEdge

Receive ==
    /\ received < MaxRx
    /\ received' = received + 1
    /\ rbr' = rbr + 1
    /\ UNCHANGED <<ring, fifo, ETBEI, thri, wire, written, boot>>
    /\ LatchEdge

-----------------------------------------------------------------------------
(* put_byte with interrupts on: the boot banner.  One step per load or store *)
(* of shared state; an interrupt or a process may come between any two.      *)

At(l)  == boot.pc = l
Go(l)  == [boot EXCEPT !.pc = l]
device == <<fifo, ETBEI, thri, rbr, irq>>

\* Return from put_byte: the next byte of the banner, or the idle loop.
Return == [boot EXCEPT !.pc = IF boot.left = 0 THEN "done" ELSE "load"]

LoadHead ==
    /\ At("load")
    /\ written' = written + 1
    /\ boot' = [boot EXCEPT !.pc = "full", !.head = TX_HEAD,
                            !.left = @ - 1, !.byte = written + 1]
    /\ UNCHANGED <<ring, device, wire, received>>

CheckFull ==
    /\ At("full")
    /\ boot' = IF RingFull(boot.head) THEN Return ELSE Go("store")
    /\ UNCHANGED <<ring, device, wire, written, received>>

StoreByte ==
    /\ At("store")
    /\ TX_BUF' = [TX_BUF EXCEPT ![boot.head] = boot.byte]
    /\ boot' = Go("publish")
    /\ UNCHANGED <<TX_HEAD, TX_TAIL, device, wire, written, received>>

Publish ==
    /\ At("publish")
    /\ TX_HEAD' = wrapping_add(boot.head)
    /\ boot' = Go("lsr")
    /\ UNCHANGED <<TX_BUF, TX_TAIL, device, wire, written, received>>

ReadLsr ==
    /\ At("lsr")
    /\ boot' = IF fifo = <<>> THEN Go("tail") ELSE Go("ier")
    /\ UNCHANGED <<ring, device, wire, written, received>>

LoadTail ==
    /\ At("tail")
    /\ boot' = [boot EXCEPT !.pc = "head", !.tail = TX_TAIL]
    /\ UNCHANGED <<ring, device, wire, written, received>>

CheckEmpty ==
    /\ At("head")
    /\ boot' = IF boot.tail # TX_HEAD
               THEN [boot EXCEPT !.pc = "pop", !.out = TX_BUF[boot.tail]]
               ELSE Go("ier")
    /\ UNCHANGED <<ring, device, wire, written, received>>

PopByte ==
    /\ At("pop")
    /\ TX_TAIL' = wrapping_add(boot.tail)
    /\ boot' = Go("thr")
    /\ UNCHANGED <<TX_BUF, TX_HEAD, device, wire, written, received>>

WriteThr ==
    /\ At("thr")
    /\ fifo' = Append(fifo, boot.out)
    /\ thri' = FALSE
    /\ boot' = Go("ier")
    /\ UNCHANGED <<ring, ETBEI, rbr, irq, wire, written, received>>

ReadIer ==
    /\ At("ier")
    /\ boot' = IF ETBEI THEN Return ELSE Go("arm")
    /\ UNCHANGED <<ring, device, wire, written, received>>

\* Enabling the interrupt while the transmitter is empty raises it.
WriteIer ==
    /\ At("arm")
    /\ ETBEI' = TRUE
    /\ thri' = (thri \/ (~ETBEI /\ fifo = <<>>))
    /\ boot' = Return
    /\ UNCHANGED <<ring, fifo, rbr, wire, written, received>>
    /\ LatchEdge

BootStep == \/ LoadHead \/ CheckFull \/ StoreByte \/ Publish \/ ReadLsr
            \/ LoadTail \/ CheckEmpty \/ PopByte \/ WriteThr \/ ReadIer
            \/ WriteIer

-----------------------------------------------------------------------------

Next == put_byte \/ Isr \/ Transmit \/ Receive \/ BootStep

\* The hardware transmits and interrupts; the boot thread is the idle process,
\* which runs whenever the others are blocked.
Spec == /\ Init /\ [][Next]_vars
        /\ WF_vars(Isr) /\ WF_vars(Transmit) /\ WF_vars(BootStep)

-----------------------------------------------------------------------------
(* Properties *)

\* What has been accepted and not sent: the transmitter, then the ring.
Ring  == [i \in 1 .. (TX_HEAD - TX_TAIL) % RingSize |->
             TX_BUF[(TX_TAIL + i - 1) % RingSize]]
Queue == fifo \o Ring

TypeOK ==
    /\ TX_BUF \in [0 .. RingSize - 1 -> 0 .. MaxBytes + 2 * BannerBytes]
    /\ TX_HEAD \in 0 .. RingSize - 1 /\ TX_TAIL \in 0 .. RingSize - 1
    /\ ETBEI \in BOOLEAN /\ thri \in BOOLEAN /\ irq \in BOOLEAN
    /\ rbr \in 0 .. MaxRx

\* System calls, handlers and the device treat ring and transmitter as one
\* first-in first-out queue, whatever the boot thread is in the middle of: a
\* byte joins at the end, leaves at the front onto the wire, and is refused
\* only when the ring is full ("Bytes are silently dropped only if the
\* 255-byte ring overflows", crates/hal/src/uart.rs:102).
QueueStep ==
    \/ Queue' = Queue /\ UNCHANGED <<wire, written>>
    \/ Queue # <<>> /\ Queue' = Tail(Queue) /\ wire' = Head(Queue)
    \/ Queue' = Append(Queue, written') /\ UNCHANGED wire
    \/ Len(Ring) = RingSize - 1 /\ UNCHANGED <<Queue, wire>>
HandlersKeepOrder == [][boot' = boot => QueueStep]_vars

\* Every accepted byte gets out: the chain of transmit interrupts started by
\* put_byte does not break before the ring is empty, except in the one case
\* that a line which is still asserted has no edge left to deliver.
MissedEdge == Asserted(ETBEI, thri, rbr) /\ ~irq
RingDrains == []<>(TX_TAIL = TX_HEAD \/ MissedEdge)

\* No byte is queued twice: "On a single-core system this is always safe
\* because tx_isr can only execute between instructions" (uart.rs:38).
QueuedOnce ==
    \A i, j \in DOMAIN Queue : i # j => Queue[i] # Queue[j] /\ Queue[i] # wire

\* The line never stays asserted with no edge to deliver: "The 16550A
\* re-asserts IRQ4 for any still-pending interrupt type after the ISR
\* returns, so handling one type per invocation is correct"
\* (crates/arch-x86_64/src/interrupts/handlers.rs:736).
EveryCauseHandled == []<>~MissedEdge

=============================================================================
