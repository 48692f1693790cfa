---------------------------- MODULE QueueProofs -----------------------------
(***************************************************************************)
(* The ring of crates/core-kernel/src/ipc/message.rs implements a bounded  *)
(* first-in first-out queue, for every capacity and set of messages.       *)
(***************************************************************************)
EXTENDS MessageQueue, TLAPS

\* The i-th oldest message is in slot Slot(head, i).
Slot(h, i) == (h + i) % QueueCapacity

RingOK ==
    /\ head \in Slots /\ tail \in Slots /\ count \in 0 .. QueueCapacity
    /\ tail = Slot(head, count)
    /\ messages \in [Slots -> Message \cup {None}]
    /\ \A i \in 0 .. count - 1 : messages[Slot(head, i)] \in Message

\* An index that has passed the end wraps once.
LEMMA SlotValue ==
    ASSUME NEW h \in Slots, NEW i \in 0 .. QueueCapacity
    PROVE  /\ h + i < QueueCapacity => Slot(h, i) = h + i
           /\ h + i >= QueueCapacity => Slot(h, i) = h + i - QueueCapacity
           /\ Slot(h, i) \in Slots
BY CapacityAssumption DEF Slot, Slots

\* Slots at different distances from the head are different.
LEMMA SlotsDistinct ==
    ASSUME NEW h \in Slots, NEW i \in 0 .. QueueCapacity,
           NEW j \in 0 .. QueueCapacity,
           i < j, j < i + QueueCapacity
    PROVE  Slot(h, i) # Slot(h, j)
<1>1. /\ h + i < QueueCapacity => Slot(h, i) = h + i
      /\ h + i >= QueueCapacity => Slot(h, i) = h + i - QueueCapacity
  BY SlotValue
<1>2. /\ h + j < QueueCapacity => Slot(h, j) = h + j
      /\ h + j >= QueueCapacity => Slot(h, j) = h + j - QueueCapacity
  BY SlotValue
<1> QED BY <1>1, <1>2, CapacityAssumption DEF Slots

\* The distance is counted from the advanced head after a receive.
LEMMA SlotAdvance ==
    ASSUME NEW h \in Slots, NEW i \in 0 .. QueueCapacity - 1
    PROVE  /\ Slot(Advance(h), i) = Slot(h, i + 1)
           /\ Advance(h) = Slot(h, 1) /\ Advance(h) \in Slots
           /\ Advance(Slot(h, i)) = Slot(h, i + 1)
           /\ Slot(h, 0) = h
<1>0. /\ 1 \in 0 .. QueueCapacity /\ 0 \in 0 .. QueueCapacity
      /\ i + 1 \in 0 .. QueueCapacity /\ i \in 0 .. QueueCapacity
  BY CapacityAssumption
<1>1. Advance(h) = Slot(h, 1)
  BY DEF Advance, Slot
<1>2. Advance(h) \in Slots
  BY <1>0, <1>1, SlotValue
<1>3. /\ h + (i + 1) < QueueCapacity => Slot(h, i + 1) = h + (i + 1)
      /\ h + (i + 1) >= QueueCapacity => Slot(h, i + 1) = h + (i + 1) - QueueCapacity
  BY <1>0, SlotValue
<1>4. Slot(Advance(h), i) = Slot(h, i + 1)
  <2> DEFINE a == Advance(h)
  <2>1. /\ a + i < QueueCapacity => Slot(a, i) = a + i
        /\ a + i >= QueueCapacity => Slot(a, i) = a + i - QueueCapacity
    BY <1>0, <1>2, SlotValue
  <2>2. /\ h + 1 < QueueCapacity => a = h + 1
        /\ h + 1 >= QueueCapacity => a = h + 1 - QueueCapacity
    BY <1>0, <1>1, SlotValue
  <2> HIDE DEF a
  <2>3. Slot(a, i) = Slot(h, i + 1)
    BY <1>3, <2>1, <2>2, CapacityAssumption DEF Slots
  <2> QED BY <2>3 DEF a
<1>5. Advance(Slot(h, i)) = Slot(h, i + 1)
  <2> DEFINE b == Slot(h, i)
  <2>1. /\ h + i < QueueCapacity => b = h + i
        /\ h + i >= QueueCapacity => b = h + i - QueueCapacity
        /\ b \in Slots
    BY <1>0, SlotValue
  <2>2. Advance(b) = Slot(b, 1)
    BY DEF Advance, Slot
  <2> HIDE DEF b
  <2>3. /\ b + 1 < QueueCapacity => Slot(b, 1) = b + 1
        /\ b + 1 >= QueueCapacity => Slot(b, 1) = b + 1 - QueueCapacity
    BY <1>0, <2>1, SlotValue
  <2>4. Advance(b) = Slot(h, i + 1)
    BY <1>3, <2>1, <2>2, <2>3, CapacityAssumption DEF Slots
  <2> QED BY <2>4 DEF b
<1>6. Slot(h, 0) = h
  <2>1. h + 0 < QueueCapacity => Slot(h, 0) = h + 0
    BY <1>0, SlotValue
  <2> QED BY <2>1, CapacityAssumption DEF Slots
<1> QED BY <1>1, <1>2, <1>4, <1>5, <1>6

\* The sequence the ring stands for, by distance from the head.
QueuedBySlot ==
    /\ Queued \in Seq(Message) /\ Len(Queued) = count
    /\ \A i \in 1 .. count : Queued[i] = messages[Slot(head, i - 1)]

LEMMA QueuedIsSeq == RingOK => QueuedBySlot
<1> SUFFICES ASSUME RingOK PROVE QueuedBySlot
  OBVIOUS
<1>1. \A i \in 1 .. count : /\ i - 1 \in 0 .. count - 1
                            /\ (head + i - 1) % QueueCapacity = Slot(head, i - 1)
  BY DEF RingOK, Slot, Slots
<1>2. \A i \in 1 .. count : messages[(head + i - 1) % QueueCapacity] \in Message
  BY <1>1 DEF RingOK
<1>3. count \in Nat
  BY CapacityAssumption DEF RingOK
<1> QED BY <1>1, <1>2, <1>3 DEF Queued, QueuedBySlot

-----------------------------------------------------------------------------

LEMMA RingInit == QueueInit => RingOK /\ Queued = <<>>
<1> SUFFICES ASSUME QueueInit PROVE RingOK /\ Queued = <<>>
  OBVIOUS
<1>1. 0 \in Slots /\ Slot(0, 0) = 0
  BY SlotAdvance, CapacityAssumption DEF Slots
<1>2. RingOK
  BY <1>1, CapacityAssumption DEF QueueInit, RingOK, Slots
<1>3. Queued = <<>>
  BY <1>2, QueuedIsSeq DEF QueueInit, QueuedBySlot
<1> QED BY <1>2, <1>3

\* A send keeps the ring well-formed and appends its message.
LEMMA RingSend ==
    ASSUME RingOK, NEW m \in Message, send(m)
    PROVE  RingOK' /\ Mailbox!Send(m)
<1>1. CASE count >= QueueCapacity
  <2>1. RingOK' /\ Queued' = Queued
    BY <1>1 DEF send, RingOK, Queued
  <2> QED BY <1>1, <2>1, QueuedIsSeq, CapacityAssumption DEF send, Mailbox!Send, RingOK, QueuedBySlot
<1>2. CASE ~(count >= QueueCapacity)
  <2>1. /\ count \in 0 .. QueueCapacity - 1
        /\ messages' = [messages EXCEPT ![Slot(head, count)] = m]
        /\ tail' = Slot(head, count + 1)
        /\ count' = count + 1 /\ head' = head
        /\ accepted' = TRUE /\ received' = received
    BY <1>2, SlotAdvance, CapacityAssumption DEF send, RingOK
  <2>2. \A i \in 0 .. count - 1 : messages'[Slot(head, i)] = messages[Slot(head, i)]
    <3> TAKE i \in 0 .. count - 1
    <3>1. Slot(head, i) # Slot(head, count) /\ Slot(head, i) \in Slots
      BY <2>1, SlotsDistinct, SlotValue, CapacityAssumption DEF RingOK
    <3> QED BY <2>1, <3>1 DEF RingOK
  <2>3. messages'[Slot(head, count)] = m /\ Slot(head, count) \in Slots
    BY <2>1, SlotValue DEF RingOK
  <2>4. RingOK'
    <3>1. \A i \in 0 .. count' - 1 : messages'[Slot(head', i)] \in Message
      BY <2>1, <2>2, <2>3 DEF RingOK
    <3>2. tail' \in Slots /\ count' \in 0 .. QueueCapacity
      BY <2>1, SlotValue, CapacityAssumption DEF RingOK
    <3> QED BY <2>1, <2>3, <3>1, <3>2 DEF RingOK
  <2>5. Queued' = Append(Queued, m)
    <3>1. QueuedBySlot
      BY QueuedIsSeq
    <3>2. QueuedBySlot'
      BY <2>4, QueuedIsSeq, PTL
    <3>3. \A i \in 1 .. count + 1 : Queued'[i] = Append(Queued, m)[i]
      <4> TAKE i \in 1 .. count + 1
      <4>1. CASE i \in 1 .. count
        <5>1. /\ Queued[i] = messages[Slot(head, i - 1)]
              /\ Queued'[i] = messages'[Slot(head, i - 1)]
          BY <2>1, <3>1, <3>2, <4>1 DEF QueuedBySlot
        <5>2. messages'[Slot(head, i - 1)] = messages[Slot(head, i - 1)]
          BY <2>1, <2>2, <4>1
        <5> QED BY <3>1, <4>1, <5>1, <5>2 DEF QueuedBySlot
      <4>2. CASE i = count + 1
        BY <2>1, <2>3, <3>1, <3>2, <4>2 DEF QueuedBySlot
      <4>3. i \in 1 .. count \/ i = count + 1
        BY <2>1
      <4> QED BY <4>1, <4>2, <4>3
    <3> QED BY <2>1, <3>1, <3>2, <3>3 DEF QueuedBySlot
  <2>6. Len(Queued) < QueueCapacity
    BY <2>1, QueuedIsSeq, CapacityAssumption DEF QueuedBySlot
  <2> QED BY <2>1, <2>4, <2>5, <2>6 DEF Mailbox!Send
<1> QED BY <1>1, <1>2

\* A receive keeps the ring well-formed and takes the oldest message.
LEMMA RingReceive ==
    ASSUME RingOK, receive
    PROVE  RingOK' /\ Mailbox!Receive
<1>1. CASE count = 0
  <2>1. RingOK' /\ Queued' = Queued
    BY <1>1 DEF receive, RingOK, Queued
  <2> QED BY <1>1, <2>1, QueuedIsSeq DEF receive, Mailbox!Receive, QueuedBySlot
<1>2. CASE count # 0
  <2>1. /\ count \in 1 .. QueueCapacity /\ count - 1 \in 0 .. QueueCapacity - 1
        /\ messages' = [messages EXCEPT ![head] = None]
        /\ head' = Advance(head) /\ count' = count - 1 /\ tail' = tail
        /\ received' = messages[head] /\ accepted' = accepted
    BY <1>2, CapacityAssumption DEF receive, RingOK
  <2>2. /\ head' \in Slots
        /\ \A i \in 0 .. QueueCapacity - 1 : Slot(head', i) = Slot(head, i + 1)
    BY <2>1, SlotAdvance, CapacityAssumption DEF RingOK
  <2>3. \A i \in 0 .. count - 2 :
            /\ messages'[Slot(head', i)] = messages[Slot(head, i + 1)]
            /\ messages[Slot(head, i + 1)] \in Message
    <3> TAKE i \in 0 .. count - 2
    <3>1. Slot(head, 0) # Slot(head, i + 1) /\ Slot(head, i + 1) \in Slots
      BY <2>1, SlotsDistinct, SlotValue, CapacityAssumption DEF RingOK
    <3>2. Slot(head, 0) = head
      BY SlotAdvance, CapacityAssumption DEF RingOK
    <3>3. Slot(head', i) = Slot(head, i + 1)
      <4>1. i \in 0 .. QueueCapacity - 1
        BY <2>1, CapacityAssumption
      <4> QED BY <2>2, <4>1
    <3>4. messages'[Slot(head, i + 1)] = messages[Slot(head, i + 1)]
      BY <2>1, <3>1, <3>2 DEF RingOK
    <3>5. messages[Slot(head, i + 1)] \in Message
      <4>1. i + 1 \in 0 .. count - 1
        BY <2>1
      <4> QED BY <4>1 DEF RingOK
    <3> QED BY <3>3, <3>4, <3>5
  <2>4. RingOK'
    <3>1. \A i \in 0 .. count' - 1 : messages'[Slot(head', i)] \in Message
      BY <2>1, <2>3
    <3>2. tail' = Slot(head', count')
      BY <2>1, <2>2 DEF RingOK
    <3> QED BY <2>1, <2>2, <3>1, <3>2, CapacityAssumption DEF RingOK
  <2>5. Queued' = Tail(Queued) /\ received' = Head(Queued) /\ Queued # <<>>
    <3>1. QueuedBySlot
      BY QueuedIsSeq
    <3>2. QueuedBySlot'
      BY <2>4, QueuedIsSeq, PTL
    <3>3. Queued[1] = messages[head] /\ Queued # <<>>
      BY <2>1, <3>1, SlotAdvance, CapacityAssumption DEF RingOK, QueuedBySlot
    <3>4. \A i \in 1 .. count - 1 : Queued'[i] = Tail(Queued)[i]
      <4> TAKE i \in 1 .. count - 1
      <4>1. i - 1 \in 0 .. count - 2 /\ i + 1 \in 1 .. count /\ (i - 1) + 1 = i
            /\ (i + 1) - 1 = i
        BY <2>1
      <4>2. Queued'[i] = messages'[Slot(head', i - 1)]
        BY <2>1, <3>2 DEF QueuedBySlot
      <4>3. messages'[Slot(head', i - 1)] = messages[Slot(head, i)]
        BY <2>3, <4>1
      <4>4. Queued[i + 1] = messages[Slot(head, i)]
        BY <3>1, <4>1 DEF QueuedBySlot
      <4>5. Tail(Queued)[i] = Queued[i + 1]
        BY <2>1, <3>1 DEF QueuedBySlot
      <4> QED BY <4>2, <4>3, <4>4, <4>5
    <3> QED BY <2>1, <3>1, <3>2, <3>3, <3>4 DEF QueuedBySlot
  <2> QED BY <2>1, <2>4, <2>5 DEF Mailbox!Receive
<1> QED BY <1>1, <1>2

\* Every call on the ring returns and leaves behind what a bounded first-in
\* first-out queue would (MessageQueue::send and receive, message.rs:67-81).
THEOREM RingImplementsFifo == QueueSpec => MailboxIsFifo
<1>1. QueueInit => RingOK /\ Mailbox!Init
  BY RingInit DEF QueueInit, Mailbox!Init
<1>2. RingOK /\ [QueueNext]_queue_vars
          => RingOK' /\ [Mailbox!Next]_<<Queued, accepted, received>>
  <2> SUFFICES ASSUME RingOK, [QueueNext]_queue_vars
               PROVE  RingOK' /\ [Mailbox!Next]_<<Queued, accepted, received>>
    OBVIOUS
  <2>1. ASSUME NEW m \in Message, send(m)
        PROVE  RingOK' /\ Mailbox!Next
    BY <2>1, RingSend DEF Mailbox!Next
  <2>2. CASE receive
    BY <2>2, RingReceive DEF Mailbox!Next
  <2>3. CASE UNCHANGED queue_vars
    BY <2>3 DEF queue_vars, RingOK, Queued
  <2> QED BY <2>1, <2>2, <2>3 DEF QueueNext
<1> QED BY <1>1, <1>2, PTL DEF QueueSpec, MailboxIsFifo, Mailbox!Spec

=============================================================================
