---------------------------- MODULE MessageQueue ----------------------------
(***************************************************************************)
(* The mailbox of a process as the kernel implements it: a ring of         *)
(* QUEUE_CAPACITY optional messages with head, tail and count              *)
(* (crates/core-kernel/src/ipc/message.rs).  Kernel.tla uses the sequence  *)
(* it stands for; the ring is shown to implement Fifo.                     *)
(***************************************************************************)
EXTENDS Integers, Sequences

CONSTANTS Message,        \* the messages
          QueueCapacity,  \* QUEUE_CAPACITY, 16 in the code
          None            \* an empty slot; what receive returns when empty

ASSUME CapacityAssumption == QueueCapacity \in Nat \ {0}
ASSUME NoneAssumption == None \notin Message

VARIABLES messages, head, tail, count,
          accepted,  \* what the last send returned
          received   \* what the last receive returned

queue_vars == <<messages, head, tail, count, accepted, received>>

Slots == 0 .. QueueCapacity - 1

NotWrapped(i) == IF i < QueueCapacity - 1 THEN i + 1 ELSE i  \* mutant
Advance(i)    == (i + 1) % QueueCapacity

QueueInit ==
    /\ messages = [i \in Slots |-> None]
    /\ head = 0 /\ tail = 0 /\ count = 0
    /\ accepted = TRUE /\ received = None

send(m) ==
    IF count >= QueueCapacity
    THEN /\ accepted' = FALSE
         /\ UNCHANGED <<messages, head, tail, count, received>>
    ELSE /\ messages' = [messages EXCEPT ![tail] = m]
         /\ tail' = Advance(tail)
         /\ count' = count + 1
         /\ accepted' = TRUE
         /\ UNCHANGED <<head, received>>

receive ==
    IF count = 0
    THEN /\ received' = None
         /\ UNCHANGED <<messages, head, tail, count, accepted>>
    ELSE /\ received' = messages[head]
         /\ messages' = [messages EXCEPT ![head] = None]
         /\ head' = Advance(head)
         /\ count' = count - 1
         /\ UNCHANGED <<tail, accepted>>

QueueNext == (\E m \in Message : send(m)) \/ receive

QueueSpec == QueueInit /\ [][QueueNext]_queue_vars

\* The sequence the ring stands for.
Queued == [i \in 1 .. count |-> messages[(head + i - 1) % QueueCapacity]]

Mailbox == INSTANCE Fifo WITH queue <- Queued

\* The ring returns to every call what a bounded first-in first-out queue
\* returns, however often its indices have wrapped
\* (crates/core-kernel/src/ipc/message.rs:67-81).
MailboxIsFifo == Mailbox!Spec

=============================================================================
