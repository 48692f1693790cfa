-------------------------------- MODULE Fifo --------------------------------
(***************************************************************************)
(* What a mailbox promises: a bounded first-in first-out queue whose calls *)
(* return what such a queue returns: accepted is the value returned by the *)
(* last send, received the one returned by the last receive.               *)
(***************************************************************************)
EXTENDS Integers, Sequences

CONSTANTS Message, QueueCapacity, None

VARIABLES queue, accepted, received

Init == queue = <<>> /\ accepted = TRUE /\ received = None

Send(m) ==
    /\ received' = received
    /\ IF Len(queue) < QueueCapacity
       THEN queue' = Append(queue, m) /\ accepted' = TRUE
       ELSE queue' = queue /\ accepted' = FALSE

Receive ==
    /\ accepted' = accepted
    /\ IF queue = <<>>
       THEN queue' = queue /\ received' = None
       ELSE queue' = Tail(queue) /\ received' = Head(queue)

Next == (\E m \in Message : Send(m)) \/ Receive

Spec == Init /\ [][Next]_<<queue, accepted, received>>

=============================================================================
