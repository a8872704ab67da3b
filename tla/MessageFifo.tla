---------------------------- MODULE MessageFifo ----------------------------
(***************************************************************************)
(* What the kernel-to-daemon message ring promises, without memory, slots  *)
(* or indices: a bounded first-in first-out queue whose consumer looks at  *)
(* the oldest message, handles it, and only then takes it off.  A consumer *)
(* that dies while handling a message leaves it at the head of the queue,  *)
(* so delivery is at least once and in order.                              *)
(***************************************************************************)
EXTENDS Naturals, Sequences

CONSTANTS Messages,  \* what may be published
          Capacity,  \* how many published messages the queue holds
          None       \* "no message is being handled"

VARIABLES queue,     \* published and not yet taken off, oldest first
          handling   \* the message the consumer is handling, or None

Init == /\ queue = <<>>
        /\ handling = None

Publish == /\ Len(queue) < Capacity
           /\ \E m \in Messages : queue' = Append(queue, m)
           /\ UNCHANGED handling

Handle == /\ queue # <<>>
          /\ handling = None
          /\ handling' = Head(queue)
          /\ UNCHANGED queue

Finish == /\ handling # None
          /\ queue' = Tail(queue)
          /\ handling' = None

Abandon == /\ handling # None
           /\ handling' = None
           /\ UNCHANGED queue

Next == Publish \/ Handle \/ Finish \/ Abandon

Spec == Init /\ [][Next]_<<queue, handling>>
=============================================================================
