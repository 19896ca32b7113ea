------------------------------- MODULE BusOps -------------------------------
(***************************************************************************)
(* What EventBus::emit does to the FreeRTOS queue behind the bus, shared by *)
(* every module in which a task or a callback emits an event.               *)
(***************************************************************************)
EXTENDS Naturals, Sequences

CONSTANT QUEUE_LEN      \* EventBus::QUEUE_LEN, 10 in event_bus.h

ASSUME QueueLenAssumption == QUEUE_LEN \in Nat \ {0}

HasRoom(queue) == Len(queue) < QUEUE_LEN

\* Faulty variants of Offer, with which the runs show that their properties can
\* fail: an off-by-one in the capacity, and a queue that makes room by
\* forgetting its oldest event.
OfferOneTooMany(queue, event) ==
    IF Len(queue) <= QUEUE_LEN THEN Append(queue, event) ELSE queue

OfferOverwriting(queue, event) ==
    Append(IF HasRoom(queue) THEN queue ELSE Tail(queue), event)

\* xQueueSend with a timeout of 0: the event goes to the back of the queue, or
\* is dropped without a word when the queue is full.  The caller never waits.
Offer(queue, event) ==
    IF HasRoom(queue) THEN Append(queue, event) ELSE queue
=============================================================================
