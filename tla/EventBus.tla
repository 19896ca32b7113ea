------------------------------ MODULE EventBus ------------------------------
(***************************************************************************)
(* The event bus of main/bus_event: any task emits into one bounded queue, *)
(* one task ("eventbus_task") takes the events out and calls, for each of   *)
(* them, every registered callback in registration order while it holds     *)
(* sub_mutex.  Callbacks run on the bus task and may themselves emit.       *)
(*                                                                         *)
(* An event is the number of the emit call that produced it, so that a      *)
(* loss, a repetition or a change of order can be told from the numbers.    *)
(***************************************************************************)
EXTENDS BusOps

CONSTANTS
    Callbacks,      \* the functions a module may register
    Repliers,       \* those that may emit an event when they are called
    MaxEmits,       \* bound on the number of emit calls
    MaxSubs         \* bound on the number of registrations

ASSUME BusAssumption ==
    /\ Repliers \subseteq Callbacks
    /\ MaxEmits \in Nat
    /\ MaxSubs \in Nat

VARIABLES
    evt_queue,      \* contents of the FreeRTOS queue
    subscribers,    \* the vector of callbacks; a callback may occur twice
    sub_mutex,      \* "free", or "bus" while the bus task dispatches
    pc,             \* where the bus task is: "receive", "lock" or "dispatch"
    evt,            \* the static Event the bus task received last (0: none yet)
    cursor,         \* position of the loop over subscribers
    emitted,        \* history: number of emit calls so far
    accepted,       \* history: the events xQueueSend accepted, in order
    finished,       \* history: number of events whose dispatch is over
    seen,           \* history: seen[k] is what registration k was called with
    from            \* history: from[k] events were over when k registered

vars == <<evt_queue, subscribers, sub_mutex, pc, evt, cursor,
          emitted, accepted, finished, seen, from>>

\* The number of events the bus task has received.
Taken == IF pc = "receive" THEN finished ELSE finished + 1

\* The number of the last accepted event that registration k has handled.
Reached(k) == from[k] + Len(seen[k])

Init ==
    /\ evt_queue = << >>
    /\ subscribers = << >>
    /\ sub_mutex = "free"
    /\ pc = "receive"
    /\ evt = 0
    /\ cursor = 1
    /\ emitted = 0
    /\ accepted = << >>
    /\ finished = 0
    /\ seen = << >>
    /\ from = << >>

-----------------------------------------------------------------------------
(* Faulty variants of the operations below, for the runs' properties to fail  *)
(* on.                                                                        *)

\* an emit that waits (portMAX_DELAY) until the queue has room
CallbackBlocking ==
    /\ pc = "dispatch"
    /\ cursor <= Len(subscribers)
    /\ seen' = [seen EXCEPT ![cursor] = Append(@, evt)]
    /\ cursor' = cursor + 1
    /\ IF subscribers[cursor] \in Repliers /\ emitted < MaxEmits
       THEN /\ HasRoom(evt_queue)
            /\ emitted' = emitted + 1
            /\ evt_queue' = Append(evt_queue, emitted')
            /\ accepted' = Append(accepted, emitted')
       ELSE UNCHANGED <<evt_queue, emitted, accepted>>
    /\ UNCHANGED <<subscribers, sub_mutex, pc, evt, finished, from>>

-----------------------------------------------------------------------------
\* subscribe: the lock_guard makes the push_back wait for a dispatch to end.
Subscribe(c) ==
    /\ Len(subscribers) < MaxSubs
    /\ sub_mutex = "free"
    /\ subscribers' = Append(subscribers, c)
    /\ seen' = Append(seen, << >>)
    /\ from' = Append(from, finished)
    /\ UNCHANGED <<evt_queue, sub_mutex, pc, evt, cursor, emitted, accepted, finished>>

\* emit, whoever calls it: history kept beside the queue.
Emit ==
    /\ emitted < MaxEmits
    /\ emitted' = emitted + 1
    /\ evt_queue' = Offer(evt_queue, emitted')
    /\ accepted' = IF HasRoom(evt_queue)
                   THEN Append(accepted, emitted') ELSE accepted

TaskEmit ==
    /\ Emit
    /\ UNCHANGED <<subscribers, sub_mutex, pc, evt, cursor, finished, seen, from>>

-----------------------------------------------------------------------------
(* The bus task.  The vTaskDelay(1) after a dispatch is the time that may    *)
(* pass in "receive".                                                        *)

Receive ==
    /\ pc = "receive"
    /\ evt_queue # << >>
    /\ evt' = Head(evt_queue)
    /\ evt_queue' = Tail(evt_queue)
    /\ pc' = "lock"
    /\ UNCHANGED <<subscribers, sub_mutex, cursor, emitted, accepted, finished, seen, from>>

Lock ==
    /\ pc = "lock"
    /\ sub_mutex = "free"
    /\ sub_mutex' = "bus"
    /\ cursor' = 1
    /\ pc' = "dispatch"
    /\ UNCHANGED <<evt_queue, subscribers, evt, emitted, accepted, finished, seen, from>>

\* cb(&evt): the callback may emit; an exception it throws is caught, and the
\* loop goes on with the next registration as after a normal return.
Callback ==
    /\ pc = "dispatch"
    /\ cursor <= Len(subscribers)
    /\ seen' = [seen EXCEPT ![cursor] = Append(@, evt)]
    /\ cursor' = cursor + 1
    /\ \/ UNCHANGED <<evt_queue, emitted, accepted>>
       \/ subscribers[cursor] \in Repliers /\ Emit
    /\ UNCHANGED <<subscribers, sub_mutex, pc, evt, finished, from>>

Unlock ==
    /\ pc = "dispatch"
    /\ cursor > Len(subscribers)
    /\ sub_mutex' = "free"
    /\ pc' = "receive"
    /\ finished' = finished + 1
    /\ UNCHANGED <<evt_queue, subscribers, evt, cursor, emitted, accepted, seen, from>>

eventbus_task == Receive \/ Lock \/ Callback \/ Unlock

Next ==
    \/ \E c \in Callbacks : Subscribe(c)
    \/ TaskEmit
    \/ eventbus_task

\* The bus task has priority 5 and nothing in a dispatch waits for another
\* task, so its steps happen; nobody owes an emit or a registration.
Spec == Init /\ [][Next]_vars /\ WF_vars(eventbus_task)

-----------------------------------------------------------------------------
TypeOK ==
    /\ evt_queue \in Seq(Nat) /\ Len(evt_queue) <= QUEUE_LEN
    /\ subscribers \in Seq(Callbacks)
    /\ sub_mutex \in {"free", "bus"}
    /\ pc \in {"receive", "lock", "dispatch"}
    /\ evt \in Nat
    /\ cursor \in 1 .. Len(subscribers) + 1
    /\ emitted \in Nat
    /\ accepted \in Seq(Nat)
    /\ finished \in Nat
    /\ seen \in Seq(Seq(Nat)) /\ Len(seen) = Len(subscribers)
    /\ from \in Seq(Nat) /\ Len(from) = Len(subscribers)

\* What the queue still holds is exactly the accepted events the bus task has
\* not received, oldest first: after xQueueSend said yes, an event is never
\* lost, repeated or overtaken, not even by what callbacks emit meanwhile.
QueueIsBacklog ==
    /\ Len(accepted) = Taken + Len(evt_queue)
    /\ \A j \in 1 .. Len(evt_queue) : evt_queue[j] = accepted[Taken + j]

\* Every registration has been called with a contiguous run of the accepted
\* events, in order and once each, beginning with the first one whose dispatch
\* was not over when it registered: a subscriber that registers between the
\* bus task's receive and its lock still gets the event in hand.
DeliveredInOrder ==
    \A k \in DOMAIN seen :
        /\ Reached(k) <= Len(accepted)
        /\ \A j \in 1 .. Len(seen[k]) : seen[k][j] = accepted[from[k] + j]

\* No registration runs ahead of another: all have handled every finished
\* event, and during a dispatch the ones before the cursor the event in hand.
Lockstep ==
    \A k \in DOMAIN seen :
        Reached(k) = IF pc = "dispatch" /\ k < cursor THEN finished + 1 ELSE finished

\* The vector the bus task iterates over does not move under the iterator
\* (a push_back may reallocate it): it is unchanged while a dispatch goes on.
ListStillInDispatch ==
    [][pc = "dispatch" => subscribers' = subscribers]_vars

-----------------------------------------------------------------------------
(* The bus implements a broadcast in lockstep.                               *)

Abs == INSTANCE Broadcast WITH
    Event <- 1 .. MaxEmits,
    log <- accepted,
    start <- from,
    heard <- seen

ImplementsBroadcast == Abs!Spec

=============================================================================
