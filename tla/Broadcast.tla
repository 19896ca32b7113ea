----------------------------- MODULE Broadcast -----------------------------
(***************************************************************************)
(* What the event bus promises, without queue, mutex or task: the accepted  *)
(* events form one log, and the subscribers go through it together.  Nobody *)
(* gets event n + 1 before everybody has had event n, and within one event  *)
(* they are served in the order in which they joined.                       *)
(***************************************************************************)
EXTENDS Naturals, Sequences

CONSTANT Event

VARIABLES
    log,        \* the accepted events, in order
    finished,   \* how many of them every subscriber has had
    start,      \* start[k] events were finished when subscriber k joined
    heard       \* heard[k] is what subscriber k was given

vars == <<log, finished, start, heard>>

Subscriber == DOMAIN heard

Has(k) == start[k] + Len(heard[k])

Init ==
    /\ log = << >>
    /\ finished = 0
    /\ start = << >>
    /\ heard = << >>

Accept(e) ==
    /\ log' = Append(log, e)
    /\ UNCHANGED <<finished, start, heard>>

\* Only between two events does the set of subscribers change.
Join ==
    /\ \A k \in Subscriber : Has(k) = finished
    /\ start' = Append(start, finished)
    /\ heard' = Append(heard, << >>)
    /\ UNCHANGED <<log, finished>>

\* Subscriber k may cause one more event to be accepted as it handles its own.
Deliver(k) ==
    /\ finished < Len(log)
    /\ Has(k) = finished
    /\ \A j \in 1 .. k - 1 : Has(j) = finished + 1
    /\ heard' = [heard EXCEPT ![k] = Append(@, log[finished + 1])]
    /\ \/ log' = log
       \/ \E e \in Event : log' = Append(log, e)
    /\ UNCHANGED <<finished, start>>

Finish ==
    /\ finished < Len(log)
    /\ \A k \in Subscriber : Has(k) = finished + 1
    /\ finished' = finished + 1
    /\ UNCHANGED <<log, start, heard>>

Progress == Finish \/ \E k \in Subscriber : Deliver(k)

Next == Join \/ Progress \/ \E e \in Event : Accept(e)

SafeSpec == Init /\ [][Next]_vars

Spec == SafeSpec /\ WF_vars(Progress)
=============================================================================
