----------------------------- MODULE ApiService -----------------------------
(***************************************************************************)
(* What the web API promises its clients about the station configuration,   *)
(* without bus, response queues or tasks: every request is served in one     *)
(* instant between its arrival and its response, or not at all.              *)
(*                                                                         *)
(* A response that shows something shows what its own request was served     *)
(* with.  A request that was not served left no trace: nothing of it happens *)
(* later.                                                                   *)
(***************************************************************************)
EXTENDS Integers

CONSTANTS
    Default,        \* the configuration at first
    AfterRestart    \* what a restart may make of the configuration

\* "write" sets the configuration, "read" shows it, "other" does neither.
Sorts == {"read", "write", "other"}

VARIABLES
    config,     \* the configuration in effect: the number of the write that set it
    arrived,    \* how many requests have arrived
    current,    \* the request that has no response yet
    response    \* the last response

vars == <<config, arrived, current, response>>

Idle == [id |-> 0, sort |-> "other", stage |-> "idle", shows |-> Default]

Silent(id, sort) ==
    [id |-> id, sort |-> sort, status |-> "error", by |-> 0, shows |-> Default]

Init ==
    /\ config = Default
    /\ arrived = 0
    /\ current = Idle
    /\ response = [Silent(0, "other") EXCEPT !.status = "none"]

Arrive(sort) ==
    /\ current = Idle
    /\ arrived' = arrived + 1
    /\ current' = [id |-> arrived', sort |-> sort, stage |-> "waiting", shows |-> Default]
    /\ UNCHANGED <<config, response>>

\* The instant of the request: it takes effect, and what it shows is settled.
Serve ==
    /\ current.stage = "waiting"
    /\ config' = IF current.sort = "write" THEN current.id ELSE config
    /\ current' = [id |-> current.id, sort |-> current.sort, stage |-> "served",
                   shows |-> IF current.sort = "read" THEN config ELSE Default]
    /\ UNCHANGED <<arrived, response>>

\* Reads and writes that were served are answered 200; what other requests are
\* told is up to them.
Respond ==
    /\ current.stage = "served"
    /\ \E status \in {"ok", "error"} :
          /\ current.sort # "other" => status = "ok"
          /\ response' = [id |-> current.id, sort |-> current.sort, status |-> status,
                          by |-> current.id, shows |-> current.shows]
    /\ current' = Idle
    /\ UNCHANGED <<config, arrived>>

GiveUp ==
    /\ current.stage = "waiting"
    /\ response' = Silent(current.id, current.sort)
    /\ current' = Idle
    /\ UNCHANGED <<config, arrived>>

\* A request that cannot be read is no request.
Reject ==
    /\ current = Idle
    /\ arrived' = arrived + 1
    /\ response' = Silent(arrived', "other")
    /\ UNCHANGED <<config, current>>

Restart ==
    /\ config' \in AfterRestart
    /\ current' = Idle
    /\ UNCHANGED <<arrived, response>>

Next == (\E sort \in Sorts : Arrive(sort)) \/ Serve \/ Respond \/ GiveUp \/ Reject \/ Restart

Spec == Init /\ [][Next]_vars
=============================================================================
