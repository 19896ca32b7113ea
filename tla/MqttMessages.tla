---------------------------- MODULE MqttMessages ----------------------------
(***************************************************************************)
(* What the MQTT client says and hears, above the locks and queues of        *)
(* MqttClient: it announces its address on "iot/hosts" every INTERVAL        *)
(* milliseconds, and switches the LED on commands addressed to it.           *)
(*                                                                         *)
(* The milliseconds are those of the tick counter, a 32 bit number that wraps *)
(* to zero.  The product of ticks and milliseconds per tick wraps like the    *)
(* tick counter of a clock of one tick per millisecond.  The model starts     *)
(* when init has created the publisher's task.  Points in time are kept as      *)
(* ages, so that time needs no bound.                                        *)
(***************************************************************************)
EXTENDS Integers

CONSTANTS
    WORD,           \* 2^32
    INTERVAL,       \* of "iot/hosts": 5000
    POLL,           \* auto_publisher_task's delay: 500
    MAX_GAP,        \* the longest time between two readings of the clock
    Addresses       \* the addresses a router hands out

\* The time between two publications is less than a word.
ASSUME MessagesAssumption ==
    /\ WORD \in Nat /\ INTERVAL \in Nat \ {0} /\ POLL \in Nat /\ MAX_GAP \in Nat
    /\ INTERVAL + 2 * MAX_GAP < WORD
    /\ Addresses \intersect {"torn", "nothing", "dropped", "absent", "number"} = {}

\* What a command asks of the LED: its level, a level without a number, on (1) or off
\* (any number but 1, for which 2 stands); or it is no JSON object at all.
Asked == {"get", "missing", "1", "2", "garbage"}

\* "absent" is a command without the member "ip"; "number" stands for a member "ip"
\* that is no string.
Commands == [ip : Addresses \union {"torn", "absent", "number"}, asked : Asked]

VARIABLES
    ticks,          \* the counter
    auto,           \* auto_publisher_task: "sleep" or "round"
    sleep_age,      \* since it went to sleep
    tick_ms,        \* its reading of the counter
    read_age,       \* since that reading
    hosts,          \* "iot/hosts" in autoPublishers_: "none", "registered", or
                    \* "published" at least once
    registered_age, \* history: since registration, until the first publication
    lastPub,
    published_age,  \* history: since the reading that is lastPub
    period,         \* history: between the last two publications
    announced,      \* the address in the last announcement, or "dropped", when it was
                    \* lost because publish_queue_ was full
    self_ip,        \* the address
    ip_age,         \* history: since it changed last
    level,          \* of the LED's pin: "input" until it is initialized, "off" or "on"
    answer,         \* the value of "led" in the last answer, and whether that was to a
                    \* SET for this device
    commanded       \* history: the level asked for by the last such SET since the start

task == <<auto, sleep_age, tick_ms, read_age>>
publisher == <<hosts, registered_age, lastPub, published_age, period, announced>>
address == <<self_ip, ip_age>>
led == <<level, answer, commanded>>
vars == <<ticks, task, publisher, address, led>>

Init ==
    /\ ticks \in 0 .. WORD - 1
    /\ auto = "sleep" /\ sleep_age = 0 /\ tick_ms = ticks /\ read_age = 0
    /\ hosts = "none" /\ registered_age = 0 /\ lastPub = 0
    /\ published_age = 0 /\ period = 0 /\ announced = "nothing"
    /\ self_ip \in Addresses /\ ip_age = 0
    /\ level = "input"
    /\ answer = [led |-> "missing", to |-> "other"]
    /\ commanded = "none"

-----------------------------------------------------------------------------
\* An age counts up to a word, where all of them have lost their interest.
older(age) == IF age < WORD THEN age + 1 ELSE age

\* A number of more than a word (faulty).
next_wide(t) == t + 1

next_tick(t) == IF t + 1 = WORD THEN 0 ELSE t + 1

\* A millisecond passes.  The task reads the clock every MAX_GAP milliseconds or more
\* often: its delay, one round, and what tasks of higher priority take from it.
Tick ==
    /\ read_age + (IF auto = "round" THEN POLL ELSE 0) < MAX_GAP
    /\ ticks' = next_tick(ticks)
    /\ read_age' = read_age + 1
    /\ sleep_age' = IF auto = "sleep" /\ sleep_age < POLL THEN sleep_age + 1 ELSE sleep_age
    /\ registered_age' = IF hosts = "registered" THEN older(registered_age) ELSE 0
    /\ published_age' = IF hosts = "published" THEN older(published_age) ELSE 0
    /\ ip_age' = older(ip_age)
    /\ UNCHANGED <<auto, tick_ms, hosts, lastPub, period, announced, self_ip, led>>

-----------------------------------------------------------------------------
(* The periodic publisher.                                                   *)

\* registerPublisher, on the first MQTT_CONNECTED.
registerPublisher ==
    /\ hosts = "none"
    /\ hosts' = "registered" /\ registered_age' = 0 /\ lastPub' = 0
    /\ UNCHANGED <<ticks, task, published_age, period, announced, address, led>>

\* Awake again, the task reads the clock before it waits for pub_mutex_.
wake ==
    /\ auto = "sleep" /\ sleep_age >= POLL
    /\ auto' = "round"
    /\ tick_ms' = ticks /\ read_age' = 0
    /\ UNCHANGED <<ticks, sleep_age, publisher, address, led>>

\* Comparing points in time instead of a difference (faulty).
due_after(t, last) == t >= last + INTERVAL

\* (tick_ms - pub.lastPub) >= pub.interval, a difference of unsigned numbers.
due(t, last) == (IF t >= last THEN t - last ELSE t - last + WORD) >= INTERVAL

\* Announcing the address of the first time for ever (faulty).
compose_once == IF hosts = "published" THEN announced ELSE self_ip

\* The callback composes the announcement from the address.
compose == self_ip

\* The announcement is offered to the queue, and is the last one for this period even
\* if the queue is full.
publish == lastPub' = tick_ms /\ announced' \in {compose, "dropped"}

due_now == hosts # "none" /\ due(tick_ms, lastPub)

round ==
    /\ auto = "round"
    /\ auto' = "sleep" /\ sleep_age' = 0
    /\ \/ /\ due_now
          /\ publish
          /\ hosts' = "published" /\ published_age' = read_age /\ registered_age' = 0
          /\ period' = IF hosts = "published" THEN published_age - read_age ELSE period
       \/ ~due_now /\ UNCHANGED publisher
    /\ UNCHANGED <<ticks, tick_ms, read_age, address, led>>

auto_publisher_task == wake \/ round

-----------------------------------------------------------------------------
\* WIFI_STA_CONNECTED: on_event copies the address over the old one, byte by byte,
\* while other tasks read it.
on_wifi_sta_connected ==
    /\ \/ self_ip # "torn" /\ self_ip' = "torn"
       \/ self_ip = "torn" /\ self_ip' \in Addresses
    /\ ip_age' = 0
    /\ UNCHANGED <<ticks, task, publisher, led>>

-----------------------------------------------------------------------------
(* The actuator "iot/led".                                                   *)

\* cJSON_GetStringValue of a member that is no string is NULL, and strcmp follows it:
\* the device panics and boots again.  Everything is lost, and the pin is an input.
restart ==
    /\ ticks' \in 0 .. WORD - 1
    /\ auto' = "sleep" /\ sleep_age' = 0 /\ tick_ms' = ticks' /\ read_age' = 0
    /\ hosts' = "none" /\ registered_age' = 0 /\ lastPub' = 0
    /\ published_age' = 0 /\ period' = 0 /\ announced' = "nothing"
    /\ self_ip' \in Addresses /\ ip_age' = 0
    /\ level' = "input"
    /\ answer' = [led |-> "missing", to |-> "other"]
    /\ commanded' = "none"

\* on and off: LedManager::init, once, then the level.
on_off(v) == level' = v

\* isOn: init, once, makes the pin an output at level 0.  The answer is 0, because the
\* level read from a pin that is configured as output only is 0.
isOn == level' = IF level = "input" THEN "off" ELSE level

\* A SET with a number switches the LED and answers with what it did.
Set(asked) ==
    /\ on_off(IF asked = "1" THEN "on" ELSE "off")
    /\ answer' = [led |-> IF asked = "1" THEN "1" ELSE "0", to |-> "SET"]

\* The handler that app_main registers.  GET reads the pin; a SET without a number
\* changes nothing.
handler(asked) ==
    \/ /\ asked = "get" /\ isOn
       /\ answer' = [led |-> "0", to |-> "other"]
    \/ /\ asked = "missing"
       /\ answer' = [led |-> "missing", to |-> "other"]
       /\ UNCHANGED level
    \/ asked \in {"1", "2"} /\ Set(asked)

\* Calling the handler for any address (faulty).
AnyAddress(ip) == ip # "absent"

\* The filter: NONE and SAME_IP are the same number, so that the address is compared
\* for every actuator; without an "ip" the handler is not called.
for_me(ip) == ip = self_ip

\* The device gets as far as comparing the address, if there is anything to compare.
compared(cmd) == cmd.asked # "garbage" /\ cmd.ip # "number"

\* MQTT_EVENT_DATA.  A JSON object is answered in any case, by a copy of the command
\* if the handler was not called, unless its "ip" is no string.
actuator(cmd) ==
    /\ \/ /\ cmd.asked = "garbage"
          /\ UNCHANGED <<level, answer>>
       \/ /\ compared(cmd) /\ for_me(cmd.ip)
          /\ handler(cmd.asked)
       \/ /\ compared(cmd) /\ ~for_me(cmd.ip)
          /\ answer' = [led |-> IF cmd.asked = "get" THEN "missing" ELSE cmd.asked,
                        to |-> "other"]
          /\ UNCHANGED level
    /\ commanded' = IF cmd.ip = self_ip /\ cmd.asked \in {"1", "2"}
                    THEN IF cmd.asked = "1" THEN "on" ELSE "off"
                    ELSE commanded
    /\ UNCHANGED <<ticks, task, publisher, address>>

\* The command that is read through the null pointer.
actuator_null(cmd) == cmd.asked # "garbage" /\ cmd.ip = "number" /\ restart

Next ==
    \/ Tick
    \/ registerPublisher \/ auto_publisher_task
    \/ on_wifi_sta_connected
    \/ \E cmd \in Commands : actuator(cmd) \/ actuator_null(cmd)

Spec == Init /\ [][Next]_vars

-----------------------------------------------------------------------------
TaskTypeOK ==
    /\ ticks \in 0 .. WORD - 1
    /\ auto \in {"sleep", "round"} /\ sleep_age \in 0 .. POLL
    /\ tick_ms \in 0 .. WORD - 1 /\ read_age \in 0 .. MAX_GAP

PublisherTypeOK ==
    /\ hosts \in {"none", "registered", "published"} /\ registered_age \in 0 .. WORD
    /\ lastPub \in 0 .. WORD - 1
    /\ published_age \in 0 .. WORD /\ period \in 0 .. WORD
    /\ announced \in Addresses \union {"torn", "nothing", "dropped"}

AddressTypeOK == self_ip \in Addresses \union {"torn"} /\ ip_age \in 0 .. WORD

LedTypeOK ==
    /\ level \in {"input", "off", "on"}
    /\ answer \in [led : {"missing", "0", "1", "2"}, to : {"SET", "other"}]
    /\ commanded \in {"none", "off", "on"}

\* Every variable has a value of its type; the counter and what is read from it
\* (MqttClient.hpp:350) stay within a word.
TypeOK == TaskTypeOK /\ PublisherTypeOK /\ AddressTypeOK /\ LedTypeOK

\* The announcement is on time across every wrap of the counter: after each round of
\* auto_publisher_task the last one is less than INTERVAL old, or, before the first
\* one, the registration less than INTERVAL + MAX_GAP; and two of them are at least
\* INTERVAL and less than INTERVAL + MAX_GAP apart.
OnTime ==
    /\ auto = "sleep" /\ hosts = "published" => published_age - read_age < INTERVAL
    /\ auto = "sleep" /\ hosts = "registered"
          => registered_age - read_age < INTERVAL + MAX_GAP
    /\ period = 0 \/ period \in INTERVAL .. INTERVAL + MAX_GAP - 1

\* A changed address becomes known, although it is copied without a lock while the
\* publisher may be reading it and although a full queue drops an announcement for
\* good: the last one announces the address the device has, once that is as old as a
\* period, unless it was dropped.
AddressKnown ==
    auto = "sleep" /\ hosts = "published" /\ ip_age - read_age >= INTERVAL
    => announced \in {self_ip, "dropped"}

\* Since the device started the LED is as the last SET for this very address left it,
\* whatever was asked for others, without an address or while the address changed, and
\* the answer to a SET tells what the LED does (main.cpp:64).  A command whose "ip" is
\* no string ends this, for it restarts the device (MqttClient.hpp:133): the LED is off
\* then until the next SET.
LedObeys ==
    /\ IF commanded = "none" THEN level # "on" ELSE level = commanded
    /\ answer.to = "SET" => answer.led = IF level = "on" THEN "1" ELSE "0"
=============================================================================
