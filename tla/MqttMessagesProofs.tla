-------------------------- MODULE MqttMessagesProofs --------------------------
(***************************************************************************)
(* The announcement is on time and right for every width of the counter,     *)
(* every period and delay, from every start of the counter, across every     *)
(* wrap; the LED obeys the commands for this device and no others.           *)
(*                                                                         *)
(* The unsigned difference of two readings is the time between them, as long *)
(* as that is less than a word; the invariant Timing keeps it so.            *)
(***************************************************************************)
EXTENDS MqttMessages, TLAPS

\* The number t is age steps of the counter after the number last.
After(t, last, age) == t = last + age \/ t = last + age - WORD

\* The reading, and lastPub, are as far behind the counter as they are old; the first
\* publication depends on the counter itself, of which lastPub is the zero.
Timing ==
    /\ After(ticks, tick_ms, read_age)
    /\ hosts = "published" =>
          /\ After(ticks, lastPub, published_age)
          /\ published_age >= read_age
          /\ published_age - read_age < INTERVAL + MAX_GAP
          /\ auto = "sleep" => published_age - read_age < INTERVAL
    /\ hosts = "registered" =>
          /\ lastPub = 0
          /\ registered_age - read_age <= MAX_GAP + tick_ms
          /\ auto = "sleep" => registered_age <= read_age \/ tick_ms < INTERVAL
    /\ period = 0 \/ period \in INTERVAL .. INTERVAL + MAX_GAP - 1

\* What was announced is the address, unless that changed since.
Fresh == hosts = "published" => announced \in {self_ip, "dropped"} \/ ip_age <= published_age

IInv == TaskTypeOK /\ PublisherTypeOK /\ AddressTypeOK /\ Timing /\ Fresh

-----------------------------------------------------------------------------
LEMMA InitIInv == Init => IInv
<1> SUFFICES ASSUME Init PROVE IInv
  OBVIOUS
<1>1. TaskTypeOK /\ PublisherTypeOK /\ AddressTypeOK
  BY MessagesAssumption
  DEF Init, TaskTypeOK, PublisherTypeOK, AddressTypeOK, MessagesAssumption
<1>2. Timing
  BY MessagesAssumption DEF Init, Timing, After, MessagesAssumption
<1>3. Fresh
  BY DEF Init, Fresh
<1> QED
  BY <1>1, <1>2, <1>3 DEF IInv

\* A millisecond more: every age grows with the counter.
LEMMA TickIInv == IInv /\ Tick => IInv'
<1> SUFFICES ASSUME IInv, Tick PROVE IInv'
  OBVIOUS
<1> USE MessagesAssumption DEF MessagesAssumption, IInv, TaskTypeOK, PublisherTypeOK,
    AddressTypeOK
<1>1. TaskTypeOK'
  BY DEF Tick, next_tick
<1>2. PublisherTypeOK' /\ AddressTypeOK'
  BY DEF Tick, older
<1>3. After(ticks, tick_ms, read_age)'
  BY DEF Tick, next_tick, Timing, After
<1>4. hosts = "published" => published_age < WORD - 1
  BY DEF Tick, Timing
<1>5. hosts = "published" => After(ticks, lastPub, published_age)' /\ published_age' = published_age + 1
  BY <1>4 DEF Tick, next_tick, older, Timing, After
<1>6. Timing'
  BY <1>3, <1>4, <1>5 DEF Tick, older, Timing
<1>7. Fresh'
  BY <1>5 DEF Tick, older, Fresh
<1> QED
  BY <1>1, <1>2, <1>6, <1>7 DEF IInv

LEMMA RegisterIInv == IInv /\ registerPublisher => IInv'
<1> SUFFICES ASSUME IInv, registerPublisher PROVE IInv'
  OBVIOUS
<1> USE MessagesAssumption DEF MessagesAssumption, IInv, TaskTypeOK, PublisherTypeOK,
    AddressTypeOK, registerPublisher, task, address
<1>1. TaskTypeOK' /\ PublisherTypeOK' /\ AddressTypeOK'
  OBVIOUS
<1>2. Timing' /\ Fresh'
  BY DEF Timing, Fresh, After
<1> QED
  BY <1>1, <1>2 DEF IInv

\* A new reading is what is now the counter.
LEMMA WakeIInv == IInv /\ wake => IInv'
<1> SUFFICES ASSUME IInv, wake PROVE IInv'
  OBVIOUS
<1> USE MessagesAssumption DEF MessagesAssumption, IInv, TaskTypeOK, PublisherTypeOK,
    AddressTypeOK, wake, publisher, address
<1>1. TaskTypeOK' /\ PublisherTypeOK' /\ AddressTypeOK'
  OBVIOUS
<1>2. hosts = "registered" => registered_age <= MAX_GAP + ticks
  <2>1. CASE registered_age <= read_age
    BY <2>1
  <2>2. ASSUME hosts = "registered", tick_ms < INTERVAL
        PROVE  registered_age <= MAX_GAP + ticks
    <3>1. ticks = tick_ms + read_age
      BY <2>2 DEF Timing, After
    <3> QED
      BY <2>2, <3>1 DEF Timing
  <2> QED
    BY <2>1, <2>2 DEF Timing
<1>3. Timing' /\ Fresh'
  BY <1>2 DEF Timing, Fresh, After
<1> QED
  BY <1>1, <1>3 DEF IInv

\* What is due is at least INTERVAL old, what is not is younger.
LEMMA RoundIInv == IInv /\ round => IInv'
<1> SUFFICES ASSUME IInv, round PROVE IInv'
  OBVIOUS
<1> USE MessagesAssumption DEF MessagesAssumption, IInv, TaskTypeOK, PublisherTypeOK,
    AddressTypeOK
<1>1. TaskTypeOK' /\ AddressTypeOK'
  BY DEF round, address
<1>2. hosts = "published" => After(tick_ms, lastPub, published_age - read_age)
  BY DEF Timing, After
<1>3. hosts = "published" => (due(tick_ms, lastPub) <=> published_age - read_age >= INTERVAL)
  BY <1>2 DEF due, After, Timing
<1>4. hosts = "registered" => (due(tick_ms, lastPub) <=> tick_ms >= INTERVAL)
  BY DEF due, Timing
<1>5. CASE due_now
  <2>1. /\ lastPub' = tick_ms /\ hosts' = "published"
        /\ published_age' = read_age /\ registered_age' = 0
        /\ period' = IF hosts = "published" THEN published_age - read_age ELSE period
        /\ announced' \in {self_ip, "dropped"}
        /\ auto' = "sleep"
        /\ UNCHANGED <<ticks, tick_ms, read_age, self_ip, ip_age>>
    BY <1>5 DEF round, publish, compose, address
  <2>2. hosts = "published" => published_age - read_age \in INTERVAL .. INTERVAL + MAX_GAP - 1
    BY <1>3, <1>5 DEF Timing, due_now
  <2>3. PublisherTypeOK'
    BY <2>1, <2>2
  <2>4. Timing'
    BY <2>1, <2>2 DEF Timing, After
  <2>5. Fresh'
    BY <2>1 DEF Fresh
  <2> QED
    BY <1>1, <2>3, <2>4, <2>5 DEF IInv
<1>6. CASE ~due_now
  <2>1. auto' = "sleep" /\ UNCHANGED <<publisher, ticks, tick_ms, read_age, self_ip, ip_age>>
    BY <1>6 DEF round, address
  <2>2. PublisherTypeOK' /\ Fresh'
    BY <2>1 DEF publisher, Fresh
  <2>3. Timing'
    BY <1>3, <1>4, <1>6, <2>1 DEF publisher, Timing, After, due_now
  <2> QED
    BY <1>1, <2>2, <2>3 DEF IInv
<1> QED
  BY <1>5, <1>6

LEMMA AddressIInv == IInv /\ on_wifi_sta_connected => IInv'
<1> SUFFICES ASSUME IInv, on_wifi_sta_connected PROVE IInv'
  OBVIOUS
<1> USE MessagesAssumption DEF MessagesAssumption, IInv, TaskTypeOK, PublisherTypeOK,
    AddressTypeOK, on_wifi_sta_connected, task, publisher
<1>1. TaskTypeOK' /\ PublisherTypeOK' /\ AddressTypeOK'
  OBVIOUS
<1>2. Timing' /\ Fresh'
  BY DEF Timing, Fresh, After
<1> QED
  BY <1>1, <1>2 DEF IInv

\* Everything but the LED unchanged.
LEMMA FrameIInv == IInv /\ UNCHANGED <<ticks, task, publisher, address>> => IInv'
BY DEF IInv, TaskTypeOK, PublisherTypeOK, AddressTypeOK, Timing, Fresh, After, task,
       publisher, address

\* A device that restarts begins anew.
LEMMA RestartIInv == IInv /\ restart => IInv'
<1> SUFFICES ASSUME IInv, restart PROVE IInv'
  OBVIOUS
<1> USE MessagesAssumption DEF MessagesAssumption, restart
<1>1. TaskTypeOK' /\ PublisherTypeOK' /\ AddressTypeOK'
  BY DEF TaskTypeOK, PublisherTypeOK, AddressTypeOK
<1>2. After(ticks, tick_ms, read_age)'
  <2>1. PICK t \in 0 .. WORD - 1 : ticks' = t
    OBVIOUS
  <2>2. tick_ms' = t /\ read_age' = 0 /\ t = t + 0
    BY <2>1
  <2> QED
    BY <2>1, <2>2 DEF After
<1>3. Timing' /\ Fresh'
  BY <1>2 DEF Timing, Fresh
<1> QED
  BY <1>1, <1>3 DEF IInv

LEMMA StepIInv == IInv /\ [Next]_vars => IInv'
<1> SUFFICES ASSUME IInv, [Next]_vars PROVE IInv'
  OBVIOUS
<1>1. ASSUME NEW cmd \in Commands, actuator(cmd) PROVE IInv'
  BY <1>1, FrameIInv DEF actuator
<1>2. CASE UNCHANGED vars
  BY <1>2, FrameIInv DEF vars
<1>3. ASSUME NEW cmd \in Commands, actuator_null(cmd) PROVE IInv'
  BY <1>3, RestartIInv DEF actuator_null
<1> QED
  BY <1>1, <1>2, <1>3, TickIInv, RegisterIInv, WakeIInv, RoundIInv, AddressIInv
  DEF Next, auto_publisher_task

LEMMA InvariantHolds == Spec => []IInv
BY InitIInv, StepIInv, PTL DEF Spec

-----------------------------------------------------------------------------
\* The announcement is on time, for every width of the counter and at every wrap
\* (MqttClient.hpp:355).
THEOREM OnTimeCorrect == Spec => []OnTime
<1>1. IInv => OnTime
  BY MessagesAssumption
  DEF IInv, OnTime, Timing, TaskTypeOK, PublisherTypeOK, MessagesAssumption
<1> QED
  BY <1>1, InvariantHolds, PTL

\* The announced address is the right one in time (MqttClient.hpp:568).
THEOREM AddressKnownCorrect == Spec => []AddressKnown
<1>1. IInv => AddressKnown
  BY MessagesAssumption
  DEF IInv, AddressKnown, Timing, Fresh, TaskTypeOK, PublisherTypeOK, AddressTypeOK,
      MessagesAssumption
<1> QED
  BY <1>1, InvariantHolds, PTL

-----------------------------------------------------------------------------
\* From every start of the device on the LED follows the commands for this very address
\* and no others (main.cpp:60), and a command that restarts the device leaves it off.
THEOREM LedObeysCorrect == Spec => [](LedTypeOK /\ LedObeys)
<1> DEFINE LInv == LedTypeOK /\ LedObeys
<1>1. Init => LInv
  BY DEF Init, LedTypeOK, LedObeys
<1>2. LInv /\ [Next]_vars => LInv'
  <2> SUFFICES ASSUME LInv, [Next]_vars PROVE LInv'
    OBVIOUS
  <2>1. CASE UNCHANGED led
    BY <2>1 DEF led, LedTypeOK, LedObeys
  <2>2. ASSUME NEW cmd \in Commands, actuator(cmd) PROVE LInv'
    <3>1. cmd.asked \in Asked
      BY DEF Commands
    <3>2. CASE cmd.asked = "garbage"
      BY <2>2, <3>2 DEF actuator, compared, LedTypeOK, LedObeys
    <3>3. CASE compared(cmd) /\ cmd.ip # self_ip
      <4>1. /\ answer' = [led |-> IF cmd.asked = "get" THEN "missing" ELSE cmd.asked,
                          to |-> "other"]
            /\ UNCHANGED <<level, commanded>>
        BY <2>2, <3>3 DEF actuator, for_me, compared
      <4>2. answer'.led \in {"missing", "1", "2"}
        BY <3>1, <3>3, <4>1 DEF Asked, compared
      <4> QED
        BY <4>1, <4>2 DEF LedTypeOK, LedObeys
    <3>4. CASE compared(cmd) /\ cmd.asked \in {"get", "missing"} /\ cmd.ip = self_ip
      <4>1. /\ \/ level' = IF level = "input" THEN "off" ELSE level
               \/ level' = level
            /\ \/ answer' = [led |-> "0", to |-> "other"]
               \/ answer' = [led |-> "missing", to |-> "other"]
            /\ commanded' = commanded
        BY <2>2, <3>4 DEF actuator, for_me, compared, handler, isOn
      <4> QED
        BY <4>1 DEF LedTypeOK, LedObeys
    <3>5. CASE compared(cmd) /\ cmd.asked \in {"1", "2"} /\ cmd.ip = self_ip
      <4>1. /\ level' = IF cmd.asked = "1" THEN "on" ELSE "off"
            /\ answer' = [led |-> IF cmd.asked = "1" THEN "1" ELSE "0", to |-> "SET"]
            /\ commanded' = IF cmd.asked = "1" THEN "on" ELSE "off"
        BY <2>2, <3>5 DEF actuator, for_me, compared, handler, Set, on_off
      <4> QED
        BY <3>5, <4>1 DEF LedTypeOK, LedObeys
    <3> QED
      BY <2>2, <3>1, <3>2, <3>3, <3>4, <3>5 DEF Asked, actuator
  <2>3. CASE restart
    BY <2>3 DEF restart, LedTypeOK, LedObeys
  <2> QED
    BY <2>1, <2>2, <2>3 DEF Next, actuator_null, auto_publisher_task, Tick, registerPublisher, wake, round,
                     on_wifi_sta_connected, vars
<1> QED
  BY <1>1, <1>2, PTL DEF Spec

\* Every variable has a value of its type.
THEOREM MessagesTypeCorrect == Spec => []TypeOK
<1>1. IInv /\ LedTypeOK => TypeOK
  BY DEF IInv, TypeOK
<1> QED
  BY <1>1, InvariantHolds, LedObeysCorrect, PTL
=============================================================================
