-------------------------- MODULE MqttClientProofs --------------------------
(***************************************************************************)
(* Machine-checked proofs about MqttClient for every set of topics, every   *)
(* capacity of the bus and of the publish queue, and all numbers of         *)
(* connections, of messages and of publications: start order, flags, the    *)
(* first session, and the four locks, which are never waited for in a        *)
(* circle.                                                                  *)
(***************************************************************************)
EXTENDS MqttClient, SequenceTheorems, TLAPS

\* mutex_ is held where the code holds it: by the bus task throughout init, by the
\* handler of the library's events, and by the publisher while it reads the flag.
MutexHeld ==
    /\ pc["bus"] \in {"init", "started", "queue", "tasks"} => holder["mutex_"] = "bus"
    /\ pc["mqtt"] \in {"handler", "listen"} => holder["mutex_"] = "mqtt"
    /\ pc["publisher"] = "checking" => holder["mutex_"] = "publisher"

\* init is over, or has come as far as what exists already.
InitProgress ==
    /\ "mqtt" \in tasks => is_initialized_ \/ pc["bus"] \in {"started", "queue", "tasks"}
    /\ pc["bus"] \in {"queue", "tasks"} => queue_created
    /\ "publisher" \in tasks \/ "auto" \in tasks => queue_created
    /\ pc["mqtt"] # "idle" => "mqtt" \in tasks
    /\ pc["mqtt"] \in {"handler", "listen"} => is_initialized_

\* Between the library's decision and the end of its handler the flag lags behind
\* the link, by what the event in the handler's hands says.
FlagFollowsLink ==
    /\ pc["mqtt"] \in {"idle", "event", "handler", "listen"}
    /\ pc["mqtt"] = "idle" => (is_connected_ <=> link = "up")
    /\ pc["mqtt"] \in {"event", "handler"} =>
          /\ mqtt_event = "CONNECTED" => link = "up"
          /\ mqtt_event = "DISCONNECTED" => link = "down"
          /\ mqtt_event \in {"DATA", "ERROR"} => (is_connected_ <=> link = "up")
    /\ pc["mqtt"] = "listen" => is_connected_ /\ link = "up" /\ mqtt_event = "CONNECTED"

Marked == {t \in Topics : subscribers_[t] = "subscribed"}
Known == {t \in Topics : subscribers_[t] # "none"}

\* No session yet, or the first one and what it has subscribed.
FirstSession ==
    /\ links \in Nat
    /\ links = 0 => link = "down" /\ Marked = {}
    /\ links = 1 /\ link = "up" => Marked \subseteq broker_subs
    /\ announced \subseteq Known
    /\ links = 1 /\ link = "up" /\ ~refused
           /\ (pc["mqtt"] = "idle" \/ mqtt_event # "CONNECTED") => announced \subseteq broker_subs

\* The inductive invariant.
Inv == TypeOK /\ MutexHeld /\ InitProgress /\ FlagFollowsLink /\ FirstSession

\* The steps of everybody but the library's task.
Bystander ==
    \/ main_lock \/ registerSubscriber \/ eventbus_task
    \/ publisher_task \/ auto_publisher_task \/ Environment

-----------------------------------------------------------------------------
(* Lemmas.                                                                   *)

\* Lemma: emit leaves a queue of the bus within its capacity.
LEMMA OfferType ==
    ASSUME NEW q \in Seq(BusEvents), Len(q) <= QUEUE_LEN, NEW e \in BusEvents
    PROVE  Offer(q, e) \in Seq(BusEvents) /\ Len(Offer(q, e)) <= QUEUE_LEN
<1>1. CASE HasRoom(q)
  <2>1. Append(q, e) \in Seq(BusEvents) /\ Len(Append(q, e)) = Len(q) + 1
    BY AppendProperties
  <2>2. Len(q) + 1 <= QUEUE_LEN
    BY <1>1, QueueLenAssumption DEF HasRoom
  <2> QED BY <1>1, <2>1, <2>2 DEF Offer
<1>2. CASE ~HasRoom(q)
  BY <1>2 DEF Offer
<1> QED BY <1>1, <1>2

\* Lemma: emit, of an event of the bus, keeps the types of the bus.
LEMMA EmitType ==
    ASSUME TypeOK, NEW e \in BusEvents, Emit(e)
    PROVE  evt_queue' \in Seq(BusEvents) /\ Len(evt_queue') <= QUEUE_LEN /\ lost' \in BOOLEAN
<1>1. evt_queue \in Seq(BusEvents) /\ Len(evt_queue) <= QUEUE_LEN /\ lost \in BOOLEAN
  BY DEF TypeOK
<1>2. evt_queue' = Offer(evt_queue, e)
  BY DEF Emit
<1>3. lost' \in BOOLEAN
  BY <1>1, Zenon DEF Emit
<1> QED BY <1>1, <1>2, <1>3, OfferType

\* Lemma: taking the next event leaves the queue within its capacity.
LEMMA TakeType ==
    ASSUME TypeOK, NEW e, NEW to, BusTakes(e, to)
    PROVE  evt_queue' \in Seq(BusEvents) /\ Len(evt_queue') <= QUEUE_LEN /\ lost' = lost
<1>1. evt_queue \in Seq(BusEvents) /\ Len(evt_queue) <= QUEUE_LEN /\ evt_queue # << >>
  BY DEF TypeOK, BusTakes
<1>2. Tail(evt_queue) \in Seq(BusEvents) /\ Len(Tail(evt_queue)) = Len(evt_queue) - 1
  BY <1>1, HeadTailProperties
<1>3. Len(evt_queue) \in Nat
  BY <1>1, LenProperties
<1>4. evt_queue' = Tail(evt_queue) /\ lost' = lost
  BY DEF BusTakes
<1> QED BY <1>1, <1>2, <1>3, <1>4, QueueLenAssumption

\* Lemma: taking a lock, and releasing some, keeps the type of holder.
LEMMA LockTypes ==
    ASSUME TypeOK
    PROVE  /\ \A l \in Locks, t \in Threads : Take(l, t) =>
                  holder' \in [Locks -> Threads \union {"nobody"}]
           /\ \A ls : Release(ls) => holder' \in [Locks -> Threads \union {"nobody"}]
<1>1. holder \in [Locks -> Threads \union {"nobody"}]
  BY DEF TypeOK
<1>2. ASSUME NEW l \in Locks, NEW t \in Threads, Take(l, t)
      PROVE  holder' \in [Locks -> Threads \union {"nobody"}]
  BY <1>1, <1>2 DEF Take
<1>3. ASSUME NEW ls, Release(ls)
      PROVE  holder' \in [Locks -> Threads \union {"nobody"}]
  BY <1>1, <1>3 DEF Release
<1> QED BY <1>2, <1>3

\* Lemma: what is known of the bus, of the tasks' places and locks, and of the rest,
\* holds again after every step.
BusTypes == evt_queue \in Seq(BusEvents) /\ Len(evt_queue) <= QUEUE_LEN /\ lost \in BOOLEAN

LEMMA BusTypesKept ==
    ASSUME TypeOK, [Next]_vars
    PROVE  BusTypes'
<1>1. CASE main_lock
  BY <1>1 DEF main_lock, BusTypes, TypeOK, bus
<1>2. CASE registerSubscriber
  BY <1>2 DEF registerSubscriber, BusTypes, TypeOK, bus
<1>3. CASE on_wifi_sta_connected
  BY <1>3, TakeType DEF on_wifi_sta_connected, BusTypes, TypeOK, bus
<1>4. CASE init
  BY <1>4 DEF init, BusTypes, TypeOK, bus
<1>5. CASE init_disabled
  BY <1>5 DEF init_disabled, BusTypes, TypeOK, bus
<1>6. CASE on_mqtt_connected
  BY <1>6, TakeType DEF on_mqtt_connected, BusTypes, TypeOK, bus
<1>7. CASE registerPublisher
  BY <1>7 DEF registerPublisher, BusTypes, TypeOK, bus
<1>8. CASE on_mqtt_status
  BY <1>8, TakeType DEF on_mqtt_status, BusTypes, TypeOK, bus
<1>9. CASE on_other_event
  BY <1>9, TakeType DEF on_other_event, BusTypes, TypeOK, bus
<1>10. CASE library_event
  BY <1>10 DEF library_event, BusTypes, TypeOK, bus
<1>11. CASE handler_lock
  BY <1>11 DEF handler_lock, BusTypes, TypeOK, bus
<1>12. CASE handler_connected
  BY <1>12 DEF handler_connected, HandlerFrame, BusTypes, TypeOK, bus
<1>13. CASE listenSubscribers
  <2>1. Emit("MQTT_CONNECTED")
    BY <1>13 DEF listenSubscribers
  <2>2. "MQTT_CONNECTED" \in BusEvents
    BY DEF BusEvents
  <2> QED BY <2>1, <2>2, EmitType DEF BusTypes
<1>14. CASE handler_other
  <2>1. Emit("MQTT_DISCONNECTED") \/ Emit("MQTT_MESSAGE") \/ Emit("MQTT_ERROR")
    BY <1>14 DEF handler_other
  <2>2. "MQTT_DISCONNECTED" \in BusEvents /\ "MQTT_MESSAGE" \in BusEvents /\ "MQTT_ERROR" \in BusEvents
    BY DEF BusEvents
  <2> QED BY <2>1, <2>2, EmitType DEF BusTypes
<1>15. CASE publisher_task
  BY <1>15 DEF publisher_task, isConnected, PublisherFrame, BusTypes, TypeOK, bus
<1>16. CASE auto_publisher_task
  BY <1>16 DEF auto_publisher_task, AutoFrame, BusTypes, TypeOK, bus
<1>17. CASE Environment
  <2>1. Emit("WIFI_STA_CONNECTED") \/ Emit("MQTT_STATUS_REQUEST_JSON")
    BY <1>17 DEF Environment
  <2>2. "WIFI_STA_CONNECTED" \in BusEvents /\ "MQTT_STATUS_REQUEST_JSON" \in BusEvents
    BY DEF BusEvents
  <2> QED BY <2>1, <2>2, EmitType DEF BusTypes
<1>18. CASE UNCHANGED vars
  BY <1>18 DEF vars, bus, BusTypes, TypeOK
<1> QED BY <1>1, <1>2, <1>3, <1>4, <1>5, <1>6, <1>7, <1>8, <1>9, <1>10, <1>11, <1>12, <1>13, <1>14, <1>15, <1>16, <1>17, <1>18 DEF Next, eventbus_task, mqtt_event_handler

PlaceTypes == DOMAIN pc = Threads /\ holder \in [Locks -> Threads \union {"nobody"}]

\* Lemma: the tasks are somewhere, and each lock has at most one holder.
LEMMA PlaceTypesKept ==
    ASSUME TypeOK, [Next]_vars
    PROVE  PlaceTypes'
<1> DOMAIN pc = Threads /\ holder \in [Locks -> Threads \union {"nobody"}]
  BY DEF TypeOK
<1> USE DEF PlaceTypes, Goto, Threads, Locks
<1>1. CASE main_lock
  BY <1>1, LockTypes DEF main_lock
<1>2. CASE registerSubscriber
  BY <1>2, LockTypes DEF registerSubscriber
<1>3. CASE on_wifi_sta_connected
  BY <1>3, LockTypes DEF on_wifi_sta_connected, BusTakes
<1>4. CASE init
  BY <1>4, LockTypes DEF init
<1>5. CASE init_disabled
  BY <1>5, LockTypes DEF init_disabled
<1>6. CASE on_mqtt_connected
  BY <1>6, LockTypes DEF on_mqtt_connected, BusTakes
<1>7. CASE registerPublisher
  BY <1>7, LockTypes DEF registerPublisher
<1>8. CASE on_mqtt_status
  BY <1>8, LockTypes DEF on_mqtt_status, BusTakes
<1>9. CASE on_other_event
  BY <1>9, LockTypes DEF on_other_event, BusTakes
<1>10. CASE library_event
  BY <1>10, LockTypes DEF library_event
<1>11. CASE handler_lock
  BY <1>11, LockTypes DEF handler_lock
<1>12. CASE handler_connected
  BY <1>12, LockTypes DEF handler_connected, HandlerFrame
<1>13. CASE listenSubscribers
  BY <1>13, LockTypes DEF listenSubscribers, HandlerFrame
<1>14. CASE handler_other
  BY <1>14, LockTypes DEF handler_other, HandlerFrame
<1>15. CASE publisher_task
  BY <1>15, LockTypes DEF publisher_task, isConnected, PublisherFrame
<1>16. CASE auto_publisher_task
  BY <1>16, LockTypes DEF auto_publisher_task, AutoFrame
<1>17. CASE Environment
  BY <1>17, LockTypes DEF Environment
<1>18. CASE UNCHANGED vars
  BY <1>18 DEF vars
<1> QED BY <1>1, <1>2, <1>3, <1>4, <1>5, <1>6, <1>7, <1>8, <1>9, <1>10, <1>11, <1>12, <1>13, <1>14, <1>15, <1>16, <1>17, <1>18 DEF Next, eventbus_task, mqtt_event_handler

RestTypes ==
    /\ tasks \subseteq Threads /\ mqtt_enabled \in BOOLEAN
    /\ is_initialized_ \in BOOLEAN /\ is_connected_ \in BOOLEAN /\ queue_created \in BOOLEAN
    /\ publish_queue_ \in 0 .. QueueLen
    /\ subscribers_ \in [Topics -> {"none", "registered", "subscribed"}]
    /\ autoPublisher \in BOOLEAN
    /\ mqtt_event \in LibraryEvents \union {"none"}
    /\ link \in {"up", "down"} /\ broker_subs \subseteq Topics /\ announced \subseteq Topics

\* Lemma: the rest of the state keeps its type.
LEMMA RestTypesKept ==
    ASSUME TypeOK, [Next]_vars
    PROVE  RestTypes'
<1> RestTypes
  BY DEF TypeOK, RestTypes
<1> USE DEF RestTypes
<1>1. CASE main_lock
  BY <1>1 DEF main_lock, flags, maps, broker, counters
<1>2. CASE registerSubscriber
  BY <1>2 DEF registerSubscriber, flags, maps, broker, counters
<1>3. CASE on_wifi_sta_connected
  BY <1>3 DEF on_wifi_sta_connected, flags, maps, broker, counters
<1>4. CASE init
  BY <1>4 DEF init, flags, maps, broker, counters, Threads
<1>5. CASE init_disabled
  BY <1>5 DEF init_disabled, flags, maps, broker, counters
<1>6. CASE on_mqtt_connected
  BY <1>6 DEF on_mqtt_connected, flags, maps, broker, counters
<1>7. CASE registerPublisher
  BY <1>7 DEF registerPublisher, flags, maps, broker, counters
<1>8. CASE on_mqtt_status
  BY <1>8 DEF on_mqtt_status, flags, maps, broker, counters
<1>9. CASE on_other_event
  BY <1>9 DEF on_other_event, flags, maps, broker, counters
<1>10. CASE library_event
  BY <1>10 DEF library_event, LibraryEvents, flags, maps
<1>11. CASE handler_lock
  BY <1>11 DEF handler_lock, flags, maps, broker, counters
<1>12. CASE handler_connected
  BY <1>12 DEF handler_connected, HandlerFrame, counters
<1>13. CASE listenSubscribers
  BY <1>13 DEF listenSubscribers, HandlerFrame, counters
<1>14. CASE handler_other
  BY <1>14 DEF handler_other, HandlerFrame, counters
<1>15. CASE publisher_task
  BY <1>15, MqttAssumption DEF publisher_task, isConnected, PublisherFrame, flags, maps, broker, counters
<1>16. CASE auto_publisher_task
  BY <1>16, MqttAssumption DEF auto_publisher_task, AutoFrame, flags, maps, broker
<1>17. CASE Environment
  BY <1>17 DEF Environment, flags, maps, broker, counters
<1>18. CASE UNCHANGED vars
  BY <1>18 DEF vars, flags, maps, broker, counters
<1> QED BY <1>1, <1>2, <1>3, <1>4, <1>5, <1>6, <1>7, <1>8, <1>9, <1>10, <1>11, <1>12, <1>13, <1>14, <1>15, <1>16, <1>17, <1>18 DEF Next, eventbus_task, mqtt_event_handler

-----------------------------------------------------------------------------
(* The parts of the invariant.                                               *)

\* Lemma: MutexHeld holds again after every step.
LEMMA MutexHeldKept ==
    ASSUME Inv, [Next]_vars
    PROVE  MutexHeld'
<1> DOMAIN pc = Threads /\ DOMAIN holder = Locks /\ MutexHeld
  BY DEF Inv, TypeOK
<1> USE DEF MutexHeld, Goto, Take, Release, Threads, Locks
<1>1. CASE main_lock
  BY <1>1 DEF main_lock
<1>2. CASE registerSubscriber
  BY <1>2 DEF registerSubscriber
<1>3. CASE on_wifi_sta_connected
  BY <1>3 DEF on_wifi_sta_connected, BusTakes
<1>4. CASE init
  BY <1>4 DEF init
<1>5. CASE init_disabled
  BY <1>5 DEF init_disabled
<1>6. CASE on_mqtt_connected
  BY <1>6 DEF on_mqtt_connected, BusTakes
<1>7. CASE registerPublisher
  BY <1>7 DEF registerPublisher
<1>8. CASE on_mqtt_status
  BY <1>8 DEF on_mqtt_status, BusTakes
<1>9. CASE on_other_event
  BY <1>9 DEF on_other_event, BusTakes
<1>10. CASE library_event
  BY <1>10 DEF library_event
<1>11. CASE handler_lock
  BY <1>11 DEF handler_lock
<1>12. CASE handler_connected
  BY <1>12 DEF handler_connected, HandlerFrame
<1>13. CASE listenSubscribers
  BY <1>13 DEF listenSubscribers, HandlerFrame
<1>14. CASE handler_other
  BY <1>14 DEF handler_other, HandlerFrame
<1>15. CASE publisher_task
  BY <1>15 DEF publisher_task, isConnected, PublisherFrame
<1>16. CASE auto_publisher_task
  BY <1>16 DEF auto_publisher_task, AutoFrame
<1>17. CASE Environment
  BY <1>17 DEF Environment
<1>18. CASE UNCHANGED vars
  BY <1>18 DEF vars
<1> QED BY <1>1, <1>2, <1>3, <1>4, <1>5, <1>6, <1>7, <1>8, <1>9, <1>10, <1>11, <1>12, <1>13, <1>14, <1>15, <1>16, <1>17, <1>18 DEF Next, eventbus_task, mqtt_event_handler

\* Lemma: InitProgress holds again after every step.
LEMMA InitProgressKept ==
    ASSUME Inv, [Next]_vars
    PROVE  InitProgress'
<1> DOMAIN pc = Threads /\ MutexHeld /\ InitProgress
  BY DEF Inv, TypeOK
<1> USE DEF InitProgress, Goto, Threads
<1>1. CASE main_lock
  BY <1>1 DEF main_lock, flags
<1>2. CASE registerSubscriber
  BY <1>2 DEF registerSubscriber, flags
<1>3. CASE on_wifi_sta_connected
  BY <1>3 DEF on_wifi_sta_connected, flags, BusTakes
<1>4. CASE init
  BY <1>4 DEF init, flags
<1>5. CASE init_disabled
  BY <1>5 DEF init_disabled, flags
<1>6. CASE on_mqtt_connected
  BY <1>6 DEF on_mqtt_connected, flags, BusTakes
<1>7. CASE registerPublisher
  BY <1>7 DEF registerPublisher, flags
<1>8. CASE on_mqtt_status
  BY <1>8 DEF on_mqtt_status, flags, BusTakes
<1>9. CASE on_other_event
  BY <1>9 DEF on_other_event, flags, BusTakes
<1>10. CASE library_event
  BY <1>10 DEF library_event, flags
<1>11. CASE handler_lock
  BY <1>11 DEF handler_lock, flags, MutexHeld, Take
<1>12. CASE handler_connected
  BY <1>12 DEF handler_connected, HandlerFrame, flags
<1>13. CASE listenSubscribers
  BY <1>13 DEF listenSubscribers, HandlerFrame, flags
<1>14. CASE handler_other
  BY <1>14 DEF handler_other, HandlerFrame, flags
<1>15. CASE publisher_task
  BY <1>15 DEF publisher_task, isConnected, PublisherFrame, flags
<1>16. CASE auto_publisher_task
  BY <1>16 DEF auto_publisher_task, AutoFrame, flags
<1>17. CASE Environment
  BY <1>17 DEF Environment, flags
<1>18. CASE UNCHANGED vars
  BY <1>18 DEF vars, flags
<1> QED BY <1>1, <1>2, <1>3, <1>4, <1>5, <1>6, <1>7, <1>8, <1>9, <1>10, <1>11, <1>12, <1>13, <1>14, <1>15, <1>16, <1>17, <1>18 DEF Next, eventbus_task, mqtt_event_handler

\* Lemma: nobody but the library's task moves it, or changes what it knows.
LEMMA BystanderLeavesSession ==
    ASSUME TypeOK, Bystander
    PROVE  pc'["mqtt"] = pc["mqtt"] /\ UNCHANGED <<broker, is_connected_>>
<1> DOMAIN pc = Threads
  BY DEF TypeOK
<1> USE DEF Goto, Threads
<1>1. CASE main_lock
  BY <1>1 DEF main_lock, flags, broker
<1>2. CASE registerSubscriber
  BY <1>2 DEF registerSubscriber, flags, broker
<1>3. CASE on_wifi_sta_connected
  BY <1>3 DEF on_wifi_sta_connected, flags, broker, BusTakes
<1>4. CASE init
  BY <1>4 DEF init, flags, broker
<1>5. CASE init_disabled
  BY <1>5 DEF init_disabled, flags, broker
<1>6. CASE on_mqtt_connected
  BY <1>6 DEF on_mqtt_connected, flags, broker, BusTakes
<1>7. CASE registerPublisher
  BY <1>7 DEF registerPublisher, flags, broker
<1>8. CASE on_mqtt_status
  BY <1>8 DEF on_mqtt_status, flags, broker, BusTakes
<1>9. CASE on_other_event
  BY <1>9 DEF on_other_event, flags, broker, BusTakes
<1>10. CASE publisher_task
  BY <1>10 DEF publisher_task, isConnected, PublisherFrame, flags, broker
<1>11. CASE auto_publisher_task
  BY <1>11 DEF auto_publisher_task, AutoFrame, flags, broker
<1>12. CASE Environment
  BY <1>12 DEF Environment, flags, broker
<1> QED BY <1>1, <1>2, <1>3, <1>4, <1>5, <1>6, <1>7, <1>8, <1>9, <1>10, <1>11, <1>12 DEF Bystander, eventbus_task

\* Lemma: FlagFollowsLink holds again after every step.
LEMMA FlagFollowsLinkKept ==
    ASSUME Inv, [Next]_vars
    PROVE  FlagFollowsLink'
<1> DOMAIN pc = Threads /\ FlagFollowsLink /\ link \in {"up", "down"}
  BY DEF Inv, TypeOK
<1>1. CASE Bystander
  <2>1. pc'["mqtt"] = pc["mqtt"] /\ UNCHANGED <<broker, is_connected_>>
    BY <1>1, BystanderLeavesSession DEF Inv
  <2> QED BY <2>1 DEF broker, FlagFollowsLink
<1>2. CASE library_event
  BY <1>2 DEF library_event, FlagFollowsLink, Goto, Threads, flags
<1>3. CASE handler_lock
  BY <1>3 DEF handler_lock, FlagFollowsLink, Goto, Threads, flags, broker
<1>4. CASE handler_connected
  BY <1>4 DEF handler_connected, HandlerFrame, FlagFollowsLink, Goto, Threads
<1>5. CASE listenSubscribers
  BY <1>5 DEF listenSubscribers, HandlerFrame, FlagFollowsLink, Goto, Threads
<1>6. CASE handler_other
  BY <1>6 DEF handler_other, HandlerFrame, FlagFollowsLink, Goto, Threads
<1>7. CASE UNCHANGED vars
  BY <1>7 DEF vars, flags, broker, FlagFollowsLink
<1> QED BY <1>1, <1>2, <1>3, <1>4, <1>5, <1>6, <1>7 DEF Next, mqtt_event_handler, Bystander

\* Lemma: nobody but the library's task marks a topic, and no topic is forgotten.
LEMMA BystanderLeavesMarks ==
    ASSUME Inv, Bystander
    PROVE  Marked' = Marked /\ Known \subseteq Known'
<1> subscribers_ \in [Topics -> {"none", "registered", "subscribed"}]
  BY DEF Inv, TypeOK
<1> USE DEF Marked, Known
<1>1. CASE registerSubscriber
  <2>1. PICK t \in Topics : /\ subscribers_[t] = "none"
                            /\ subscribers_' = [subscribers_ EXCEPT ![t] = "registered"]
    BY <1>1 DEF registerSubscriber
  <2> QED BY <2>1
<1>2. CASE subscribers_' = subscribers_
  BY <1>2
<1>3. registerSubscriber \/ subscribers_' = subscribers_
  BY DEF Bystander, maps, main_lock, eventbus_task, on_wifi_sta_connected, init, init_disabled,
         on_mqtt_connected, registerPublisher, on_mqtt_status, on_other_event, publisher_task,
         isConnected, PublisherFrame, auto_publisher_task, AutoFrame, Environment
<1> QED BY <1>1, <1>2, <1>3

\* Lemma: FirstSession holds again after every step.
LEMMA FirstSessionKept ==
    ASSUME Inv, [Next]_vars
    PROVE  FirstSession'
<1> DOMAIN pc = Threads /\ FlagFollowsLink /\ FirstSession
  BY DEF Inv, TypeOK
<1> subscribers_ \in [Topics -> {"none", "registered", "subscribed"}]
  BY DEF Inv, TypeOK
<1>1. CASE Bystander
  <2>1. pc'["mqtt"] = pc["mqtt"] /\ UNCHANGED <<broker, is_connected_>>
    BY <1>1, BystanderLeavesSession DEF Inv
  <2>2. Marked' = Marked /\ Known \subseteq Known'
    BY <1>1, BystanderLeavesMarks
  <2> QED BY <2>1, <2>2 DEF broker, FirstSession
<1>2. CASE library_event
  <2>1. Marked' = Marked /\ Known' = Known
    BY <1>2 DEF library_event, maps, Marked, Known
  <2>2. pc["mqtt"] = "idle" /\ pc'["mqtt"] = "event"
    BY <1>2 DEF library_event, Goto, Threads
  <2>3. UNCHANGED <<announced, refused>>
    BY <1>2 DEF library_event
  <2>4. CASE /\ link = "down" /\ links' = links + 1 /\ mqtt_event' = "CONNECTED"
    BY <2>1, <2>2, <2>3, <2>4 DEF FirstSession
  <2>5. CASE link' = "down" /\ links' = links /\ link = "up"
    BY <2>1, <2>2, <2>3, <2>5 DEF FirstSession
  <2>6. CASE UNCHANGED <<link, broker_subs, links>>
    BY <2>1, <2>2, <2>3, <2>6 DEF FirstSession
  <2> QED BY <1>2, <2>4, <2>5, <2>6 DEF library_event
<1>3. CASE handler_lock
  BY <1>3 DEF handler_lock, FirstSession, Goto, Threads, broker, maps, Marked, Known
<1>4. CASE handler_connected
  BY <1>4 DEF handler_connected, HandlerFrame, FirstSession, Goto, Threads, Marked, Known
<1>5. CASE listenSubscribers
  <2>1. PICK ok \in SUBSET {t \in Topics : subscribers_[t] = "registered"} :
           /\ broker_subs' = broker_subs \union ok
           /\ subscribers_' = [t \in Topics |-> IF t \in ok THEN "subscribed" ELSE subscribers_[t]]
           /\ refused' = (refused \/ ok # {t \in Topics : subscribers_[t] = "registered"})
    BY <1>5 DEF listenSubscribers
  <2>2. Marked' = Marked \union ok /\ Known' = Known
    BY <2>1 DEF Marked, Known
  <2>3. UNCHANGED <<announced, link, links>> /\ link = "up"
    BY <1>5 DEF listenSubscribers, HandlerFrame, FlagFollowsLink, Goto
  <2>4. links = 1 => Marked' \subseteq broker_subs'
    BY <2>1, <2>2, <2>3 DEF FirstSession
  <2>5. ~refused' => Known = Marked'
    BY <2>1, <2>2 DEF Marked, Known
  <2> QED BY <2>2, <2>3, <2>4, <2>5 DEF FirstSession
<1>6. CASE handler_other
  BY <1>6 DEF handler_other, HandlerFrame, FirstSession, Goto, Threads, Marked, Known
<1>7. CASE UNCHANGED vars
  BY <1>7 DEF vars, broker, maps, FirstSession, Marked, Known
<1> QED BY <1>1, <1>2, <1>3, <1>4, <1>5, <1>6, <1>7 DEF Next, mqtt_event_handler, Bystander

-----------------------------------------------------------------------------
(* The theorems.                                                             *)

\* Theorem: Inv is an invariant of the client.
THEOREM MqttInvariant == Spec => []Inv
<1>1. Init => Inv
  <2> SUFFICES ASSUME Init PROVE Inv
    OBVIOUS
  <2>1. << >> \in Seq(BusEvents) /\ Len(<< >>) = 0
    BY EmptySeq
  <2>2. TypeOK
    <3>1. evt_queue \in Seq(BusEvents) /\ Len(evt_queue) <= QUEUE_LEN
      BY <2>1, QueueLenAssumption DEF Init
    <3>2. PlaceTypes
      BY DEF Init, PlaceTypes
    <3>3. RestTypes
      <4>1. subscribers_ \in [Topics -> {"none", "registered", "subscribed"}]
        BY DEF Init
      <4>2. publish_queue_ \in 0 .. QueueLen
        BY MqttAssumption DEF Init
      <4> QED BY <4>1, <4>2 DEF Init, RestTypes, Threads
    <3>4. lost \in BOOLEAN
      BY DEF Init
    <3> QED BY <3>1, <3>2, <3>3, <3>4 DEF TypeOK, PlaceTypes, RestTypes
  <2>3. MutexHeld /\ InitProgress
    BY DEF Init, MutexHeld, InitProgress, Threads
  <2>4. FlagFollowsLink /\ FirstSession
    BY DEF Init, FlagFollowsLink, FirstSession, Threads, Marked, Known
  <2> QED BY <2>2, <2>3, <2>4 DEF Inv
<1>2. Inv /\ [Next]_vars => Inv'
  <2> SUFFICES ASSUME Inv, [Next]_vars PROVE Inv'
    OBVIOUS
  <2>1. TypeOK
    BY DEF Inv
  <2>2. BusTypes' /\ PlaceTypes' /\ RestTypes'
    BY <2>1, BusTypesKept, PlaceTypesKept, RestTypesKept
  <2>3. TypeOK'
    BY <2>2 DEF TypeOK, BusTypes, PlaceTypes, RestTypes
  <2> QED BY <2>3, MutexHeldKept, InitProgressKept, FlagFollowsLinkKept, FirstSessionKept DEF Inv
<1> QED BY <1>1, <1>2, PTL DEF Spec

\* Theorem: the client is correctly typed, its queues within their capacity.
THEOREM MqttTypeCorrect == Spec => []TypeOK
<1>1. Inv => TypeOK
  BY DEF Inv
<1> QED BY <1>1, MqttInvariant, PTL

\* Theorem: although the library's task and the publishers run before init is over, the
\* publishers find their queue and the handler an initialized client: the handler
\* waits for mutex_, which init holds to its end.
THEOREM InitBeforeUseCorrect == Spec => []InitBeforeUse
<1>1. Inv => InitBeforeUse
  BY DEF Inv, InitProgress, InitBeforeUse
<1> QED BY <1>1, MqttInvariant, PTL

\* Theorem: whenever the library's task is between two events, the flag says whether
\* the broker is connected.
THEOREM ConnectedIsTrueCorrect == Spec => []ConnectedIsTrue
<1>1. Inv => ConnectedIsTrue
  BY DEF Inv, FlagFollowsLink, ConnectedIsTrue
<1> QED BY <1>1, MqttInvariant, PTL

\* Theorem: in its first session the client is subscribed to what was registered before
\* it, unless a subscription was refused, and to every topic it has marked, however
\* the registrations of app_main fall between the events of the session.
THEOREM FirstSessionCorrect == Spec => []FirstSessionSubscribed
<1>1. Inv => FirstSessionSubscribed
  BY DEF Inv, FlagFollowsLink, FirstSession, FirstSessionSubscribed, Marked
<1> QED BY <1>1, MqttInvariant, PTL

-----------------------------------------------------------------------------
(* The locks.  Where in its code a task holds each of them, where it asks for  *)
(* one, and why no tasks ever wait for each other in a circle.                 *)

\* Task t, when at p, is inside the critical section of lock l.
Inside(l, t, p) ==
    \/ l = "mutex_" /\ \/ t = "bus" /\ p \in {"init", "started", "queue", "tasks"}
                       \/ t = "mqtt" /\ p \in {"handler", "listen"}
                       \/ t = "publisher" /\ p = "checking"
    \/ l = "pub_mutex_" /\ \/ t = "bus" /\ p \in {"publish", "status_pub"}
                           \/ t = "auto" /\ p = "due"
    \/ l = "sub_mutex_" /\ \/ t = "main" /\ p = "register"
                           \/ t = "bus" /\ p = "status_sub"
                           \/ t = "mqtt" /\ p = "listen"
    \/ l = "api" /\ \/ t = "mqtt" /\ p \in {"event", "handler", "listen"}
                    \/ t = "publisher" /\ p = "publishing"

\* Task t, when at p, may have to ask for lock l before it can go on.
Wants(l, t, p) ==
    \/ l = "mutex_" /\ \/ t = "bus" /\ p = "idle"
                       \/ t = "mqtt" /\ p = "event"
                       \/ t = "publisher" /\ p = "check"
    \/ l = "pub_mutex_" /\ t \in {"bus", "auto"} /\ p = "idle"
    \/ l = "sub_mutex_" /\ \/ t = "main" /\ p = "idle"
                           \/ t = "bus" /\ p = "status"
                           \/ t = "mqtt" /\ p = "handler"
    \/ l = "api" /\ \/ t = "bus" /\ p = "init"
                    \/ t = "mqtt" /\ p = "idle"
                    \/ t = "publisher" /\ p = "connected"

\* A lock belongs to the task that is inside its critical section, and to nobody
\* when no task is: mutual exclusion, and no lock is left behind.
LocksOwned == \A l \in Locks, t \in Threads : holder[l] = t <=> Inside(l, t, pc[t])

\* init comes before everything it creates, and before the library's task.
LibraryFirst ==
    /\ pc["bus"] \in {"init", "started", "queue", "tasks"} => ~is_initialized_
    /\ pc["bus"] \in {"started", "queue", "tasks"} => "mqtt" \in tasks
    /\ "publisher" \in tasks => "mqtt" \in tasks
    /\ pc["publisher"] # "idle" => "publisher" \in tasks
    /\ pc["bus"] = "init" => "mqtt" \notin tasks

\* Task t waits for a lock that u holds.
WaitsFor(t, u) == \E l \in Locks : Wants(l, t, pc[t]) /\ holder[l] = u

\* Among any tasks there is one that does not wait for another one of them: the
\* nested locks of the library, of the handler and of listenSubscribers, and the
\* start of the library by init under mutex_, never close a circle.
NoCircularWait ==
    \A S \in SUBSET Threads : S # {} => \E t \in S : \A u \in S : ~WaitsFor(t, u)

\* A lock is taken only by a task that was at one of the places of Wants.
TakenWhereWanted ==
    \A l \in Locks : holder'[l] \notin {holder[l], "nobody"} =>
        Wants(l, holder'[l], pc[holder'[l]])

\* Lemma: taking, releasing, or neither, in a step of one task, keeps the ownership
\* if the places before and after differ by the locks concerned.
LEMMA OwnedTake ==
    ASSUME TypeOK, LocksOwned, NEW t \in Threads, NEW from, NEW to, NEW l \in Locks,
           Goto(t, from, to), Take(l, t),
           \A k \in Locks : Inside(k, t, to) <=> Inside(k, t, from) \/ k = l
    PROVE  LocksOwned'
<1>1. /\ DOMAIN pc = Threads /\ holder \in [Locks -> Threads \union {"nobody"}]
      /\ pc[t] = from /\ pc' = [pc EXCEPT ![t] = to]
      /\ holder[l] = "nobody" /\ holder' = [holder EXCEPT ![l] = t]
  BY DEF TypeOK, Goto, Take
<1>2. \A u \in Threads : u # "nobody"
  BY DEF Threads
<1>3. pc'[t] = to /\ \A u \in Threads : u # t => pc'[u] = pc[u]
  BY <1>1
<1>4. holder'[l] = t /\ \A k \in Locks : k # l => holder'[k] = holder[k]
  BY <1>1
<1> SUFFICES ASSUME NEW k \in Locks, NEW u \in Threads
             PROVE  holder'[k] = u <=> Inside(k, u, pc'[u])
  BY DEF LocksOwned
<1>5. CASE u = t
  BY <1>1, <1>2, <1>3, <1>4, <1>5 DEF LocksOwned
<1>6. CASE u # t
  BY <1>1, <1>2, <1>3, <1>4, <1>6 DEF LocksOwned
<1> QED BY <1>5, <1>6

LEMMA OwnedRelease ==
    ASSUME TypeOK, LocksOwned, NEW t \in Threads, NEW from, NEW to, NEW ls,
           Goto(t, from, to), Release(ls),
           \A k \in Locks : Inside(k, t, to) <=> Inside(k, t, from) /\ k \notin ls,
           \A k \in ls : Inside(k, t, from)
    PROVE  LocksOwned'
<1>1. /\ DOMAIN pc = Threads /\ holder \in [Locks -> Threads \union {"nobody"}]
      /\ pc[t] = from /\ pc' = [pc EXCEPT ![t] = to]
      /\ \A k \in Locks : holder'[k] = IF k \in ls THEN "nobody" ELSE holder[k]
  BY DEF TypeOK, Goto, Release
<1>2. \A u \in Threads : u # "nobody"
  BY DEF Threads
<1>3. pc'[t] = to /\ \A u \in Threads : u # t => pc'[u] = pc[u]
  BY <1>1
<1> SUFFICES ASSUME NEW k \in Locks, NEW u \in Threads
             PROVE  holder'[k] = u <=> Inside(k, u, pc'[u])
  BY DEF LocksOwned
<1>4. CASE u = t
  BY <1>1, <1>2, <1>3, <1>4 DEF LocksOwned
<1>5. CASE u # t
  BY <1>1, <1>2, <1>3, <1>5 DEF LocksOwned
<1> QED BY <1>4, <1>5

LEMMA OwnedKeep ==
    ASSUME TypeOK, LocksOwned, NEW t \in Threads, NEW from, NEW to,
           Goto(t, from, to), UNCHANGED holder,
           \A k \in Locks : Inside(k, t, to) <=> Inside(k, t, from)
    PROVE  LocksOwned'
<1>1. DOMAIN pc = Threads /\ pc[t] = from /\ pc' = [pc EXCEPT ![t] = to]
  BY DEF TypeOK, Goto
<1>2. pc'[t] = to /\ \A u \in Threads : u # t => pc'[u] = pc[u]
  BY <1>1
<1> SUFFICES ASSUME NEW k \in Locks, NEW u \in Threads
             PROVE  holder'[k] = u <=> Inside(k, u, pc'[u])
  BY DEF LocksOwned
<1> QED BY <1>1, <1>2 DEF LocksOwned

\* Lemma: every task gives back, in the step that leaves a critical section, the
\* locks of that section.
LEMMA LocksOwnedKept ==
    ASSUME TypeOK, LocksOwned, [Next]_vars
    PROVE  LocksOwned'
<1> USE DEF Inside, Threads, Locks
<1>1. CASE main_lock
  BY <1>1, OwnedTake DEF main_lock
<1>2. CASE registerSubscriber
  BY <1>2, OwnedRelease DEF registerSubscriber
<1>3. CASE on_wifi_sta_connected
  BY <1>3, OwnedTake DEF on_wifi_sta_connected, BusTakes
<1>4. CASE init
  <2>1. CASE Goto("bus", "init", "started") /\ UNCHANGED holder
    BY <2>1, OwnedKeep
  <2>2. CASE Goto("bus", "started", "queue") /\ UNCHANGED holder
    BY <2>2, OwnedKeep
  <2>3. CASE Goto("bus", "queue", "tasks") /\ UNCHANGED holder
    BY <2>3, OwnedKeep
  <2>4. CASE Goto("bus", "tasks", "idle") /\ Release({"mutex_"})
    BY <2>4, OwnedRelease
  <2> QED BY <1>4, <2>1, <2>2, <2>3, <2>4 DEF init
<1>5. CASE init_disabled
  BY <1>5, OwnedRelease DEF init_disabled
<1>6. CASE on_mqtt_connected
  BY <1>6, OwnedTake DEF on_mqtt_connected, BusTakes
<1>7. CASE registerPublisher
  BY <1>7, OwnedRelease DEF registerPublisher
<1>8. CASE on_mqtt_status
  <2>1. CASE Goto("bus", "idle", "status_pub") /\ Take("pub_mutex_", "bus")
    BY <2>1, OwnedTake
  <2>2. CASE Goto("bus", "status_pub", "status") /\ Release({"pub_mutex_"})
    BY <2>2, OwnedRelease
  <2>3. CASE Goto("bus", "status", "status_sub") /\ Take("sub_mutex_", "bus")
    BY <2>3, OwnedTake
  <2>4. CASE Goto("bus", "status_sub", "idle") /\ Release({"sub_mutex_"})
    BY <2>4, OwnedRelease
  <2> QED BY <1>8, <2>1, <2>2, <2>3, <2>4 DEF on_mqtt_status, BusTakes
<1>9. CASE on_other_event
  BY <1>9, OwnedKeep DEF on_other_event, BusTakes
<1>10. CASE library_event
  BY <1>10, OwnedTake DEF library_event
<1>11. CASE handler_lock
  BY <1>11, OwnedTake DEF handler_lock
<1>12. CASE handler_connected
  BY <1>12, OwnedTake DEF handler_connected
<1>13. CASE listenSubscribers
  BY <1>13, OwnedRelease DEF listenSubscribers
<1>14. CASE handler_other
  BY <1>14, OwnedRelease DEF handler_other
<1>15. CASE publisher_task
  <2>1. CASE Goto("publisher", "idle", "check") /\ UNCHANGED holder
    BY <2>1, OwnedKeep
  <2>2. CASE Goto("publisher", "check", "checking") /\ Take("mutex_", "publisher")
    BY <2>2, OwnedTake
  <2>3. CASE /\ Goto("publisher", "checking", IF is_connected_ THEN "connected" ELSE "idle")
             /\ Release({"mutex_"})
    BY <2>3, OwnedRelease
  <2>4. CASE Goto("publisher", "connected", "publishing") /\ Take("api", "publisher")
    BY <2>4, OwnedTake
  <2>5. CASE Goto("publisher", "publishing", "idle") /\ Release({"api"})
    BY <2>5, OwnedRelease
  <2> QED BY <1>15, <2>1, <2>2, <2>3, <2>4, <2>5 DEF publisher_task, isConnected
<1>16. CASE auto_publisher_task
  <2>1. CASE Goto("auto", "idle", "due") /\ Take("pub_mutex_", "auto")
    BY <2>1, OwnedTake
  <2>2. CASE Goto("auto", "due", "idle") /\ Release({"pub_mutex_"})
    BY <2>2, OwnedRelease
  <2> QED BY <1>16, <2>1, <2>2 DEF auto_publisher_task
<1>17. CASE Environment \/ UNCHANGED vars
  <2>1. UNCHANGED <<pc, holder>>
    BY <1>17 DEF Environment, vars
  <2> QED BY <2>1 DEF LocksOwned
<1> QED BY <1>1, <1>2, <1>3, <1>4, <1>5, <1>6, <1>7, <1>8, <1>9, <1>10, <1>11, <1>12, <1>13,
           <1>14, <1>15, <1>16, <1>17 DEF Next, eventbus_task, mqtt_event_handler

\* Lemma: what init creates exists in the order in which init creates it.
LEMMA LibraryFirstKept ==
    ASSUME Inv, LibraryFirst, [Next]_vars
    PROVE  LibraryFirst'
<1> DOMAIN pc = Threads /\ InitProgress
  BY DEF Inv, TypeOK
<1> USE DEF LibraryFirst, Goto, Threads
<1>1. CASE main_lock \/ registerSubscriber
  BY <1>1 DEF main_lock, registerSubscriber, flags
<1>2. CASE on_wifi_sta_connected
  BY <1>2 DEF on_wifi_sta_connected, BusTakes, flags, InitProgress
<1>3. CASE init
  BY <1>3 DEF init, flags
<1>4. CASE init_disabled
  BY <1>4 DEF init_disabled, flags
<1>5. CASE on_mqtt_connected \/ registerPublisher \/ on_mqtt_status \/ on_other_event
  BY <1>5 DEF on_mqtt_connected, registerPublisher, on_mqtt_status, on_other_event, BusTakes,
              flags
<1>6. CASE library_event \/ handler_lock \/ handler_connected \/ listenSubscribers
           \/ handler_other
  BY <1>6 DEF library_event, handler_lock, handler_connected, listenSubscribers,
              handler_other, HandlerFrame, flags
<1>7. CASE publisher_task \/ auto_publisher_task
  BY <1>7 DEF publisher_task, isConnected, PublisherFrame, auto_publisher_task, AutoFrame, flags
<1>8. CASE Environment \/ UNCHANGED vars
  BY <1>8 DEF Environment, vars, flags
<1> QED BY <1>1, <1>2, <1>3, <1>4, <1>5, <1>6, <1>7, <1>8
        DEF Next, eventbus_task, mqtt_event_handler

\* The order in which locks are nested: the library's outside, the maps' inside.
Rank(l) == CASE l = "api" -> 1 [] l = "mutex_" -> 2 [] OTHER -> 3

\* Lemma: the library's lock is free while init starts the library.
LEMMA ApiFreeInInit ==
    ASSUME Inv, LocksOwned, LibraryFirst, pc["bus"] = "init"
    PROVE  holder["api"] = "nobody"
<1>1. holder["api"] \in Threads \union {"nobody"} /\ "api" \in Locks
  BY DEF Inv, TypeOK, Locks
<1>2. SUFFICES ASSUME holder["api"] \in Threads PROVE FALSE
  BY <1>1
<1>3. Inside("api", holder["api"], pc[holder["api"]])
  BY <1>1, <1>2 DEF LocksOwned
<1>4. "mqtt" \notin tasks /\ "publisher" \notin tasks
  BY DEF LibraryFirst
<1>5. pc["mqtt"] = "idle" /\ pc["publisher"] = "idle"
  BY <1>4 DEF LibraryFirst, Inv, InitProgress
<1> QED BY <1>3, <1>5 DEF Inside

\* Lemma: a task that waits for a lock holds only locks that come before it.
LEMMA LockOrder ==
    ASSUME Inv, LocksOwned, LibraryFirst, NEW t \in Threads, NEW l \in Locks, NEW h \in Locks,
           Wants(l, t, pc[t]), holder[l] # "nobody", holder[h] = t
    PROVE  Rank(h) < Rank(l)
<1>1. Inside(h, t, pc[t])
  BY DEF LocksOwned
<1>2. ~(l = "api" /\ pc["bus"] = "init")
  BY ApiFreeInInit
<1> QED BY <1>1, <1>2 DEF Wants, Inside, Rank, Threads, Locks

\* Theorem: each of the three mutexes and the library's lock is held by the task in its
\* critical section, by one at a time, and by nobody otherwise.
THEOREM LocksOwnedCorrect == Spec => []LocksOwned
<1>1. Init => LocksOwned
  BY DEF Init, LocksOwned, Inside, Threads, Locks
<1>2. Inv /\ LocksOwned /\ [Next]_vars => LocksOwned'
  BY LocksOwnedKept DEF Inv
<1> QED BY <1>1, <1>2, MqttInvariant, PTL DEF Spec

\* Theorem: no set of tasks ever waits for each other's locks, for any number of
\* topics, connections and messages.  This is the part of EveryTaskGetsOn that does
\* not need fairness: init waits for the library's lock while it holds mutex_, against
\* the order of the handler, but only before the library's task exists.
THEOREM NoCircularWaitCorrect == Spec => []NoCircularWait
<1>1. Init => LibraryFirst
  BY DEF Init, LibraryFirst, Threads
<1>2. Inv /\ LibraryFirst /\ [Next]_vars => LibraryFirst'
  BY LibraryFirstKept
<1>3. Inv /\ LocksOwned /\ LibraryFirst => NoCircularWait
  <2> SUFFICES ASSUME Inv, LocksOwned, LibraryFirst, NEW S \in SUBSET Threads, NEW t0 \in S,
                      \A t \in S : \E u \in S : WaitsFor(t, u)
               PROVE  FALSE
    BY DEF NoCircularWait
  <2>1. \A u \in Threads : u # "nobody"
    BY DEF Threads
  <2>2. \A t \in S, u \in S, v \in S, k, l \in Locks :
           /\ Wants(k, t, pc[t]) /\ holder[k] = u
           /\ Wants(l, u, pc[u]) /\ holder[l] = v
           => Rank(k) < Rank(l)
    BY <2>1, LockOrder
  <2>3. \A t \in S : \E u \in S, l \in Locks : Wants(l, t, pc[t]) /\ holder[l] = u
    BY DEF WaitsFor
  <2>4. PICK t1 \in S, l1 \in Locks : Wants(l1, t0, pc[t0]) /\ holder[l1] = t1
    BY <2>3
  <2>5. PICK t2 \in S, l2 \in Locks : Wants(l2, t1, pc[t1]) /\ holder[l2] = t2
    BY <2>3
  <2>6. PICK t3 \in S, l3 \in Locks : Wants(l3, t2, pc[t2]) /\ holder[l3] = t3
    BY <2>3
  <2>7. PICK t4 \in S, l4 \in Locks : Wants(l4, t3, pc[t3]) /\ holder[l4] = t4
    BY <2>3
  <2>8. Rank(l1) < Rank(l2) /\ Rank(l2) < Rank(l3) /\ Rank(l3) < Rank(l4)
    BY <2>2, <2>4, <2>5, <2>6, <2>7
  <2>9. \A l \in Locks : Rank(l) \in 1 .. 3
    BY DEF Rank
  <2> QED BY <2>8, <2>9
<1> QED BY <1>1, <1>2, <1>3, MqttInvariant, LocksOwnedCorrect, PTL DEF Spec

\* Theorem: a step that takes a lock is one of those that NoCircularWait is about.
THEOREM TakenWhereWantedCorrect == Spec => [][TakenWhereWanted]_vars
<1>1. Inv /\ [Next]_vars => [TakenWhereWanted]_vars
  <2> SUFFICES ASSUME Inv, Next PROVE TakenWhereWanted
    OBVIOUS
  <2> DOMAIN holder = Locks
    BY DEF Inv, TypeOK
  <2> USE DEF TakenWhereWanted, Wants, Goto, Take, Release
  <2>1. CASE main_lock \/ registerSubscriber
    BY <2>1 DEF main_lock, registerSubscriber
  <2>2. CASE on_wifi_sta_connected \/ init \/ init_disabled
    BY <2>2 DEF on_wifi_sta_connected, init, init_disabled, BusTakes
  <2>3. CASE on_mqtt_connected \/ registerPublisher \/ on_mqtt_status \/ on_other_event
    BY <2>3 DEF on_mqtt_connected, registerPublisher, on_mqtt_status, on_other_event, BusTakes
  <2>4. CASE library_event \/ mqtt_event_handler
    BY <2>4 DEF library_event, mqtt_event_handler, handler_lock, handler_connected,
                listenSubscribers, handler_other
  <2>5. CASE publisher_task
    BY <2>5 DEF publisher_task, isConnected
  <2>6. CASE auto_publisher_task
    BY <2>6 DEF auto_publisher_task
  <2>7. CASE Environment
    BY <2>7 DEF Environment
  <2> QED BY <2>1, <2>2, <2>3, <2>4, <2>5, <2>6, <2>7 DEF Next, eventbus_task
<1> QED BY <1>1, MqttInvariant, PTL DEF Spec
=============================================================================
