----------------------------- MODULE MqttClient -----------------------------
(***************************************************************************)
(* The MQTT client: its three mutexes and the lock of the esp-mqtt library,  *)
(* taken by five tasks.                                                     *)
(*                                                                         *)
(*   main       app_main, which registers the actuators                     *)
(*   bus        the bus task, which calls on_event                          *)
(*   mqtt       the library's task; it holds the library's lock while it    *)
(*              calls mqtt_event_handler                                    *)
(*   publisher  publisher_task                                              *)
(*   auto       auto_publisher_task                                         *)
(*                                                                         *)
(* A critical section is two steps: the one that takes the lock, and the one *)
(* that does the work and releases it.                                      *)
(***************************************************************************)
EXTENDS BusOps, FiniteSets

CONSTANTS
    Topics,             \* the topics of the actuators
    QueueLen,           \* capacity of publish_queue_
    MaxLinks,           \* bound on the connections made
    MaxMessages,        \* bound on incoming messages, errors and status requests
    MaxPublished        \* bound on what the periodic publisher sends

ASSUME MqttAssumption ==
    /\ QueueLen \in Nat \ {0}
    /\ MaxLinks \in Nat /\ MaxMessages \in Nat /\ MaxPublished \in Nat

Threads == {"main", "bus", "mqtt", "publisher", "auto"}
Locks == {"mutex_", "pub_mutex_", "sub_mutex_", "api"}
LibraryEvents == {"CONNECTED", "DISCONNECTED", "DATA", "ERROR"}
BusEvents == {"WIFI_STA_CONNECTED", "MQTT_CONNECTED", "MQTT_DISCONNECTED", "MQTT_MESSAGE",
              "MQTT_ERROR", "MQTT_STATUS_REQUEST_JSON"}

VARIABLES
    evt_queue, lost,    \* the bus, and whether MQTT_CONNECTED was dropped from it
    pc,                 \* where each task is
    holder,             \* the task that holds each lock, or "nobody"
    tasks,              \* the tasks that exist
    is_initialized_, is_connected_, queue_created,
    publish_queue_,     \* messages waiting, of no importance but their number
    subscribers_,       \* per topic: "none", "registered" or "subscribed"
    autoPublisher,      \* whether the publisher of "iot/hosts" is registered
    mqtt_event,         \* the library event in the handler's hands
    link,               \* whether the broker is connected
    broker_subs,        \* topics subscribed at the broker, in this session
    announced,          \* history: topics registered when the session began
    refused,            \* history: a subscription was refused
    mqtt_enabled,       \* the configuration's switch, as loaded at FS_READY
    links, messages, published  \* counters

bus == <<evt_queue, lost>>
flags == <<is_initialized_, is_connected_, queue_created>>
maps == <<subscribers_, autoPublisher>>
broker == <<mqtt_event, link, broker_subs, announced, refused, links>>
counters == <<messages, published, mqtt_enabled>>
vars == <<bus, pc, holder, tasks, flags, publish_queue_, maps, broker, counters>>

Init ==
    /\ evt_queue = << >> /\ lost = FALSE
    /\ pc = [t \in Threads |-> "idle"]
    /\ holder = [l \in Locks |-> "nobody"]
    /\ tasks = {"main", "bus"}
    /\ is_initialized_ = FALSE /\ is_connected_ = FALSE /\ queue_created = FALSE
    /\ publish_queue_ = 0
    /\ subscribers_ = [t \in Topics |-> "none"]
    /\ autoPublisher = FALSE
    /\ mqtt_event = "none" /\ link = "down" /\ broker_subs = {}
    /\ announced = {} /\ refused = FALSE
    /\ mqtt_enabled \in BOOLEAN
    /\ links = 0 /\ messages = 0 /\ published = 0

-----------------------------------------------------------------------------
Emit(e) ==
    /\ evt_queue' = Offer(evt_queue, e)
    /\ lost' = (lost \/ (e = "MQTT_CONNECTED" /\ ~HasRoom(evt_queue)))

Goto(t, from, to) == t \in tasks /\ pc[t] = from /\ pc' = [pc EXCEPT ![t] = to]

Take(l, t) == holder[l] = "nobody" /\ holder' = [holder EXCEPT ![l] = t]

Release(ls) == holder' = [l \in Locks |-> IF l \in ls THEN "nobody" ELSE holder[l]]

-----------------------------------------------------------------------------
(* app_main.                                                                 *)

main_lock ==
    /\ Goto("main", "idle", "register")
    /\ \E t \in Topics : subscribers_[t] = "none"
    /\ Take("sub_mutex_", "main")
    /\ UNCHANGED <<bus, tasks, flags, publish_queue_, maps, broker, counters>>

registerSubscriber ==
    /\ Goto("main", "register", "idle")
    /\ Release({"sub_mutex_"})
    /\ \E t \in Topics :
          /\ subscribers_[t] = "none"
          /\ subscribers_' = [subscribers_ EXCEPT ![t] = "registered"]
    /\ UNCHANGED <<bus, tasks, flags, publish_queue_, autoPublisher, broker, counters>>

-----------------------------------------------------------------------------
(* on_event, on the bus task.                                                *)

BusTakes(e, to) ==
    /\ Goto("bus", "idle", to)
    /\ evt_queue # << >> /\ Head(evt_queue) = e
    /\ evt_queue' = Tail(evt_queue)
    /\ UNCHANGED lost

\* The station has an address: the first time, init takes mutex_.
on_wifi_sta_connected ==
    /\ ~is_initialized_
    /\ BusTakes("WIFI_STA_CONNECTED", "init")
    /\ Take("mutex_", "bus")
    /\ UNCHANGED <<tasks, flags, publish_queue_, maps, broker, counters>>

\* Creating the tasks before the queue they use (faulty).
InitTasksFirst ==
    /\ mqtt_enabled
    /\ \/ /\ Goto("bus", "init", "started")
          /\ holder["api"] = "nobody"
          /\ tasks' = tasks \union {"mqtt"}
          /\ UNCHANGED <<holder, flags>>
       \/ /\ Goto("bus", "started", "queue")
          /\ tasks' = tasks \union {"publisher", "auto"}
          /\ UNCHANGED <<holder, flags>>
       \/ /\ Goto("bus", "queue", "idle")
          /\ queue_created' = TRUE
          /\ is_initialized_' = TRUE
          /\ Release({"mutex_"})
          /\ UNCHANGED <<is_connected_, tasks>>
    /\ UNCHANGED <<bus, publish_queue_, maps, broker, counters>>

\* init: start the library, create the queue, then the tasks; the new tasks run
\* at once, while mutex_ is still held.
init ==
    /\ mqtt_enabled
    /\ \/ /\ Goto("bus", "init", "started")
          /\ holder["api"] = "nobody"
          /\ tasks' = tasks \union {"mqtt"}
          /\ UNCHANGED <<holder, flags>>
       \/ /\ Goto("bus", "started", "queue")
          /\ queue_created' = TRUE
          /\ UNCHANGED <<holder, tasks, is_initialized_, is_connected_>>
       \/ /\ Goto("bus", "queue", "tasks")
          /\ tasks' = tasks \union {"publisher", "auto"}
          /\ UNCHANGED <<holder, flags>>
       \/ /\ Goto("bus", "tasks", "idle")
          /\ is_initialized_' = TRUE
          /\ Release({"mutex_"})
          /\ UNCHANGED <<queue_created, is_connected_, tasks>>
    /\ UNCHANGED <<bus, publish_queue_, maps, broker, counters>>

\* Nothing is started when MQTT is disabled; the next address tries again.
init_disabled ==
    /\ ~mqtt_enabled
    /\ Goto("bus", "init", "idle")
    /\ Release({"mutex_"})
    /\ UNCHANGED <<bus, tasks, flags, publish_queue_, maps, broker, counters>>

\* Giving up when pub_mutex_ is taken (faulty).
OnMqttConnectedTryLock ==
    /\ ~autoPublisher
    /\ BusTakes("MQTT_CONNECTED", IF holder["pub_mutex_"] = "nobody" THEN "publish" ELSE "idle")
    /\ IF holder["pub_mutex_"] = "nobody" THEN Take("pub_mutex_", "bus") ELSE UNCHANGED holder
    /\ UNCHANGED <<tasks, flags, publish_queue_, maps, broker, counters>>

\* registerPublisher, the first time.
on_mqtt_connected ==
    /\ ~autoPublisher
    /\ BusTakes("MQTT_CONNECTED", "publish")
    /\ Take("pub_mutex_", "bus")
    /\ UNCHANGED <<tasks, flags, publish_queue_, maps, broker, counters>>

registerPublisher ==
    /\ Goto("bus", "publish", "idle")
    /\ autoPublisher' = TRUE
    /\ Release({"pub_mutex_"})
    /\ UNCHANGED <<bus, tasks, flags, publish_queue_, subscribers_, broker, counters>>

\* Taking sub_mutex_ while still holding pub_mutex_ would be one more order of
\* locks; mqtt_status_to_json releases the first before it takes the second.
on_mqtt_status ==
    /\ \/ /\ BusTakes("MQTT_STATUS_REQUEST_JSON", "status_pub")
          /\ Take("pub_mutex_", "bus")
       \/ /\ Goto("bus", "status_pub", "status")
          /\ Release({"pub_mutex_"})
          /\ UNCHANGED bus
       \/ /\ Goto("bus", "status", "status_sub")
          /\ Take("sub_mutex_", "bus")
          /\ UNCHANGED bus
       \/ /\ Goto("bus", "status_sub", "idle")
          /\ Release({"sub_mutex_"})
          /\ UNCHANGED bus
    /\ UNCHANGED <<tasks, flags, publish_queue_, maps, broker, counters>>

on_other_event ==
    /\ \/ is_initialized_ /\ BusTakes("WIFI_STA_CONNECTED", "idle")
       \/ autoPublisher /\ BusTakes("MQTT_CONNECTED", "idle")
       \/ \E e \in {"MQTT_DISCONNECTED", "MQTT_MESSAGE", "MQTT_ERROR"} : BusTakes(e, "idle")
    /\ UNCHANGED <<holder, tasks, flags, publish_queue_, maps, broker, counters>>

eventbus_task ==
    \/ on_wifi_sta_connected \/ init \/ init_disabled \/ on_mqtt_connected \/ registerPublisher
    \/ on_mqtt_status \/ on_other_event

-----------------------------------------------------------------------------
(* The library's task.  It takes its own lock, decides what happened, and calls *)
(* the handler, which takes mutex_.                                            *)

\* A session is clean: it starts without subscriptions.
library_event ==
    /\ Goto("mqtt", "idle", "event")
    /\ Take("api", "mqtt")
    /\ \/ /\ link = "down" /\ links < MaxLinks
          /\ link' = "up" /\ links' = links + 1
          /\ mqtt_event' = "CONNECTED" /\ UNCHANGED messages
          /\ broker_subs' = {}
       \/ /\ link = "up"
          /\ link' = "down" /\ broker_subs' = {}
          /\ mqtt_event' = "DISCONNECTED" /\ UNCHANGED <<links, messages>>
       \/ /\ link = "up" /\ broker_subs # {} /\ messages < MaxMessages
          /\ mqtt_event' = "DATA" /\ messages' = messages + 1
          /\ UNCHANGED <<link, broker_subs, links>>
       \/ /\ messages < MaxMessages
          /\ mqtt_event' = "ERROR" /\ messages' = messages + 1
          /\ UNCHANGED <<link, broker_subs, links>>
    /\ UNCHANGED <<bus, tasks, flags, publish_queue_, maps, announced, refused, published,
                   mqtt_enabled>>

handler_lock ==
    /\ Goto("mqtt", "event", "handler")
    /\ Take("mutex_", "mqtt")
    /\ UNCHANGED <<bus, tasks, flags, publish_queue_, maps, broker, counters>>

HandlerFrame == UNCHANGED <<tasks, is_initialized_, queue_created, publish_queue_,
                            autoPublisher, mqtt_event, link, links, counters>>

\* MQTT_EVENT_CONNECTED: listenSubscribers takes sub_mutex_ too.
handler_connected ==
    /\ mqtt_event = "CONNECTED"
    /\ Goto("mqtt", "handler", "listen")
    /\ is_connected_' = TRUE
    /\ Take("sub_mutex_", "mqtt")
    /\ announced' = {t \in Topics : subscribers_[t] # "none"}
    /\ UNCHANGED <<bus, subscribers_, broker_subs, refused>>
    /\ HandlerFrame

\* Marking a topic subscribed whatever the library returned (faulty).
ListenUnchecked ==
    /\ Goto("mqtt", "listen", "idle")
    /\ \E ok \in SUBSET {t \in Topics : subscribers_[t] = "registered"} :
          /\ broker_subs' = broker_subs \union ok
          /\ refused' = (refused \/ ok # {t \in Topics : subscribers_[t] = "registered"})
    /\ subscribers_' = [t \in Topics |-> IF subscribers_[t] = "registered" THEN "subscribed"
                                         ELSE subscribers_[t]]
    /\ Emit("MQTT_CONNECTED")
    /\ Release({"sub_mutex_", "mutex_", "api"})
    /\ UNCHANGED <<is_connected_, announced>>
    /\ HandlerFrame

\* Each topic not subscribed yet, the library permitting.
listenSubscribers ==
    /\ Goto("mqtt", "listen", "idle")
    /\ \E ok \in SUBSET {t \in Topics : subscribers_[t] = "registered"} :
          /\ broker_subs' = broker_subs \union ok
          /\ subscribers_' = [t \in Topics |-> IF t \in ok THEN "subscribed" ELSE subscribers_[t]]
          /\ refused' = (refused \/ ok # {t \in Topics : subscribers_[t] = "registered"})
    /\ Emit("MQTT_CONNECTED")
    /\ Release({"sub_mutex_", "mutex_", "api"})
    /\ UNCHANGED <<is_connected_, announced>>
    /\ HandlerFrame

\* Forgetting to take the flag back (faulty).
HandlerKeepsFlag ==
    /\ Goto("mqtt", "handler", "idle")
    /\ \/ mqtt_event = "DISCONNECTED" /\ Emit("MQTT_DISCONNECTED")
       \/ mqtt_event = "DATA" /\ Emit("MQTT_MESSAGE")
       \/ mqtt_event = "ERROR" /\ Emit("MQTT_ERROR")
    /\ Release({"mutex_", "api"})
    /\ UNCHANGED <<is_connected_, subscribers_, broker_subs, announced, refused>>
    /\ HandlerFrame

\* The other events; DATA calls the subscriber's callback and publishes its
\* answer under both locks.
handler_other ==
    /\ Goto("mqtt", "handler", "idle")
    /\ \/ mqtt_event = "DISCONNECTED" /\ is_connected_' = FALSE /\ Emit("MQTT_DISCONNECTED")
       \/ mqtt_event = "DATA" /\ UNCHANGED is_connected_ /\ Emit("MQTT_MESSAGE")
       \/ mqtt_event = "ERROR" /\ UNCHANGED is_connected_ /\ Emit("MQTT_ERROR")
    /\ Release({"mutex_", "api"})
    /\ UNCHANGED <<subscribers_, broker_subs, announced, refused>>
    /\ HandlerFrame

mqtt_event_handler == handler_lock \/ handler_connected \/ listenSubscribers \/ handler_other

-----------------------------------------------------------------------------
(* The publishers.                                                           *)

PublisherFrame == UNCHANGED <<bus, tasks, flags, maps, broker, counters>>

\* Publishing inside the critical section of the check (faulty).
PublishUnderMutex ==
    /\ \/ /\ Goto("publisher", "idle", "check")
          /\ publish_queue_ > 0
          /\ publish_queue_' = publish_queue_ - 1
          /\ UNCHANGED holder
       \/ /\ Goto("publisher", "check", "connected")
          /\ Take("mutex_", "publisher")
          /\ UNCHANGED publish_queue_
       \/ /\ Goto("publisher", "connected", "publishing")
          /\ Take("api", "publisher")
          /\ UNCHANGED publish_queue_
       \/ /\ Goto("publisher", "publishing", "idle")
          /\ Release({"api", "mutex_"})
          /\ UNCHANGED publish_queue_
    /\ PublisherFrame

\* isConnected takes mutex_ and releases it; the library's lock comes later.
isConnected ==
    /\ \/ /\ Goto("publisher", "idle", "check")
          /\ publish_queue_ > 0
          /\ publish_queue_' = publish_queue_ - 1
          /\ UNCHANGED holder
       \/ /\ Goto("publisher", "check", "checking")
          /\ Take("mutex_", "publisher")
          /\ UNCHANGED publish_queue_
       \/ /\ Goto("publisher", "checking", IF is_connected_ THEN "connected" ELSE "idle")
          /\ Release({"mutex_"})
          /\ UNCHANGED publish_queue_
    /\ PublisherFrame

publisher_task ==
    \/ isConnected
    \/ /\ \/ Goto("publisher", "connected", "publishing") /\ Take("api", "publisher")
          \/ Goto("publisher", "publishing", "idle") /\ Release({"api"})
       /\ UNCHANGED publish_queue_
       /\ PublisherFrame

AutoFrame == UNCHANGED <<bus, tasks, flags, maps, broker, messages, mqtt_enabled>>

\* The periodic publisher holds pub_mutex_ while it offers the message; after
\* 100 ms without room the message is dropped.
auto_publisher_task ==
    /\ \/ /\ Goto("auto", "idle", "due")
          /\ published < MaxPublished
          /\ Take("pub_mutex_", "auto")
          /\ UNCHANGED <<publish_queue_, published>>
       \/ /\ Goto("auto", "due", "idle")
          /\ Release({"pub_mutex_"})
          /\ IF autoPublisher
             THEN /\ published' = published + 1
                  /\ publish_queue_' = IF publish_queue_ < QueueLen THEN publish_queue_ + 1
                                                                    ELSE publish_queue_
             ELSE UNCHANGED <<publish_queue_, published>>
    /\ AutoFrame

-----------------------------------------------------------------------------
\* The station gets an address; the web server asks for the status.
Environment ==
    /\ \/ Emit("WIFI_STA_CONNECTED")
       \/ Emit("MQTT_STATUS_REQUEST_JSON")
    /\ messages < MaxMessages
    /\ messages' = messages + 1
    /\ UNCHANGED <<pc, holder, tasks, flags, publish_queue_, maps, broker, published, mqtt_enabled>>

Next ==
    \/ main_lock \/ registerSubscriber
    \/ eventbus_task
    \/ library_event \/ mqtt_event_handler
    \/ publisher_task \/ auto_publisher_task
    \/ Environment

\* Every task that can run does.  Fairness is strong: a FreeRTOS mutex that is
\* given goes to a task waiting for it, and the periodic publisher sleeps 500 ms
\* before it takes pub_mutex_ again.  The network owes nothing.
Fairness ==
    /\ SF_vars(main_lock \/ registerSubscriber)
    /\ SF_vars(eventbus_task)
    /\ SF_vars(mqtt_event_handler)
    /\ SF_vars(publisher_task) /\ SF_vars(auto_publisher_task)

Spec == Init /\ [][Next]_vars /\ Fairness

-----------------------------------------------------------------------------
TypeOK ==
    /\ evt_queue \in Seq(BusEvents) /\ Len(evt_queue) <= QUEUE_LEN
    /\ lost \in BOOLEAN
    /\ DOMAIN pc = Threads /\ holder \in [Locks -> Threads \union {"nobody"}]
    /\ tasks \subseteq Threads /\ mqtt_enabled \in BOOLEAN
    /\ is_initialized_ \in BOOLEAN /\ is_connected_ \in BOOLEAN /\ queue_created \in BOOLEAN
    /\ publish_queue_ \in 0 .. QueueLen
    /\ subscribers_ \in [Topics -> {"none", "registered", "subscribed"}]
    /\ autoPublisher \in BOOLEAN
    /\ mqtt_event \in LibraryEvents \union {"none"}
    /\ link \in {"up", "down"} /\ broker_subs \subseteq Topics /\ announced \subseteq Topics

\* The publishers find their queue, and the handler of the library's events a
\* client that is initialized, although the library's task and the publishers
\* run before init is over.
InitBeforeUse ==
    /\ "publisher" \in tasks \/ "auto" \in tasks => queue_created
    /\ pc["mqtt"] \in {"handler", "listen"} => is_initialized_

\* The flag says what the broker knows, once the handler is through.
ConnectedIsTrue == pc["mqtt"] = "idle" => (is_connected_ <=> link = "up")

\* In its first session the client is subscribed to every topic that was
\* registered before it, and marks no other as subscribed.
FirstSessionSubscribed ==
    links = 1 /\ is_connected_ /\ pc["mqtt"] = "idle" =>
        /\ ~refused => announced \subseteq broker_subs
        /\ \A t \in Topics : subscribers_[t] = "subscribed" => t \in broker_subs

\* No task waits for ever for a lock: the bus task gets through every event,
\* whatever lock its handler needs, the library's task through its handler, and
\* the messages leave the queue.
EveryTaskGetsOn ==
    /\ pc["bus"] # "idle" \/ evt_queue # << >> ~> pc["bus"] = "idle" /\ evt_queue = << >>
    /\ pc["mqtt"] # "idle" ~> pc["mqtt"] = "idle"
    /\ publish_queue_ > 0 ~> publish_queue_ = 0

\* Once connected, the device announces itself, if MQTT_CONNECTED got through.
AnnouncesItself == is_connected_ /\ ~lost ~> autoPublisher \/ lost

\* README "robust reconnection": after each connection, not only the first, the
\* topics marked as subscribed are subscribed.
ResubscribedAfterReconnect ==
    is_connected_ /\ pc["mqtt"] = "idle" =>
        \A t \in Topics : subscribers_[t] = "subscribed" => t \in broker_subs
=============================================================================
