----------------------------- MODULE BootProofs -----------------------------
(***************************************************************************)
(* Machine-checked proofs of the startup order of Boot, that nothing in it   *)
(* happens twice, that no event of it is lost, and that it never ends half   *)
(* done: for every order of registration, every set of units with a copy of  *)
(* camera.h, every feature configuration and any number of network events;   *)
(* the last two for a bus of four places or more, the others for any bus.    *)
(*                                                                         *)
(* Four arguments: every event on the bus, queued or in dispatch, has its    *)
(* cause, and causes do not go away; the boot is a chain of events, none of  *)
(* which comes back; what is queued at the same time belongs to different    *)
(* lanes; and every stage that is not done is owed an event that is under way *)
(* to it.                                                                   *)
(***************************************************************************)
EXTENDS Boot, SequenceTheorems, FiniteSetTheorems, TLAPS

\* What must have happened before an event can be on the bus.
Cause(e) ==
    /\ e \in LoadedAp => ended["load_ap"] > 0
    /\ e \in LoadedSta => ended["load_sta"] > 0
    /\ e = "HTTPD_START" => g_sta_ap_ready
    /\ e = "WIFI_STA_CONNECTED" => wifi = "started" /\ got_ips > 0
    /\ e = "CAMERA_INIT_DONE" => sensor = "ready"

QueueCaused == \A j \in 1 .. Len(evt_queue) : Cause(evt_queue[j])

EvtCaused == cursor # 0 => Cause(evt)

\* No task ends more often than it was created.
EndedAfterStarted == \A t \in Tasks : ended[t] <= started[t]

\* The flags of WiFiManager, and the tasks they start.
ManagerCaused ==
    /\ g_ap_ready => ended["load_ap"] > 0
    /\ g_sta_ready => ended["load_sta"] > 0
    /\ g_sta_ap_ready => g_ap_ready /\ g_sta_ready
    /\ started["wifi_connect"] > 0 => g_sta_ap_ready
    /\ started["httpd_async"] > 0 => g_sta_ap_ready
    /\ wifi # "off" => started["wifi_connect"] > 0
    /\ httpd # "off" => started["httpd_async"] > 0

\* FS_READY loads the MQTT configuration in the same dispatch in which it
\* starts load_ap: while that dispatch lasts MqttClient may still be to come,
\* but no later event is dispatched before it.
MqttToCome ==
    \E k \in DOMAIN subscribers : k >= cursor /\ subscribers[k] = "MqttClient"

MqttLoadedInTime ==
    /\ started["load_ap"] > 0 => mqtt_loaded \/ (cursor # 0 /\ evt = "FS_READY")
    /\ cursor # 0 /\ evt = "FS_READY" => mqtt_loaded \/ MqttToCome

CameraCaused ==
    \A c \in CameraTUs :
        /\ camera_init[c] => sensor = "ready"
        /\ wifi_connected[c] => got_ips > 0

\* The inductive invariant.
Inv ==
    /\ TypeOK
    /\ QueueCaused
    /\ EvtCaused
    /\ EndedAfterStarted
    /\ ManagerCaused
    /\ MqttLoadedInTime
    /\ CameraCaused
    /\ MqttAfterWiFi
    /\ StreamAfterDevices

\* Causes last: ended counts, the latch and the address count only go up, WiFi
\* stays started and the sensor ready.
CausesLast ==
    /\ ended["load_ap"] > 0 => ended'["load_ap"] > 0
    /\ ended["load_sta"] > 0 => ended'["load_sta"] > 0
    /\ g_sta_ap_ready => g_sta_ap_ready'
    /\ wifi = "started" => wifi' = "started"
    /\ got_ips > 0 => got_ips' > 0
    /\ sensor = "ready" => sensor' = "ready"

\* Cause(e) after the step, for a value e from before or after it.
CauseNext(e) ==
    /\ e \in LoadedAp => ended'["load_ap"] > 0
    /\ e \in LoadedSta => ended'["load_sta"] > 0
    /\ e = "HTTPD_START" => g_sta_ap_ready'
    /\ e = "WIFI_STA_CONNECTED" => wifi' = "started" /\ got_ips' > 0
    /\ e = "CAMERA_INIT_DONE" => sensor' = "ready"

-----------------------------------------------------------------------------
\* Lemma: the cause of an event lasts.
LEMMA CauseLasts ==
    ASSUME CausesLast, NEW e, Cause(e)
    PROVE  CauseNext(e)
BY DEF CausesLast, Cause, CauseNext

\* Lemma: the queue is caused after a step when each of its events is.
LEMMA QueueCausedNext ==
    ASSUME \A j \in 1 .. Len(evt_queue') : CauseNext(evt_queue'[j])
    PROVE  QueueCaused'
BY DEF QueueCaused, Cause, CauseNext

\* Lemma: a step that leaves the queue alone keeps it caused.
LEMMA QueueKept ==
    ASSUME QueueCaused, CausesLast, evt_queue' = evt_queue
    PROVE  QueueCaused'
BY CauseLasts, QueueCausedNext DEF QueueCaused

\* Lemma: emitting a caused event keeps the queue typed and caused.
LEMMA EmitKeeps ==
    ASSUME TypeOK, QueueCaused, CausesLast, NEW e \in Events, Emit(e), CauseNext(e)
    PROVE  /\ evt_queue' \in Seq(Events) /\ Len(evt_queue') <= QUEUE_LEN
           /\ dropped' \subseteq Events
           /\ QueueCaused'
<1> USE QueueLenAssumption
<1>1. evt_queue \in Seq(Events) /\ Len(evt_queue) \in Nat /\ Len(evt_queue) <= QUEUE_LEN
  BY LenProperties DEF TypeOK
<1>2. CASE HasRoom(evt_queue)
  <2>1. evt_queue' = Append(evt_queue, e)
    BY <1>2 DEF Emit, Offer
  <2>2. /\ evt_queue' \in Seq(Events) /\ Len(evt_queue') = Len(evt_queue) + 1
        /\ \A j \in 1 .. Len(evt_queue) : evt_queue'[j] = evt_queue[j]
        /\ evt_queue'[Len(evt_queue) + 1] = e
    BY <1>1, <2>1, AppendProperties
  <2>3. Len(evt_queue') <= QUEUE_LEN
    BY <1>1, <1>2, <2>2 DEF HasRoom
  <2>4. ASSUME NEW j \in 1 .. Len(evt_queue') PROVE CauseNext(evt_queue'[j])
    <3>1. CASE j = Len(evt_queue) + 1
      BY <2>2, <3>1
    <3>2. CASE j # Len(evt_queue) + 1
      <4>1. j \in 1 .. Len(evt_queue)
        BY <1>1, <2>2, <3>2
      <4>2. CauseNext(evt_queue[j])
        BY <4>1, CauseLasts DEF QueueCaused
      <4> QED BY <2>2, <4>1, <4>2
    <3> QED BY <3>1, <3>2
  <2>5. QueueCaused'
    BY <2>4, QueueCausedNext
  <2> QED BY <1>2, <2>2, <2>3, <2>5 DEF Emit, TypeOK
<1>3. CASE ~HasRoom(evt_queue)
  <2>1. evt_queue' = evt_queue
    BY <1>3 DEF Emit, Offer
  <2> QED BY <1>1, <1>3, <2>1, QueueKept DEF Emit, TypeOK
<1> QED BY <1>2, <1>3

\* Lemma: what a call of a handler knows and keeps, whatever it does besides.
\* The first conjunct is the type of the loop; a call that is not MqttClient's
\* leaves MqttClient's registration where it was, at or after the cursor.
LEMMA CallFacts ==
    ASSUME Inv, NEW m, Call(m)
    PROVE  /\ cursor \in 1 .. Len(subscribers) /\ cursor # 0 /\ cursor' # 0
           /\ cursor' \in 0 .. Len(subscribers') + 1
           /\ subscribers' = subscribers /\ subscribers' \in Orders
           /\ evt' = evt /\ evt' \in Events /\ main' = main
           /\ UNCHANGED world
           /\ Cause(evt)
           /\ m # "MqttClient" /\ MqttToCome => MqttToCome'
<1>1. subscribers \in Orders /\ cursor \in 0 .. Len(subscribers) + 1
  BY DEF Inv, TypeOK
<1>2. subscribers \in Seq(Modules \union CameraTUs \union {"api"})
  BY <1>1, BootAssumption
<1>3. DOMAIN subscribers = 1 .. Len(subscribers) /\ Len(subscribers) \in Nat
  BY <1>2, LenProperties
<1>4. /\ cursor \in 1 .. Len(subscribers) /\ subscribers[cursor] = m
      /\ cursor' = cursor + 1 /\ subscribers' = subscribers /\ evt' = evt /\ main' = main
      /\ UNCHANGED world
  BY <1>3 DEF Call
<1>5. Cause(evt) /\ evt \in Events
  BY <1>4 DEF Inv, EvtCaused, TypeOK
<1>6. m # "MqttClient" /\ MqttToCome => MqttToCome'
  <2> SUFFICES ASSUME m # "MqttClient", NEW k \in DOMAIN subscribers, k >= cursor,
                      subscribers[k] = "MqttClient"
               PROVE  k >= cursor'
    BY <1>4 DEF MqttToCome
  <2>1. k # cursor
    BY <1>4
  <2> QED BY <1>3, <1>4, <2>1
<1> QED BY <1>1, <1>3, <1>4, <1>5, <1>6

\* Lemma: what creating tasks does to the counts.
LEMMA SpawnFacts ==
    ASSUME Inv, NEW ts, Spawn(ts) \/ UNCHANGED tasks
    PROVE  /\ started' \in [Tasks -> Nat] /\ ended' \in [Tasks -> Nat] /\ ended' = ended
           /\ EndedAfterStarted'
           /\ \A t \in Tasks : t \notin ts => started'[t] = started[t]
           /\ \A t \in Tasks : started[t] > 0 => started'[t] > 0
<1>1. started \in [Tasks -> Nat] /\ ended \in [Tasks -> Nat] /\ EndedAfterStarted
  BY DEF Inv, TypeOK
<1>2. CASE UNCHANGED tasks
  BY <1>1, <1>2 DEF tasks, EndedAfterStarted
<1>3. CASE Spawn(ts)
  <2>1. started' = [t \in Tasks |-> started[t] + IF t \in ts THEN 1 ELSE 0] /\ ended' = ended
    BY <1>3 DEF Spawn
  <2>2. \A t \in Tasks : started'[t] \in Nat /\ started'[t] >= started[t]
                         /\ (t \notin ts => started'[t] = started[t])
    BY <1>1, <2>1
  <2>3. started' \in [Tasks -> Nat]
    BY <1>1, <2>1
  <2>4. EndedAfterStarted'
    BY <1>1, <2>1, <2>2 DEF EndedAfterStarted
  <2> QED BY <1>1, <2>1, <2>2, <2>3, <2>4
<1> QED BY <1>2, <1>3

-----------------------------------------------------------------------------
\* Lemma: the device starts in the invariant.
LEMMA InitInv == Init => Inv
<1> SUFFICES ASSUME Init PROVE Inv
  OBVIOUS
<1> USE QueueLenAssumption, EmptySeq DEF Init
<1>1. Len(subscribers) \in Nat
  BY BootAssumption, LenProperties
<1>2. evt_queue \in Seq(Events) /\ Len(evt_queue) <= QUEUE_LEN /\ evt \in Events
  BY DEF Events, BootEvents
<1>3. TypeOK
  <2>1. started \in [Tasks -> Nat] /\ ended \in [Tasks -> Nat]
    OBVIOUS
  <2>2. /\ wifi_connected \in [CameraTUs -> BOOLEAN]
        /\ camera_init \in [CameraTUs -> BOOLEAN]
        /\ stream_started \in [CameraTUs -> BOOLEAN]
    OBVIOUS
  <2>3. cursor \in 0 .. Len(subscribers) + 1 /\ dropped \subseteq Events
    BY <1>1
  <2> QED BY <1>2, <2>1, <2>2, <2>3 DEF TypeOK
<1>4. QueueCaused /\ EvtCaused /\ EndedAfterStarted /\ ManagerCaused
  BY DEF QueueCaused, EvtCaused, EndedAfterStarted, ManagerCaused, Tasks
<1>5. MqttLoadedInTime /\ CameraCaused /\ MqttAfterWiFi /\ StreamAfterDevices
  BY DEF MqttLoadedInTime, CameraCaused, MqttAfterWiFi, StreamAfterDevices, Tasks
<1> QED BY <1>3, <1>4, <1>5 DEF Inv

\* The tasks whose creation the startup order is about.
KeyTasks == {"load_ap", "wifi_connect", "httpd_async", "mjpeg_server"}

\* Lemma: a handler call that changes no flag, creates no key task and emits at
\* most FS_READY.
LEMMA PlainHandlerInv ==
    ASSUME Inv, NEW m, Call(m), m # "MqttClient",
           UNCHANGED <<manager, server_started, mqtt, sensor, camera>>,
           NEW ts, Spawn(ts) \/ UNCHANGED tasks, ts \intersect KeyTasks = {},
           UNCHANGED bus \/ Emit("FS_READY")
    PROVE  Inv'
<1> USE DEF Inv, manager, mqtt, camera, world, bus
<1>1. /\ cursor # 0 /\ cursor' # 0 /\ cursor' \in 0 .. Len(subscribers') + 1
      /\ subscribers' \in Orders /\ evt' = evt /\ evt' \in Events /\ main' = main
      /\ UNCHANGED world /\ Cause(evt)
      /\ MqttToCome => MqttToCome'
  BY CallFacts
<1>2. /\ started' \in [Tasks -> Nat] /\ ended' \in [Tasks -> Nat] /\ ended' = ended
      /\ EndedAfterStarted'
      /\ \A t \in KeyTasks : started'[t] = started[t]
  BY SpawnFacts DEF Tasks, KeyTasks
<1>3. CausesLast
  BY <1>1, <1>2 DEF CausesLast
<1>4. /\ evt_queue' \in Seq(Events) /\ Len(evt_queue') <= QUEUE_LEN
      /\ dropped' \subseteq Events /\ QueueCaused'
  <2>1. CASE Emit("FS_READY")
    <3>1. "FS_READY" \in Events /\ CauseNext("FS_READY")
      BY DEF Events, BootEvents, CauseNext, LoadedAp, LoadedSta
    <3> QED BY <1>3, <2>1, <3>1, EmitKeeps
  <2>2. CASE UNCHANGED bus
    BY <1>3, <2>2, QueueKept DEF TypeOK
  <2> QED BY <2>1, <2>2
<1>5. TypeOK'
  BY <1>1, <1>2, <1>4 DEF TypeOK
<1>6. EvtCaused' /\ ManagerCaused' /\ CameraCaused' /\ MqttAfterWiFi' /\ StreamAfterDevices'
  BY <1>1, <1>2
  DEF EvtCaused, Cause, ManagerCaused, CameraCaused, MqttAfterWiFi, StreamAfterDevices, KeyTasks
<1>7. MqttLoadedInTime'
  BY <1>1, <1>2 DEF MqttLoadedInTime, KeyTasks
<1> QED BY <1>2, <1>4, <1>5, <1>6, <1>7

\* Lemma: a handler call without effect.
LEMMA IdleHandlerInv ==
    ASSUME Inv, NEW m, Call(m), m # "MqttClient", Quiet,
           UNCHANGED <<manager, server_started, mqtt, sensor, camera>>
    PROVE  Inv'
<1>1. {} \intersect KeyTasks = {} /\ (Spawn({}) \/ UNCHANGED tasks) /\ UNCHANGED bus
  BY DEF Quiet
<1> QED BY <1>1, PlainHandlerInv

\* Lemma: FS::on_event.
LEMMA FSInv == Inv /\ FS_on_event => Inv'
<1> SUFFICES ASSUME Inv, FS_on_event PROVE Inv'
  OBVIOUS
<1>1. Call("FS") /\ UNCHANGED <<manager, server_started, mqtt, sensor, camera>>
  BY DEF FS_on_event
<1>2. CASE Spawn({IF SD THEN "mount_dual" ELSE "mount_littlefs"}) /\ UNCHANGED bus
  BY <1>1, <1>2, PlainHandlerInv DEF KeyTasks
<1>3. CASE Spawn({"mount_littlefs"}) /\ UNCHANGED bus
  BY <1>1, <1>3, PlainHandlerInv DEF KeyTasks
<1>4. CASE UNCHANGED tasks /\ (UNCHANGED bus \/ Emit("FS_READY"))
  <2>1. {} \intersect KeyTasks = {} /\ (Spawn({}) \/ UNCHANGED tasks)
    BY <1>4
  <2> QED BY <1>1, <1>4, <2>1, PlainHandlerInv
<1> QED BY <1>2, <1>3, <1>4 DEF FS_on_event, Quiet

\* Lemma: IotSD::on_event.
LEMMA IotSDInv == Inv /\ IotSD_on_event => Inv'
<1> SUFFICES ASSUME Inv, IotSD_on_event PROVE Inv'
  OBVIOUS
<1>1. Call("IotSD") /\ UNCHANGED <<manager, server_started, mqtt, sensor, camera>>
  BY DEF IotSD_on_event
<1>2. CASE Spawn({"mount_async"}) /\ UNCHANGED bus
  BY <1>1, <1>2, PlainHandlerInv DEF KeyTasks
<1>3. CASE Quiet
  BY <1>1, <1>3, IdleHandlerInv
<1> QED BY <1>2, <1>3 DEF IotSD_on_event

\* Lemma: WiFiConfig::on_event.  load_ap is created while FS_READY is in
\* dispatch, so MqttClient has loaded its configuration or is still to come.
LEMMA WiFiConfigInv == Inv /\ WiFiConfig_on_event => Inv'
<1> SUFFICES ASSUME Inv, WiFiConfig_on_event PROVE Inv'
  OBVIOUS
<1> USE DEF Inv, manager, mqtt, camera, world, bus
<1>1. Call("WiFiConfig") /\ UNCHANGED <<manager, server_started, mqtt, sensor, camera>>
  BY DEF WiFiConfig_on_event
<1>2. CASE Quiet
  BY <1>1, <1>2, IdleHandlerInv
<1>3. CASE evt = "FS_READY" /\ Spawn({"load_ap", "load_sta"}) /\ UNCHANGED bus
  <2>1. /\ cursor # 0 /\ cursor' # 0 /\ cursor' \in 0 .. Len(subscribers') + 1
        /\ subscribers' \in Orders /\ evt' = evt /\ evt' \in Events /\ main' = main
        /\ UNCHANGED world /\ Cause(evt)
        /\ MqttToCome => MqttToCome'
    BY <1>1, CallFacts
  <2>2. /\ started' \in [Tasks -> Nat] /\ ended' \in [Tasks -> Nat] /\ ended' = ended
        /\ EndedAfterStarted'
        /\ \A t \in {"wifi_connect", "httpd_async", "mjpeg_server"} : started'[t] = started[t]
    BY <1>3, SpawnFacts DEF Tasks
  <2>3. CausesLast
    BY <1>1, <2>1, <2>2 DEF CausesLast
  <2>4. QueueCaused'
    BY <1>3, <2>3, QueueKept
  <2>5. TypeOK'
    BY <1>1, <1>3, <2>1, <2>2 DEF TypeOK
  <2>6. EvtCaused' /\ ManagerCaused' /\ CameraCaused' /\ MqttAfterWiFi' /\ StreamAfterDevices'
    BY <1>1, <2>1, <2>2
    DEF EvtCaused, Cause, ManagerCaused, CameraCaused, MqttAfterWiFi, StreamAfterDevices
  <2>7. MqttLoadedInTime'
    BY <1>1, <1>3, <2>1 DEF MqttLoadedInTime
  <2> QED BY <2>2, <2>4, <2>5, <2>6, <2>7
<1> QED BY <1>2, <1>3 DEF WiFiConfig_on_event

\* Lemma: WiFiManager::on_event.  The latch goes up when both flags are.
LEMMA WiFiManagerInv == Inv /\ WiFiManager_on_event => Inv'
<1> SUFFICES ASSUME Inv, WiFiManager_on_event PROVE Inv'
  OBVIOUS
<1> USE DEF Inv, mqtt, camera, world, bus
<1>1. Call("WiFiManager") /\ UNCHANGED <<server_started, mqtt, sensor, camera>>
  BY DEF WiFiManager_on_event
<1>2. /\ cursor # 0 /\ cursor' # 0 /\ cursor' \in 0 .. Len(subscribers') + 1
      /\ subscribers' \in Orders /\ evt' = evt /\ evt' \in Events /\ main' = main
      /\ UNCHANGED world /\ Cause(evt)
      /\ MqttToCome => MqttToCome'
  BY <1>1, CallFacts
<1>3. /\ g_ap_ready' = (g_ap_ready \/ evt \in LoadedAp)
      /\ g_sta_ready' = (g_sta_ready \/ evt \in LoadedSta)
  BY DEF WiFiManager_on_event
<1>4. g_ap_ready' \in BOOLEAN /\ g_sta_ready' \in BOOLEAN /\ g_sta_ap_ready' \in BOOLEAN
  BY <1>3 DEF WiFiManager_on_event, TypeOK
<1>5. (g_ap_ready' => ended["load_ap"] > 0) /\ (g_sta_ready' => ended["load_sta"] > 0)
  BY <1>2, <1>3 DEF Cause, ManagerCaused
<1>6. CASE Quiet /\ UNCHANGED g_sta_ap_ready
  <2>1. started' = started /\ ended' = ended /\ CausesLast
    BY <1>1, <1>2, <1>6 DEF Quiet, tasks, CausesLast
  <2>2. QueueCaused'
    BY <1>6, <2>1, QueueKept DEF Quiet
  <2>3. TypeOK'
    BY <1>1, <1>2, <1>4, <1>6, <2>1 DEF TypeOK, Quiet
  <2>4. EvtCaused' /\ EndedAfterStarted' /\ CameraCaused' /\ MqttAfterWiFi' /\ StreamAfterDevices'
    BY <1>1, <1>2, <1>6, <2>1
    DEF EvtCaused, Cause, EndedAfterStarted, CameraCaused, MqttAfterWiFi, StreamAfterDevices
  <2>5. ManagerCaused'
    BY <1>2, <1>3, <1>5, <1>6, <2>1 DEF ManagerCaused
  <2>6. MqttLoadedInTime'
    BY <1>1, <1>2, <2>1 DEF MqttLoadedInTime
  <2> QED BY <2>2, <2>3, <2>4, <2>5, <2>6
<1>7. CASE /\ g_sta_ready' /\ g_ap_ready'
           /\ Spawn({"wifi_connect"}) /\ Emit("HTTPD_START") /\ g_sta_ap_ready' = TRUE
  <2>1. /\ started' \in [Tasks -> Nat] /\ ended' \in [Tasks -> Nat] /\ ended' = ended
        /\ EndedAfterStarted'
        /\ started'["wifi_connect"] >= started["wifi_connect"]
        /\ \A t \in {"load_ap", "httpd_async", "mjpeg_server"} : started'[t] = started[t]
    <3>1. started' = [t \in Tasks |-> started[t] + IF t \in {"wifi_connect"} THEN 1 ELSE 0]
      BY <1>7 DEF Spawn
    <3>2. started'["wifi_connect"] >= started["wifi_connect"]
      <4>1. "wifi_connect" \in Tasks /\ started["wifi_connect"] \in Nat
        BY DEF Tasks, TypeOK
      <4>2. started'["wifi_connect"] = started["wifi_connect"] + 1
        BY <3>1, <4>1
      <4> QED BY <4>1, <4>2
    <3>3. /\ started' \in [Tasks -> Nat] /\ ended' \in [Tasks -> Nat] /\ ended' = ended
          /\ EndedAfterStarted'
          /\ \A t \in Tasks : t \notin {"wifi_connect"} => started'[t] = started[t]
      BY <1>7, SpawnFacts
    <3> QED BY <3>2, <3>3 DEF Tasks
  <2>2. CausesLast
    BY <1>1, <1>2, <1>7, <2>1 DEF CausesLast
  <2>3. "HTTPD_START" \in Events /\ CauseNext("HTTPD_START")
    BY <1>7 DEF Events, BootEvents, CauseNext, LoadedAp, LoadedSta
  <2>4. /\ evt_queue' \in Seq(Events) /\ Len(evt_queue') <= QUEUE_LEN
        /\ dropped' \subseteq Events /\ QueueCaused'
    BY <1>7, <2>2, <2>3, EmitKeeps
  <2>5. TypeOK'
    BY <1>1, <1>2, <1>4, <2>1, <2>4 DEF TypeOK
  <2>6. EvtCaused' /\ CameraCaused' /\ MqttAfterWiFi' /\ StreamAfterDevices'
    BY <1>1, <1>2, <1>7, <2>1
    DEF EvtCaused, Cause, CameraCaused, MqttAfterWiFi, StreamAfterDevices
  <2>7. ManagerCaused'
    <3>1. started["wifi_connect"] \in Nat /\ started'["wifi_connect"] \in Nat
      BY <2>1 DEF TypeOK, Tasks
    <3> QED BY <1>2, <1>5, <1>7, <2>1, <3>1 DEF ManagerCaused
  <2>8. MqttLoadedInTime'
    BY <1>1, <1>2, <2>1 DEF MqttLoadedInTime
  <2> QED BY <2>1, <2>4, <2>5, <2>6, <2>7, <2>8
<1> QED BY <1>6, <1>7 DEF WiFiManager_on_event

\* Lemma: api::on_event.  HTTPD_START on the bus means that the latch is up.
LEMMA ApiInv == Inv /\ api_on_event => Inv'
<1> SUFFICES ASSUME Inv, api_on_event PROVE Inv'
  OBVIOUS
<1> USE DEF Inv, manager, mqtt, camera, world, bus
<1>1. Call("api") /\ UNCHANGED <<manager, mqtt, sensor, camera>>
  BY DEF api_on_event
<1>2. CASE Quiet /\ UNCHANGED server_started
  BY <1>1, <1>2, IdleHandlerInv
<1>3. CASE /\ evt = "HTTPD_START"
           /\ Spawn({"httpd_async"}) /\ Emit("NONE") /\ server_started' = TRUE
  <2>1. /\ cursor # 0 /\ cursor' # 0 /\ cursor' \in 0 .. Len(subscribers') + 1
        /\ subscribers' \in Orders /\ evt' = evt /\ evt' \in Events /\ main' = main
        /\ UNCHANGED world /\ Cause(evt)
        /\ MqttToCome => MqttToCome'
    BY <1>1, CallFacts
  <2>2. /\ started' \in [Tasks -> Nat] /\ ended' \in [Tasks -> Nat] /\ ended' = ended
        /\ EndedAfterStarted'
        /\ started["httpd_async"] > 0 => started'["httpd_async"] > 0
        /\ \A t \in {"load_ap", "wifi_connect", "mjpeg_server"} : started'[t] = started[t]
    BY <1>3, SpawnFacts DEF Tasks
  <2>3. CausesLast
    BY <1>1, <2>1, <2>2 DEF CausesLast
  <2>4. "NONE" \in Events /\ CauseNext("NONE")
    BY DEF Events, CauseNext, LoadedAp, LoadedSta
  <2>5. /\ evt_queue' \in Seq(Events) /\ Len(evt_queue') <= QUEUE_LEN
        /\ dropped' \subseteq Events /\ QueueCaused'
    BY <1>3, <2>3, <2>4, EmitKeeps
  <2>6. TypeOK'
    BY <1>1, <1>3, <2>1, <2>2, <2>5 DEF TypeOK
  <2>7. g_sta_ap_ready
    BY <1>3, <2>1 DEF Cause
  <2>8. EvtCaused' /\ CameraCaused' /\ MqttAfterWiFi' /\ StreamAfterDevices' /\ ManagerCaused'
    BY <1>1, <2>1, <2>2, <2>7
    DEF EvtCaused, Cause, CameraCaused, MqttAfterWiFi, StreamAfterDevices, ManagerCaused
  <2>9. MqttLoadedInTime'
    BY <1>1, <2>1, <2>2 DEF MqttLoadedInTime
  <2> QED BY <2>2, <2>5, <2>6, <2>8, <2>9
<1> QED BY <1>2, <1>3 DEF api_on_event

\* Lemma: MqttClient::on_event.  WIFI_STA_CONNECTED in dispatch means that WiFi
\* runs, hence that load_ap was created in an earlier dispatch of FS_READY, in
\* which this handler loaded the configuration.
LEMMA MqttInv == Inv /\ MqttClient_on_event => Inv'
<1> SUFFICES ASSUME Inv, MqttClient_on_event PROVE Inv'
  OBVIOUS
<1> USE DEF Inv, manager, camera, world, bus, tasks, mqtt
<1>1. Call("MqttClient") /\ Quiet /\ UNCHANGED <<manager, server_started, sensor, camera>>
  BY DEF MqttClient_on_event
<1>2. /\ cursor # 0 /\ cursor' # 0 /\ cursor' \in 0 .. Len(subscribers') + 1
      /\ subscribers' \in Orders /\ evt' = evt /\ evt' \in Events /\ main' = main
      /\ UNCHANGED world /\ Cause(evt)
  BY <1>1, CallFacts
<1>3. UNCHANGED <<started, ended, evt_queue, dropped>> /\ CausesLast
  BY <1>1, <1>2 DEF Quiet, CausesLast
<1>4. QueueCaused'
  BY <1>3, QueueKept
<1>5. /\ mqtt_loaded' \in BOOLEAN /\ mqtt_enabled' \in BOOLEAN
      /\ is_initialized' \in BOOLEAN /\ hosts_registered' \in BOOLEAN
  BY DEF MqttClient_on_event, TypeOK
<1>6. /\ mqtt_loaded \/ evt = "FS_READY" => mqtt_loaded'
      /\ is_initialized' => is_initialized \/ evt = "WIFI_STA_CONNECTED"
  BY DEF MqttClient_on_event
<1>7. TypeOK'
  BY <1>1, <1>2, <1>3, <1>5 DEF TypeOK
<1>8. EvtCaused' /\ EndedAfterStarted' /\ ManagerCaused' /\ CameraCaused' /\ StreamAfterDevices'
  BY <1>1, <1>2, <1>3
  DEF EvtCaused, Cause, EndedAfterStarted, ManagerCaused, CameraCaused, StreamAfterDevices
<1>9. MqttLoadedInTime'
  BY <1>2, <1>3, <1>6 DEF MqttLoadedInTime
<1>10. MqttAfterWiFi'
  <2>1. CASE evt = "WIFI_STA_CONNECTED"
    <3>1. wifi = "started"
      BY <1>2, <2>1 DEF Cause
    <3>2. ended["load_ap"] > 0
      BY <3>1 DEF ManagerCaused
    <3>3. started["load_ap"] > 0
      BY <3>2 DEF EndedAfterStarted, TypeOK, Tasks
    <3>4. mqtt_loaded
      BY <2>1, <3>3 DEF MqttLoadedInTime
    <3> QED BY <1>2, <1>6, <3>1, <3>4 DEF MqttAfterWiFi
  <2>2. CASE evt # "WIFI_STA_CONNECTED"
    BY <1>2, <1>6, <2>2 DEF MqttAfterWiFi
  <2> QED BY <2>1, <2>2
<1> QED BY <1>4, <1>7, <1>8, <1>9, <1>10

\* Lemma: CameraController::on_event.
LEMMA ControllerInv == Inv /\ CameraController_on_event => Inv'
<1> SUFFICES ASSUME Inv, CameraController_on_event PROVE Inv'
  OBVIOUS
<1> USE DEF Inv, manager, mqtt, camera, world, bus, tasks
<1>1. /\ Call("CameraController")
      /\ UNCHANGED <<tasks, manager, server_started, mqtt, camera>>
  BY DEF CameraController_on_event
<1>2. /\ cursor # 0 /\ cursor' # 0 /\ cursor' \in 0 .. Len(subscribers') + 1
      /\ subscribers' \in Orders /\ evt' = evt /\ evt' \in Events /\ main' = main
      /\ UNCHANGED world /\ Cause(evt)
      /\ MqttToCome => MqttToCome'
  BY <1>1, CallFacts
<1>3. (sensor = "ready" => sensor' = "ready") /\ sensor' \in {"off", "ready", "failed"}
  BY DEF CameraController_on_event, TypeOK
<1>4. CausesLast
  BY <1>1, <1>2, <1>3 DEF CausesLast
<1>5. /\ evt_queue' \in Seq(Events) /\ Len(evt_queue') <= QUEUE_LEN
      /\ dropped' \subseteq Events /\ QueueCaused'
  <2>1. CASE sensor' = "ready" /\ Emit("CAMERA_INIT_DONE")
    <3>1. "CAMERA_INIT_DONE" \in Events /\ CauseNext("CAMERA_INIT_DONE")
      BY <2>1 DEF Events, BootEvents, CauseNext, LoadedAp, LoadedSta
    <3> QED BY <1>4, <2>1, <3>1, EmitKeeps
  <2>2. CASE UNCHANGED bus
    BY <1>4, <2>2, QueueKept DEF TypeOK
  <2> QED BY <2>1, <2>2 DEF CameraController_on_event
<1>6. TypeOK'
  BY <1>1, <1>2, <1>3, <1>5 DEF TypeOK
<1>7. /\ EvtCaused' /\ EndedAfterStarted' /\ ManagerCaused' /\ CameraCaused'
      /\ MqttAfterWiFi' /\ StreamAfterDevices'
  BY <1>1, <1>2, <1>3
  DEF EvtCaused, Cause, EndedAfterStarted, ManagerCaused, CameraCaused, MqttAfterWiFi,
      StreamAfterDevices
<1>8. MqttLoadedInTime'
  BY <1>1, <1>2 DEF MqttLoadedInTime
<1> QED BY <1>5, <1>6, <1>7, <1>8

\* Lemma: camera::on_event in one unit.  The stream starts with both flags up.
LEMMA CameraInv == ASSUME Inv, NEW c \in CameraTUs, camera_on_event(c) PROVE Inv'
<1> USE DEF Inv, manager, mqtt, camera, world, bus, tasks
<1>1. Call(c) /\ c # "MqttClient" /\ UNCHANGED <<bus, manager, server_started, mqtt, sensor>>
  BY BootAssumption DEF camera_on_event, Modules
<1>2. /\ cursor # 0 /\ cursor' # 0 /\ cursor' \in 0 .. Len(subscribers') + 1
      /\ subscribers' \in Orders /\ evt' = evt /\ evt' \in Events /\ main' = main
      /\ UNCHANGED world /\ Cause(evt)
      /\ MqttToCome => MqttToCome'
  BY <1>1, CallFacts
<1>3. /\ started' \in [Tasks -> Nat] /\ ended' \in [Tasks -> Nat] /\ ended' = ended
      /\ EndedAfterStarted'
      /\ \A t \in {"load_ap", "wifi_connect", "httpd_async"} : started'[t] = started[t]
  <2>1. Spawn({"mjpeg_server"}) \/ UNCHANGED tasks
    BY DEF camera_on_event
  <2> QED BY <2>1, SpawnFacts DEF Tasks
<1>4. started'["mjpeg_server"] > 0 =>
          started["mjpeg_server"] > 0 \/ (camera_init[c] /\ wifi_connected[c])
  BY DEF camera_on_event
<1>5. CausesLast
  BY <1>1, <1>2, <1>3 DEF CausesLast
<1>6. QueueCaused'
  BY <1>1, <1>5, QueueKept
<1>7. /\ wifi_connected' \in [CameraTUs -> BOOLEAN] /\ camera_init' \in [CameraTUs -> BOOLEAN]
      /\ stream_started' \in [CameraTUs -> BOOLEAN]
      /\ \A d \in CameraTUs :
            /\ camera_init'[d] => camera_init[d] \/ evt = "CAMERA_INIT_DONE"
            /\ wifi_connected'[d] => wifi_connected[d] \/ evt = "WIFI_STA_CONNECTED"
  BY DEF camera_on_event, TypeOK
<1>8. TypeOK'
  BY <1>1, <1>2, <1>3, <1>7 DEF TypeOK
<1>9. EvtCaused' /\ ManagerCaused' /\ MqttAfterWiFi'
  BY <1>1, <1>2, <1>3 DEF EvtCaused, Cause, ManagerCaused, MqttAfterWiFi
<1>10. CameraCaused' /\ StreamAfterDevices'
  BY <1>1, <1>2, <1>4, <1>7 DEF CameraCaused, StreamAfterDevices, Cause
<1>11. MqttLoadedInTime'
  BY <1>1, <1>2, <1>3 DEF MqttLoadedInTime
<1> QED BY <1>3, <1>6, <1>8, <1>9, <1>10, <1>11

-----------------------------------------------------------------------------
\* Lemma: what the end of a task does to the counts.
LEMMA EndsFacts ==
    ASSUME Inv, NEW t \in Tasks, Ends(t)
    PROVE  /\ ended' \in [Tasks -> Nat] /\ EndedAfterStarted' /\ started' = started
           /\ started[t] > 0 /\ ended'[t] > 0
           /\ \A u \in Tasks : ended[u] > 0 => ended'[u] > 0
<1>1. started \in [Tasks -> Nat] /\ ended \in [Tasks -> Nat] /\ EndedAfterStarted
  BY DEF Inv, TypeOK
<1>2. ended[t] < started[t] /\ ended' = [ended EXCEPT ![t] = @ + 1] /\ started' = started
  BY DEF Ends, Live
<1>3. ended' \in [Tasks -> Nat] /\ ended'[t] = ended[t] + 1
      /\ \A u \in Tasks : u # t => ended'[u] = ended[u]
  BY <1>1, <1>2
<1>4. EndedAfterStarted'
  <2> SUFFICES ASSUME NEW u \in Tasks PROVE ended'[u] <= started[u]
    BY <1>2 DEF EndedAfterStarted
  <2> QED BY <1>1, <1>2, <1>3 DEF EndedAfterStarted
<1> QED BY <1>1, <1>2, <1>3, <1>4

\* Lemma: a step outside the bus task that emits at most one caused event and
\* starts the radio or the web server only in the task created for it.
LEMMA OutsideStepInv ==
    ASSUME Inv,
           UNCHANGED <<subscribers, evt, cursor, manager, server_started, mqtt, sensor, camera>>,
           UNCHANGED tasks \/ \E t \in Tasks : Ends(t),
           UNCHANGED bus \/ \E e \in Events : Emit(e) /\ CauseNext(e),
           main' \in {"validate", "boot", "done"},
           fs' \in {"none", "littlefs", "sd", "error"},
           wifi' \in {"off", "netif", "started"}, wifi = "started" => wifi' = "started",
           wifi' # "off" => wifi # "off" \/ started["wifi_connect"] > 0,
           httpd' \in {"off", "listening", "failed"},
           httpd' # "off" => httpd # "off" \/ started["httpd_async"] > 0,
           got_ips' \in Nat, got_ips' >= got_ips,
           mjpeg_listeners' \in {0, 1}, noise' \in Nat
    PROVE  Inv'
<1> USE DEF Inv, manager, mqtt, camera, bus, tasks
<1>1. /\ started' = started /\ ended' \in [Tasks -> Nat] /\ EndedAfterStarted'
      /\ \A u \in Tasks : ended[u] > 0 => ended'[u] > 0
  <2>1. CASE UNCHANGED tasks
    BY <2>1 DEF TypeOK, EndedAfterStarted
  <2>2. CASE \E t \in Tasks : Ends(t)
    BY <2>2, EndsFacts
  <2> QED BY <2>1, <2>2
<1>2. /\ ended["load_ap"] > 0 => ended'["load_ap"] > 0
      /\ ended["load_sta"] > 0 => ended'["load_sta"] > 0
  BY <1>1 DEF Tasks
<1>3. got_ips > 0 => got_ips' > 0
  BY DEF TypeOK
<1>4. CausesLast
  BY <1>2, <1>3 DEF CausesLast
<1>5. /\ evt_queue' \in Seq(Events) /\ Len(evt_queue') <= QUEUE_LEN
      /\ dropped' \subseteq Events /\ QueueCaused'
  <2>1. CASE UNCHANGED bus
    BY <1>4, <2>1, QueueKept DEF TypeOK
  <2>2. CASE \E e \in Events : Emit(e) /\ CauseNext(e)
    BY <1>4, <2>2, EmitKeeps
  <2> QED BY <2>1, <2>2
<1>6. TypeOK'
  BY <1>1, <1>5 DEF TypeOK
<1>7. EvtCaused'
  BY <1>2, <1>3 DEF EvtCaused, Cause
<1>8. ManagerCaused' /\ CameraCaused'
  BY <1>1, <1>2, <1>3 DEF ManagerCaused, CameraCaused
<1>9. MqttAfterWiFi' /\ StreamAfterDevices'
  BY <1>1, <1>3 DEF MqttAfterWiFi, StreamAfterDevices
<1>10. MqttLoadedInTime'
  BY <1>1 DEF MqttLoadedInTime, MqttToCome
<1> QED BY <1>1, <1>5, <1>6, <1>7, <1>8, <1>9, <1>10

\* Lemma: the tasks and app_main.
LEMMA TaskInv == Inv /\ (Task \/ app_main) => Inv'
<1> SUFFICES ASSUME Inv, Task \/ app_main PROVE Inv'
  OBVIOUS
<1> USE DEF TaskFrame, bus, tasks
<1>1. /\ main \in {"validate", "boot", "done"} /\ fs \in {"none", "littlefs", "sd", "error"}
      /\ wifi \in {"off", "netif", "started"} /\ httpd \in {"off", "listening", "failed"}
      /\ got_ips \in Nat /\ got_ips >= got_ips
      /\ mjpeg_listeners \in {0, 1} /\ noise \in Nat
  BY DEF Inv, TypeOK
<1>2. \A e \in {"BOOT_CAN_START", "SD_MOUNT", "SD_READY", "SD_ERROR", "FS_READY", "FS_ERROR"} :
         e \in Events /\ CauseNext(e)
  BY DEF Events, BootEvents, CauseNext, LoadedAp, LoadedSta
<1>3. CASE app_main
  BY <1>1, <1>2, <1>3, OutsideStepInv DEF app_main
<1>4. CASE mount_dual
  BY <1>1, <1>2, <1>4, OutsideStepInv DEF mount_dual, Tasks
<1>5. CASE mount_littlefs
  BY <1>1, <1>2, <1>5, OutsideStepInv DEF mount_littlefs, Tasks
<1>6. CASE mount_async
  BY <1>1, <1>2, <1>6, OutsideStepInv DEF mount_async, Tasks
<1>7. CASE async_load_ap
  <2>1. "load_ap" \in Tasks /\ ended'["load_ap"] > 0
    BY <1>7, EndsFacts DEF async_load_ap, Tasks
  <2>2. \A e \in LoadedAp : e \in Events /\ CauseNext(e)
    BY <2>1 DEF Events, BootEvents, CauseNext, LoadedAp, LoadedSta
  <2> QED BY <1>1, <1>7, <2>1, <2>2, OutsideStepInv DEF async_load_ap
<1>8. CASE async_load_sta
  <2>1. "load_sta" \in Tasks /\ ended'["load_sta"] > 0
    BY <1>8, EndsFacts DEF async_load_sta, Tasks
  <2>2. \A e \in LoadedSta : e \in Events /\ CauseNext(e)
    BY <2>1 DEF Events, BootEvents, CauseNext, LoadedAp, LoadedSta
  <2> QED BY <1>1, <1>8, <2>1, <2>2, OutsideStepInv DEF async_load_sta
<1>9. CASE start_apsta_async
  <2>1. started["wifi_connect"] > 0
    BY <1>9 DEF start_apsta_async, Live, Inv, TypeOK, Tasks
  <2> QED BY <1>1, <1>9, <2>1, OutsideStepInv DEF start_apsta_async, Tasks
<1>10. CASE task_start_server
  <2>1. started["httpd_async"] > 0
    BY <1>10, EndsFacts DEF task_start_server, Tasks
  <2> QED BY <1>1, <1>10, <2>1, OutsideStepInv DEF task_start_server, Tasks
<1>11. CASE mjpeg_socket_server_task
  BY <1>1, <1>11, OutsideStepInv DEF mjpeg_socket_server_task, Tasks
<1> QED BY <1>3, <1>4, <1>5, <1>6, <1>7, <1>8, <1>9, <1>10, <1>11 DEF Task

\* Lemma: the network and its clients.
LEMMA EnvironmentInv == Inv /\ Environment => Inv'
<1> SUFFICES ASSUME Inv, Environment PROVE Inv'
  OBVIOUS
<1> USE DEF WorldFrame, bus, tasks
<1>1. /\ main \in {"validate", "boot", "done"} /\ fs \in {"none", "littlefs", "sd", "error"}
      /\ wifi \in {"off", "netif", "started"} /\ httpd \in {"off", "listening", "failed"}
      /\ got_ips \in Nat /\ got_ips >= got_ips
      /\ mjpeg_listeners \in {0, 1} /\ noise \in Nat
  BY DEF Inv, TypeOK
<1>2. \A e \in MqttEvents \union {"REQUEST"} : e \in Events /\ CauseNext(e)
  BY DEF Events, MqttEvents, CauseNext, LoadedAp, LoadedSta
<1>3. CASE got_ip
  <2>1. "WIFI_STA_CONNECTED" \in Events /\ CauseNext("WIFI_STA_CONNECTED")
    BY <1>1, <1>3 DEF got_ip, Events, CauseNext, LoadedAp, LoadedSta
  <2>2. got_ips' \in Nat /\ got_ips' >= got_ips
    BY <1>1, <1>3 DEF got_ip
  <2> QED BY <1>1, <1>3, <2>1, <2>2, OutsideStepInv DEF got_ip
<1>4. CASE mqtt_event_handler
  BY <1>1, <1>2, <1>4, OutsideStepInv DEF mqtt_event_handler
<1>5. CASE http_request
  BY <1>1, <1>2, <1>5, OutsideStepInv DEF http_request
<1> QED BY <1>3, <1>4, <1>5 DEF Environment

\* Lemma: taking an event.  A new dispatch of FS_READY has MqttClient to come,
\* because MqttClient is registered; its cause came with it in the queue.
LEMMA DispatchInv == Inv /\ Dispatch => Inv'
<1> SUFFICES ASSUME Inv, Dispatch PROVE Inv'
  OBVIOUS
<1> USE DEF manager, mqtt, camera, world, tasks
<1>1. /\ cursor = 0 /\ evt_queue # << >> /\ evt' = Head(evt_queue)
      /\ evt_queue' = Tail(evt_queue) /\ cursor' = 1
      /\ UNCHANGED <<subscribers, dropped, main, tasks, manager, server_started, mqtt,
                     sensor, camera, world>>
  BY DEF Dispatch
<1>2. evt_queue \in Seq(Events) /\ Len(evt_queue) \in Nat /\ Len(evt_queue) >= 1
      /\ Len(evt_queue) <= QUEUE_LEN /\ QUEUE_LEN \in Nat
  BY <1>1, QueueLenAssumption, LenProperties, EmptySeq DEF Inv, TypeOK
<1>3. /\ evt' \in Events /\ evt' = evt_queue[1]
      /\ evt_queue' \in Seq(Events) /\ Len(evt_queue') = Len(evt_queue) - 1
      /\ \A j \in 1 .. Len(evt_queue') : evt_queue'[j] = evt_queue[j + 1]
  BY <1>1, <1>2, HeadTailProperties
<1>4. CausesLast
  BY <1>1 DEF CausesLast
<1>5. Cause(evt_queue[1]) /\ \A j \in 1 .. Len(evt_queue') : Cause(evt_queue[j + 1])
  BY <1>2, <1>3 DEF Inv, QueueCaused
<1>6. QueueCaused'
  BY <1>3, <1>4, <1>5, CauseLasts, QueueCausedNext
<1>7. EvtCaused'
  <2>1. CauseNext(evt')
    BY <1>3, <1>4, <1>5, CauseLasts
  <2> QED BY <2>1 DEF EvtCaused, Cause, CauseNext
<1>8. subscribers \in Orders /\ Len(subscribers) \in Nat
  BY BootAssumption, LenProperties DEF Inv, TypeOK
<1>9. TypeOK'
  BY <1>1, <1>2, <1>3, <1>8 DEF Inv, TypeOK
<1>10. /\ EndedAfterStarted' /\ ManagerCaused' /\ CameraCaused' /\ MqttAfterWiFi'
       /\ StreamAfterDevices'
  BY <1>1
  DEF Inv, EndedAfterStarted, ManagerCaused, CameraCaused, MqttAfterWiFi, StreamAfterDevices
<1>11. MqttToCome'
  <2>1. PICK k \in DOMAIN subscribers : subscribers[k] = "MqttClient"
    BY <1>8, BootAssumption DEF Complete, Modules
  <2>2. k >= 1
    BY <1>8, <2>1, BootAssumption, LenProperties
  <2> QED BY <1>1, <2>1, <2>2 DEF MqttToCome
<1>12. MqttLoadedInTime'
  BY <1>1, <1>11 DEF Inv, MqttLoadedInTime
<1> QED BY <1>6, <1>7, <1>9, <1>10, <1>12 DEF Inv

\* Lemma: the end of a dispatch.  No handler is to come, so one of FS_READY has
\* loaded the MQTT configuration.
LEMMA EndDispatchInv == Inv /\ EndDispatch => Inv'
<1> SUFFICES ASSUME Inv, EndDispatch PROVE Inv'
  OBVIOUS
<1> USE DEF manager, mqtt, camera, world, tasks, bus
<1>1. /\ cursor > Len(subscribers) /\ cursor' = 0
      /\ UNCHANGED <<subscribers, bus, evt, main, tasks, manager, server_started, mqtt,
                     sensor, camera, world>>
  BY DEF EndDispatch
<1>2. /\ DOMAIN subscribers = 1 .. Len(subscribers) /\ Len(subscribers) \in Nat
      /\ cursor \in 0 .. Len(subscribers) + 1
  BY BootAssumption, LenProperties DEF Inv, TypeOK
<1>3. ~MqttToCome
  BY <1>1, <1>2 DEF MqttToCome
<1>4. CausesLast
  BY <1>1 DEF CausesLast
<1>5. QueueCaused'
  BY <1>1, <1>4, QueueKept DEF Inv
<1>6. TypeOK'
  BY <1>1, <1>2 DEF Inv, TypeOK
<1>7. /\ EvtCaused' /\ EndedAfterStarted' /\ ManagerCaused' /\ CameraCaused' /\ MqttAfterWiFi'
      /\ StreamAfterDevices'
  BY <1>1
  DEF Inv, EvtCaused, EndedAfterStarted, ManagerCaused, CameraCaused, MqttAfterWiFi,
      StreamAfterDevices
<1>8. MqttLoadedInTime'
  BY <1>1, <1>3 DEF Inv, MqttLoadedInTime
<1> QED BY <1>5, <1>6, <1>7, <1>8 DEF Inv

-----------------------------------------------------------------------------
\* Theorem: every event on the bus has its cause, whatever the bus holds and
\* whoever interleaves.  The inductive invariant behind the startup order.
THEOREM BootInvariant == Spec => []Inv
<1>1. Init => Inv
  BY InitInv
<1>2. Inv /\ [Next]_vars => Inv'
  <2> SUFFICES ASSUME Inv, [Next]_vars PROVE Inv'
    OBVIOUS
  <2>1. CASE Handler
    <3>1. CASE \E c \in CameraTUs : camera_on_event(c)
      BY <3>1, CameraInv
    <3> QED BY <2>1, <3>1, FSInv, IotSDInv, WiFiConfigInv, WiFiManagerInv, ApiInv, MqttInv,
               ControllerInv DEF Handler
  <2>2. CASE Dispatch \/ EndDispatch
    BY <2>2, DispatchInv, EndDispatchInv
  <2>3. CASE Task \/ app_main
    BY <2>3, TaskInv
  <2>4. CASE Environment
    BY <2>4, EnvironmentInv
  <2>5. CASE UNCHANGED vars
    BY <2>5
    DEF vars, bus, tasks, manager, mqtt, camera, world, Inv, TypeOK, QueueCaused, EvtCaused,
        Cause, EndedAfterStarted, ManagerCaused, MqttLoadedInTime, MqttToCome, CameraCaused,
        MqttAfterWiFi, StreamAfterDevices
  <2> QED BY <2>1, <2>2, <2>3, <2>4, <2>5 DEF Next, eventbus_task
<1> QED BY <1>1, <1>2, PTL DEF Spec

\* Theorem: the state of the device is well typed.
THEOREM BootTypeCorrect == Spec => []TypeOK
<1>1. Inv => TypeOK
  BY DEF Inv
<1> QED BY <1>1, BootInvariant, PTL

-----------------------------------------------------------------------------
(* What happens once.  The boot is a chain of events: each is on the bus at   *)
(* most once, whoever it starts has had it by then, and its source has gone.  *)

OneShot == {"BOOT_CAN_START", "SD_READY", "SD_ERROR", "FS_READY"}

InQueue(e) == \E j \in 1 .. Len(evt_queue) : evt_queue[j] = e
Dispatching(e) == cursor # 0 /\ evt = e
OnBus(e) == InQueue(e) \/ Dispatching(e)
ToCome(m) == \E k \in DOMAIN subscribers : k >= cursor /\ subscribers[k] = m

\* No copy of e is under way to module m.
Handled(e, m) == ~InQueue(e) /\ (Dispatching(e) => ~ToCome(m))

Single(e) ==
    /\ \A i, j \in 1 .. Len(evt_queue) : evt_queue[i] = e /\ evt_queue[j] = e => i = j
    /\ Dispatching(e) => ~InQueue(e)

Singles == \A e \in OneShot : Single(e)

FirstTasks == {"mount_async", IF SD THEN "mount_dual" ELSE "mount_littlefs"}
Starter(t) == IF t = "mount_async" THEN "IotSD" ELSE "FS"

BootOnce ==
    /\ OnBus("BOOT_CAN_START") => main = "done"
    /\ \A t \in FirstTasks : started[t] > 0 =>
          main = "done" /\ Handled("BOOT_CAN_START", Starter(t))
    /\ ~SD => started["mount_async"] = 0 /\ started["mount_dual"] = 0

CardOnce ==
    /\ OnBus("SD_READY") => ended["mount_async"] > 0 /\ fs = "sd"
    /\ OnBus("SD_ERROR") => ended["mount_async"] > 0 /\ fs # "sd"
    /\ fs = "sd" => ended["mount_async"] > 0
    /\ SD /\ started["mount_littlefs"] > 0 =>
          ended["mount_async"] > 0 /\ fs # "sd" /\ Handled("SD_ERROR", "FS")

\* The file system is there for good, and FS_READY will not be emitted again.
ReadyForGood == Mounted /\ (fs = "sd" => Handled("SD_READY", "FS"))

ReadyOnce ==
    /\ fs = "littlefs" => ended["mount_littlefs"] > 0
    /\ OnBus("FS_READY") => ReadyForGood
    /\ started["load_ap"] > 0 \/ started["load_sta"] > 0 =>
          ReadyForGood /\ Handled("FS_READY", "WiFiConfig")

Disk == Singles /\ BootOnce /\ CardOnce /\ ReadyOnce

Counts == \A t \in Tasks \ {"mjpeg_server"} : started[t] <= 1

Latches ==
    /\ started["httpd_async"] > 0 => server_started
    /\ started["mjpeg_server"] = Cardinality({c \in CameraTUs : stream_started[c]})

Chain == Disk /\ Counts /\ Latches

\* The tasks whose creation Disk is about.
DiskTasks == {"mount_littlefs", "mount_dual", "mount_async", "load_ap", "load_sta"}

\* What a step does to the events under way, apart from putting new ones on the bus.
BusStep(new) ==
    /\ \A e \in OneShot : InQueue(e)' => InQueue(e) \/ e \in new
    /\ \A e \in OneShot : OnBus(e)' => OnBus(e) \/ e \in new
    /\ \A e \in OneShot : Single(e) /\ (e \notin new \/ ~OnBus(e)) => Single(e)'
    /\ \A e \in OneShot, m \in {"FS", "IotSD", "WiFiConfig"} :
          Handled(e, m) /\ e \notin new => Handled(e, m)'

\* The dispatch goes on, or none does.
CursorKept ==
    /\ UNCHANGED <<subscribers, evt>>
    /\ cursor' = cursor \/ (cursor # 0 /\ cursor' = cursor + 1)

\* Lemma: the queue and the cursor are what they are.
LEMMA BusTypes ==
    ASSUME TypeOK
    PROVE  /\ evt_queue \in Seq(Events) /\ Len(evt_queue) \in Nat
           /\ subscribers \in Orders /\ DOMAIN subscribers \subseteq Nat \ {0}
           /\ DOMAIN subscribers = 1 .. Len(subscribers) /\ Len(subscribers) \in Nat
           /\ cursor \in Nat
<1>1. subscribers \in Seq(Modules \union CameraTUs \union {"api"})
  BY BootAssumption DEF TypeOK
<1>2. DOMAIN subscribers = 1 .. Len(subscribers) /\ Len(subscribers) \in Nat
  BY <1>1, LenProperties
<1> QED BY <1>2, LenProperties DEF TypeOK

\* Lemma: what is to come after the step was to come before it.
LEMMA CursorFacts ==
    ASSUME TypeOK, CursorKept
    PROVE  /\ \A e : Dispatching(e)' <=> Dispatching(e)
           /\ \A m : ToCome(m)' => ToCome(m)
<1>1. cursor \in Nat /\ (cursor' # 0 <=> cursor # 0) /\ cursor' >= cursor /\ cursor' \in Nat
  BY BusTypes DEF CursorKept
<1>2. DOMAIN subscribers \subseteq Nat
  BY BusTypes
<1> QED BY <1>1, <1>2 DEF CursorKept, Dispatching, ToCome

\* Lemma: a step that leaves the queue alone.
LEMMA KeepBus ==
    ASSUME TypeOK, CursorKept, evt_queue' = evt_queue
    PROVE  BusStep({})
<1>1. \A e : InQueue(e)' <=> InQueue(e)
  BY DEF InQueue
<1> QED BY <1>1, CursorFacts DEF BusStep, OnBus, Single, Handled

\* Lemma: a step that emits.
LEMMA EmitBus ==
    ASSUME TypeOK, CursorKept, NEW e0, e0 \in Events, Emit(e0)
    PROVE  BusStep({e0})
<1>1. evt_queue \in Seq(Events) /\ Len(evt_queue) \in Nat
  BY BusTypes
<1>2. CASE HasRoom(evt_queue)
  <2>1. evt_queue' = Append(evt_queue, e0)
    BY <1>2 DEF Emit, Offer
  <2>2. /\ Len(evt_queue') = Len(evt_queue) + 1
        /\ \A j \in 1 .. Len(evt_queue) : evt_queue'[j] = evt_queue[j]
        /\ evt_queue'[Len(evt_queue) + 1] = e0
    BY <1>1, <2>1, AppendProperties
  <2>3. \A j \in 1 .. Len(evt_queue') : j \in 1 .. Len(evt_queue) \/ j = Len(evt_queue) + 1
    BY <1>1, <2>2
  <2>4. \A e : InQueue(e)' => InQueue(e) \/ e = e0
    BY <2>2, <2>3 DEF InQueue
  <2>5. ASSUME NEW e \in OneShot, Single(e), e # e0 \/ ~OnBus(e) PROVE Single(e)'
    <3>1. Dispatching(e)' => ~InQueue(e)'
      BY <2>4, <2>5, CursorFacts DEF Single, OnBus
    <3>2. ASSUME NEW i \in 1 .. Len(evt_queue'), NEW j \in 1 .. Len(evt_queue'),
                 evt_queue'[i] = e, evt_queue'[j] = e
          PROVE  i = j
      <4>1. CASE e # e0
        <5>1. i \in 1 .. Len(evt_queue) /\ j \in 1 .. Len(evt_queue)
          BY <2>2, <2>3, <3>2, <4>1
        <5> QED BY <2>2, <2>5, <3>2, <5>1 DEF Single
      <4>2. CASE ~OnBus(e)
        <5>1. \A k \in 1 .. Len(evt_queue) : evt_queue[k] # e
          BY <4>2 DEF OnBus, InQueue
        <5> QED BY <2>2, <2>3, <3>2, <5>1
      <4> QED BY <2>5, <4>1, <4>2
    <3> QED BY <3>1, <3>2 DEF Single
  <2> QED BY <2>4, <2>5, CursorFacts DEF BusStep, OnBus, Handled
<1>3. CASE ~HasRoom(evt_queue)
  <2>1. evt_queue' = evt_queue
    BY <1>3 DEF Emit, Offer
  <2> QED BY <2>1, KeepBus DEF BusStep
<1> QED BY <1>2, <1>3

\* Lemma: the bus task takes an event, or is through with one.
LEMMA DispatchBus ==
    ASSUME TypeOK, Dispatch
    PROVE  BusStep({})
<1>1. evt_queue \in Seq(Events) /\ Len(evt_queue) \in Nat /\ evt_queue # << >>
  BY BusTypes DEF Dispatch
<1>2. /\ cursor = 0 /\ evt' = evt_queue[1] /\ Len(evt_queue) >= 1
      /\ Len(evt_queue') = Len(evt_queue) - 1
      /\ \A j \in 1 .. Len(evt_queue') : evt_queue'[j] = evt_queue[j + 1]
  BY <1>1, HeadTailProperties, EmptySeq, LenProperties DEF Dispatch
<1>3. /\ 1 \in 1 .. Len(evt_queue)
      /\ \A j \in 1 .. Len(evt_queue') : j + 1 \in 1 .. Len(evt_queue) /\ j + 1 # 1
  BY <1>1, <1>2
<1>4. \A e : InQueue(e)' => InQueue(e)
  BY <1>2, <1>3 DEF InQueue
<1>5. \A e : Dispatching(e)' => InQueue(e)
  BY <1>2, <1>3 DEF InQueue, Dispatching
<1>6. ASSUME NEW e \in OneShot, Single(e) PROVE Single(e)'
  <2>1. Dispatching(e)' => ~InQueue(e)'
    <3> SUFFICES ASSUME Dispatching(e)', InQueue(e)' PROVE FALSE
      OBVIOUS
    <3>1. evt_queue[1] = e
      BY <1>2 DEF Dispatching
    <3>2. PICK j \in 1 .. Len(evt_queue') : evt_queue[j + 1] = e
      BY <1>2 DEF InQueue
    <3> QED BY <1>3, <1>6, <3>1, <3>2 DEF Single
  <2>2. ASSUME NEW i \in 1 .. Len(evt_queue'), NEW j \in 1 .. Len(evt_queue'),
               evt_queue'[i] = e, evt_queue'[j] = e
        PROVE  i = j
    <3>1. i + 1 = j + 1
      BY <1>2, <1>3, <1>6, <2>2 DEF Single
    <3> QED BY <3>1
  <2> QED BY <2>1, <2>2 DEF Single
<1> QED BY <1>4, <1>5, <1>6 DEF BusStep, OnBus, Handled

LEMMA EndDispatchBus ==
    ASSUME TypeOK, EndDispatch
    PROVE  BusStep({})
<1>1. evt_queue' = evt_queue /\ cursor' = 0
  BY DEF EndDispatch, bus
<1>2. \A e : (InQueue(e)' <=> InQueue(e)) /\ ~Dispatching(e)'
  BY <1>1 DEF InQueue, Dispatching
<1> QED BY <1>1, <1>2 DEF BusStep, OnBus, Single, Handled

\* Lemma: while m has its call, the event in dispatch is under way to m, and no
\* longer afterwards.
LEMMA CallBus ==
    ASSUME Inv, NEW m \in {"FS", "IotSD", "WiFiConfig"}, Call(m)
    PROVE  /\ CursorKept /\ Dispatching(evt) /\ ToCome(m) /\ ~Handled(evt, m)
           /\ ~ToCome(m)'
           /\ \A new : evt \in OneShot /\ evt \notin new /\ Single(evt) /\ BusStep(new)
                          => Handled(evt, m)'
<1>1. /\ cursor \in DOMAIN subscribers /\ subscribers[cursor] = m
      /\ cursor' = cursor + 1 /\ UNCHANGED <<subscribers, evt>>
  BY DEF Call
<1>2. TypeOK /\ DOMAIN subscribers \subseteq Nat \ {0} /\ subscribers \in Orders
  BY BusTypes DEF Inv
<1>3. CursorKept /\ Dispatching(evt) /\ ToCome(m) /\ ~Handled(evt, m)
  BY <1>1, <1>2 DEF CursorKept, Dispatching, ToCome, Handled
<1>4. ~ToCome(m)'
  <2> SUFFICES ASSUME NEW k \in DOMAIN subscribers, k >= cursor + 1, subscribers[k] = m
               PROVE  FALSE
    BY <1>1 DEF ToCome
  <2>1. k = cursor
    BY <1>1, <1>2, BootAssumption DEF Complete
  <2> QED BY <1>2, <2>1
<1>5. ASSUME NEW new, evt \in OneShot, evt \notin new, Single(evt), BusStep(new)
      PROVE  Handled(evt, m)'
  BY <1>1, <1>3, <1>4, <1>5 DEF Single, Handled, BusStep
<1> QED BY <1>3, <1>4, <1>5

\* Lemma: a step that takes no part in the boot.
LEMMA DiskKept ==
    ASSUME Disk, NEW new, BusStep(new), new \intersect OneShot = {},
           main' = main, fs' = fs,
           \A t \in DiskTasks : started'[t] = started[t],
           \A t \in DiskTasks : ended[t] > 0 => ended'[t] > 0
    PROVE  Disk'
<1>1. \A e \in OneShot : e \notin new
  OBVIOUS
<1>2. Singles'
  BY <1>1 DEF BusStep, Disk, Singles
<1>3. BootOnce'
  BY <1>1 DEF BusStep, Disk, BootOnce, OneShot, FirstTasks, Starter, DiskTasks
<1>4. CardOnce'
  BY <1>1 DEF BusStep, Disk, CardOnce, OneShot, DiskTasks
<1>5. ReadyOnce'
  BY <1>1 DEF BusStep, Disk, ReadyOnce, ReadyForGood, Mounted, OneShot, DiskTasks
<1> QED BY <1>2, <1>3, <1>4, <1>5 DEF Disk

\* Lemma: the counts after a task was created.
LEMMA SpawnOne ==
    ASSUME TypeOK, NEW t0 \in Tasks, Spawn({t0})
    PROVE  /\ started'[t0] = started[t0] + 1 /\ ended' = ended
           /\ \A t \in Tasks : t # t0 => started'[t] = started[t]
BY DEF Spawn, TypeOK

\* Lemma: a step that creates no task and ends at most one, and takes no part in
\* the boot.
LEMMA NoTaskChain ==
    ASSUME Inv, Chain, NEW new, BusStep(new), new \intersect OneShot = {},
           UNCHANGED <<main, fs, stream_started>>, UNCHANGED tasks \/ \E t \in Tasks : Ends(t),
           server_started => server_started'
    PROVE  Chain'
<1>1. started' = started /\ \A t \in Tasks : ended[t] > 0 => ended'[t] > 0
  BY EndsFacts DEF tasks
<1>2. Disk'
  BY <1>1, DiskKept DEF Chain, DiskTasks, Tasks
<1>3. Counts' /\ Latches'
  BY <1>1 DEF Chain, Counts, Latches
<1> QED BY <1>2, <1>3 DEF Chain

\* Lemma: what is on the bus while the device handles it.
LEMMA HandlingFacts ==
    ASSUME Inv, Chain, NEW m \in {"FS", "IotSD", "WiFiConfig"}, Call(m)
    PROVE  /\ evt = "BOOT_CAN_START" =>
                 main = "done" /\ \A t \in FirstTasks : Starter(t) = m => started[t] = 0
           /\ evt = "SD_READY" => fs = "sd"
           /\ evt = "SD_ERROR" => ended["mount_async"] > 0 /\ fs # "sd" /\ SD
           /\ evt = "FS_READY" => ReadyForGood
           /\ m = "FS" /\ evt = "SD_READY" => started["load_ap"] = 0 /\ started["load_sta"] = 0
                                              /\ ~OnBus("FS_READY")
           /\ m = "FS" /\ evt = "SD_ERROR" => started["mount_littlefs"] = 0
           /\ m = "WiFiConfig" /\ evt = "FS_READY" =>
                 started["load_ap"] = 0 /\ started["load_sta"] = 0
           /\ evt \in OneShot => Single(evt)
<1>1. OnBus(evt) /\ ~Handled(evt, m)
  BY CallBus DEF OnBus
<1>2. started \in [Tasks -> Nat] /\ ended \in [Tasks -> Nat]
  BY DEF Inv, TypeOK
<1>3. ended["mount_async"] > 0 => started["mount_async"] > 0
  BY <1>2 DEF Inv, EndedAfterStarted, Tasks
<1>4. FirstTasks \subseteq Tasks
  BY DEF FirstTasks, Tasks
<1>5. evt = "BOOT_CAN_START" =>
         main = "done" /\ \A t \in FirstTasks : Starter(t) = m => started[t] = 0
  BY <1>1, <1>2, <1>4 DEF Chain, Disk, BootOnce
<1>6. evt = "SD_READY" => fs = "sd"
  BY <1>1 DEF Chain, Disk, CardOnce
<1>7. evt = "SD_ERROR" => ended["mount_async"] > 0 /\ fs # "sd" /\ SD
  BY <1>1, <1>3, BootAssumption DEF Chain, Disk, CardOnce, BootOnce
<1>8. evt = "FS_READY" => ReadyForGood
  BY <1>1 DEF Chain, Disk, ReadyOnce
<1>9. m = "FS" /\ evt = "SD_READY" => started["load_ap"] = 0 /\ started["load_sta"] = 0
                                      /\ ~OnBus("FS_READY")
  BY <1>1, <1>2, <1>6 DEF Chain, Disk, ReadyOnce, ReadyForGood, Tasks
<1>10. m = "FS" /\ evt = "SD_ERROR" => started["mount_littlefs"] = 0
  BY <1>1, <1>2, <1>7 DEF Chain, Disk, CardOnce, Tasks
<1>11. m = "WiFiConfig" /\ evt = "FS_READY" => started["load_ap"] = 0 /\ started["load_sta"] = 0
  BY <1>1, <1>2 DEF Chain, Disk, ReadyOnce, Tasks
<1> QED BY <1>5, <1>6, <1>7, <1>8, <1>9, <1>10, <1>11 DEF Chain, Disk, Singles

\* Lemma: a handler creates one task, of a kind not yet created.
LEMMA CountsOne ==
    ASSUME Inv, Chain, NEW t0 \in Tasks, t0 # "mjpeg_server", started[t0] = 0, Spawn({t0})
    PROVE  Counts'
BY SpawnOne DEF Inv, Chain, Counts

LEMMA FSChain == Inv /\ Chain /\ FS_on_event => Chain'
<1> SUFFICES ASSUME Inv, Chain, FS_on_event PROVE Chain'
  OBVIOUS
<1> DEFINE first == IF SD THEN "mount_dual" ELSE "mount_littlefs"
<1>1. Call("FS") /\ UNCHANGED <<main, fs, server_started, stream_started, evt>>
  BY DEF FS_on_event, Call, world, camera
<1>2. TypeOK /\ CursorKept
  BY <1>1, CallBus DEF Inv
<1>3. CASE evt = "BOOT_CAN_START" /\ Spawn({first}) /\ UNCHANGED bus
  <2>1. BusStep({})
    BY <1>2, <1>3, KeepBus DEF bus
  <2>2. first \in Tasks /\ first \in FirstTasks /\ Starter(first) = "FS"
    BY DEF Tasks, FirstTasks, Starter
  <2>3. started[first] = 0 /\ main = "done" /\ Handled("BOOT_CAN_START", "FS")'
    BY <1>1, <1>3, <2>1, <2>2, HandlingFacts, CallBus DEF OneShot
  <2>4. ended' = ended /\ \A t \in Tasks : t # first => started'[t] = started[t]
    BY <1>2, <1>3, <2>2, SpawnOne
  <2>5. Singles'
    BY <2>1 DEF BusStep, Chain, Disk, Singles
  <2>6. BootOnce'
    <3>1. ~SD => started'["mount_async"] = 0 /\ started'["mount_dual"] = 0
      BY <2>4 DEF Chain, Disk, BootOnce, Tasks
    <3>2. OnBus("BOOT_CAN_START")' => main' = "done"
      BY <1>1, <2>3
    <3>3. ASSUME NEW t \in FirstTasks, started'[t] > 0
          PROVE  Handled("BOOT_CAN_START", Starter(t))'
      <4>1. CASE t = first
        BY <2>2, <2>3, <4>1
      <4>2. CASE t # first
        <5>1. t = "mount_async" /\ t \in Tasks
          BY <4>2 DEF FirstTasks, Tasks
        <5>2. Handled("BOOT_CAN_START", "IotSD")
          BY <2>4, <3>3, <4>2, <5>1 DEF Chain, Disk, BootOnce, Starter
        <5> QED BY <2>1, <5>1, <5>2 DEF BusStep, Starter, OneShot
      <4> QED BY <4>1, <4>2
    <3> QED BY <1>1, <2>3, <3>1, <3>2, <3>3 DEF BootOnce
  <2>7. CardOnce'
    BY <1>1, <2>1, <2>4 DEF BusStep, Chain, Disk, CardOnce, OneShot, Tasks
  <2>8. ReadyOnce'
    BY <1>1, <2>1, <2>4
    DEF BusStep, Chain, Disk, ReadyOnce, ReadyForGood, Mounted, OneShot, Tasks
  <2>9. Counts'
    BY <1>3, <2>2, <2>3, CountsOne
  <2>10. Latches'
    BY <1>1, <2>4 DEF Chain, Latches, Tasks
  <2> QED BY <2>5, <2>6, <2>7, <2>8, <2>9, <2>10 DEF Chain, Disk
<1>4. CASE evt = "SD_READY" /\ Emit("FS_READY") /\ UNCHANGED tasks
  <2>1. BusStep({"FS_READY"})
    BY <1>2, <1>4, EmitBus DEF Events, BootEvents
  <2>2. /\ fs = "sd" /\ started["load_ap"] = 0 /\ started["load_sta"] = 0
        /\ ~OnBus("FS_READY") /\ Handled("SD_READY", "FS")'
    BY <1>1, <1>4, <2>1, HandlingFacts, CallBus DEF OneShot
  <2>3. started' = started /\ ended' = ended
    BY <1>4 DEF tasks
  <2>4. Singles'
    BY <2>1, <2>2 DEF BusStep, Chain, Disk, Singles
  <2>5. BootOnce'
    BY <1>1, <2>1, <2>3 DEF BusStep, Chain, Disk, BootOnce, OneShot, FirstTasks, Starter
  <2>6. CardOnce'
    BY <1>1, <2>1, <2>2, <2>3 DEF BusStep, Chain, Disk, CardOnce, OneShot
  <2>7. ReadyOnce'
    BY <1>1, <2>2, <2>3 DEF ReadyOnce, ReadyForGood, Mounted
  <2>8. Counts' /\ Latches'
    BY <1>1, <2>3 DEF Chain, Counts, Latches
  <2> QED BY <2>4, <2>5, <2>6, <2>7, <2>8 DEF Chain, Disk
<1>5. CASE evt = "SD_ERROR" /\ Spawn({"mount_littlefs"}) /\ UNCHANGED bus
  <2>1. BusStep({})
    BY <1>2, <1>5, KeepBus DEF bus
  <2>2. /\ ended["mount_async"] > 0 /\ fs # "sd" /\ SD
        /\ started["mount_littlefs"] = 0 /\ Handled("SD_ERROR", "FS")'
    BY <1>1, <1>5, <2>1, HandlingFacts, CallBus DEF OneShot
  <2>3. ended' = ended /\ \A t \in Tasks : t # "mount_littlefs" => started'[t] = started[t]
    BY <1>2, <1>5, SpawnOne DEF Tasks
  <2>4. Singles'
    BY <2>1 DEF BusStep, Chain, Disk, Singles
  <2>5. BootOnce'
    <3>1. FirstTasks = {"mount_async", "mount_dual"}
      BY <2>2 DEF FirstTasks
    <3> QED
      BY <1>1, <2>1, <2>2, <2>3, <3>1
      DEF BusStep, Chain, Disk, BootOnce, OneShot, Starter, Tasks
  <2>6. CardOnce'
    BY <1>1, <2>1, <2>2, <2>3 DEF BusStep, Chain, Disk, CardOnce, OneShot
  <2>7. ReadyOnce'
    BY <1>1, <2>1, <2>3
    DEF BusStep, Chain, Disk, ReadyOnce, ReadyForGood, Mounted, OneShot, Tasks
  <2>8. Counts'
    BY <1>5, <2>2, CountsOne DEF Tasks
  <2>9. Latches'
    BY <1>1, <2>3 DEF Chain, Latches, Tasks
  <2> QED BY <2>4, <2>5, <2>6, <2>7, <2>8, <2>9 DEF Chain, Disk
<1>6. CASE Quiet
  <2>1. BusStep({}) /\ UNCHANGED tasks
    BY <1>2, <1>6, KeepBus DEF Quiet, bus
  <2> QED BY <1>1, <2>1, NoTaskChain
<1> QED BY <1>3, <1>4, <1>5, <1>6 DEF FS_on_event

LEMMA IotSDChain == Inv /\ Chain /\ IotSD_on_event => Chain'
<1> SUFFICES ASSUME Inv, Chain, IotSD_on_event PROVE Chain'
  OBVIOUS
<1>1. Call("IotSD") /\ UNCHANGED <<main, fs, server_started, stream_started, evt>>
  BY DEF IotSD_on_event, Call, world, camera
<1>2. TypeOK /\ CursorKept
  BY <1>1, CallBus DEF Inv
<1>3. SD
  <2>1. cursor \in DOMAIN subscribers /\ subscribers[cursor] = "IotSD"
    BY <1>1 DEF Call
  <2>2. "IotSD" \in Modules \union CameraTUs \union {"api"}
    BY <1>2, <2>1, BootAssumption, BusTypes DEF TypeOK
  <2> QED BY <2>2, BootAssumption DEF Modules
<1>4. CASE evt = "BOOT_CAN_START" /\ Spawn({"mount_async"}) /\ UNCHANGED bus
  <2>1. BusStep({})
    BY <1>2, <1>4, KeepBus DEF bus
  <2>2. FirstTasks = {"mount_async", "mount_dual"} /\ Starter("mount_async") = "IotSD"
        /\ Starter("mount_dual") = "FS"
    BY <1>3 DEF FirstTasks, Starter
  <2>3. started["mount_async"] = 0 /\ main = "done" /\ Handled("BOOT_CAN_START", "IotSD")'
    BY <1>1, <1>4, <2>1, <2>2, HandlingFacts, CallBus DEF OneShot
  <2>4. ended' = ended /\ \A t \in Tasks : t # "mount_async" => started'[t] = started[t]
    BY <1>2, <1>4, SpawnOne DEF Tasks
  <2>5. Singles'
    BY <2>1 DEF BusStep, Chain, Disk, Singles
  <2>6. BootOnce'
    <3>1. started'["mount_dual"] > 0 => Handled("BOOT_CAN_START", "FS")'
      BY <2>1, <2>2, <2>4 DEF BusStep, Chain, Disk, BootOnce, OneShot, Tasks
    <3> QED BY <1>1, <1>3, <2>2, <2>3, <3>1 DEF BootOnce
  <2>7. CardOnce'
    BY <1>1, <2>1, <2>4 DEF BusStep, Chain, Disk, CardOnce, OneShot, Tasks
  <2>8. ReadyOnce'
    BY <1>1, <2>1, <2>4
    DEF BusStep, Chain, Disk, ReadyOnce, ReadyForGood, Mounted, OneShot, Tasks
  <2>9. Counts'
    BY <1>4, <2>3, CountsOne DEF Tasks
  <2>10. Latches'
    BY <1>1, <2>4 DEF Chain, Latches, Tasks
  <2> QED BY <2>5, <2>6, <2>7, <2>8, <2>9, <2>10 DEF Chain, Disk
<1>5. CASE Quiet
  <2>1. BusStep({}) /\ UNCHANGED tasks
    BY <1>2, <1>5, KeepBus DEF Quiet, bus
  <2> QED BY <1>1, <2>1, NoTaskChain
<1> QED BY <1>4, <1>5 DEF IotSD_on_event

LEMMA WiFiConfigChain == Inv /\ Chain /\ WiFiConfig_on_event => Chain'
<1> SUFFICES ASSUME Inv, Chain, WiFiConfig_on_event PROVE Chain'
  OBVIOUS
<1>1. Call("WiFiConfig") /\ UNCHANGED <<main, fs, server_started, stream_started, evt>>
  BY DEF WiFiConfig_on_event, Call, world, camera
<1>2. TypeOK /\ CursorKept
  BY <1>1, CallBus DEF Inv
<1>3. CASE evt = "FS_READY" /\ Spawn({"load_ap", "load_sta"}) /\ UNCHANGED bus
  <2>1. BusStep({})
    BY <1>2, <1>3, KeepBus DEF bus
  <2>2. /\ ReadyForGood /\ started["load_ap"] = 0 /\ started["load_sta"] = 0
        /\ Handled("FS_READY", "WiFiConfig")'
    BY <1>1, <1>3, <2>1, HandlingFacts, CallBus DEF OneShot
  <2>3. /\ ended' = ended /\ started'["load_ap"] = 1 /\ started'["load_sta"] = 1
        /\ \A t \in Tasks : t \notin {"load_ap", "load_sta"} => started'[t] = started[t]
    <3>1. started' = [t \in Tasks |-> started[t] + IF t \in {"load_ap", "load_sta"} THEN 1 ELSE 0]
      BY <1>3 DEF Spawn
    <3>2. started \in [Tasks -> Nat]
      BY <1>2 DEF TypeOK
    <3>3. "load_ap" \in Tasks /\ "load_sta" \in Tasks /\ ended' = ended
      BY <1>3 DEF Tasks, Spawn
    <3> QED BY <2>2, <3>1, <3>2, <3>3
  <2>4. Singles'
    BY <2>1 DEF BusStep, Chain, Disk, Singles
  <2>5. BootOnce'
    BY <1>1, <2>1, <2>3 DEF BusStep, Chain, Disk, BootOnce, OneShot, FirstTasks, Starter, Tasks
  <2>6. CardOnce'
    BY <1>1, <2>1, <2>3 DEF BusStep, Chain, Disk, CardOnce, OneShot, Tasks
  <2>7. ReadyOnce'
    <3>1. ReadyForGood'
      BY <1>1, <2>1, <2>2 DEF BusStep, ReadyForGood, Mounted, OneShot
    <3> QED BY <1>1, <2>2, <2>3, <3>1 DEF Chain, Disk, ReadyOnce
  <2>8. Counts'
    BY <2>3 DEF Chain, Counts
  <2>9. Latches'
    BY <1>1, <2>3 DEF Chain, Latches, Tasks
  <2> QED BY <2>4, <2>5, <2>6, <2>7, <2>8, <2>9 DEF Chain, Disk
<1>4. CASE Quiet
  <2>1. BusStep({}) /\ UNCHANGED tasks
    BY <1>2, <1>4, KeepBus DEF Quiet, bus
  <2> QED BY <1>1, <2>1, NoTaskChain
<1> QED BY <1>3, <1>4 DEF WiFiConfig_on_event

\* Lemma: any other handler's call, as far as the bus and the boot see it.
LEMMA CallKept ==
    ASSUME Inv, NEW m, Call(m)
    PROVE  TypeOK /\ CursorKept /\ main' = main /\ fs' = fs
<1>1. cursor \in DOMAIN subscribers /\ cursor' = cursor + 1
      /\ UNCHANGED <<subscribers, evt, main, fs>>
  BY DEF Call, world
<1>2. TypeOK /\ DOMAIN subscribers \subseteq Nat \ {0}
  BY BusTypes DEF Inv
<1> QED BY <1>1, <1>2 DEF CursorKept

LEMMA WiFiManagerChain == Inv /\ Chain /\ WiFiManager_on_event => Chain'
<1> SUFFICES ASSUME Inv, Chain, WiFiManager_on_event PROVE Chain'
  OBVIOUS
<1>1. /\ TypeOK /\ CursorKept /\ main' = main /\ fs' = fs
      /\ UNCHANGED <<server_started, stream_started>>
  BY CallKept DEF WiFiManager_on_event, camera
<1>2. CASE Quiet
  <2>1. BusStep({}) /\ UNCHANGED tasks
    BY <1>1, <1>2, KeepBus DEF Quiet, bus
  <2> QED BY <1>1, <2>1, NoTaskChain
<1>3. CASE ~g_sta_ap_ready /\ Spawn({"wifi_connect"}) /\ Emit("HTTPD_START")
  <2>1. BusStep({"HTTPD_START"}) /\ {"HTTPD_START"} \intersect OneShot = {}
    BY <1>1, <1>3, EmitBus DEF Events, BootEvents, OneShot
  <2>2. started["wifi_connect"] = 0
    BY <1>1, <1>3 DEF Inv, ManagerCaused, TypeOK, Tasks
  <2>3. ended' = ended /\ \A t \in Tasks : t # "wifi_connect" => started'[t] = started[t]
    BY <1>1, <1>3, SpawnOne DEF Tasks
  <2>4. Disk'
    <3>1. \A t \in DiskTasks : started'[t] = started[t] /\ (ended[t] > 0 => ended'[t] > 0)
      BY <2>3 DEF DiskTasks, Tasks
    <3> QED BY <1>1, <2>1, <3>1, DiskKept DEF Chain
  <2>5. Counts'
    BY <1>3, <2>2, CountsOne DEF Tasks
  <2>6. Latches'
    BY <1>1, <2>3 DEF Chain, Latches, Tasks
  <2> QED BY <2>4, <2>5, <2>6 DEF Chain
<1> QED BY <1>2, <1>3 DEF WiFiManager_on_event

LEMMA ApiChain == Inv /\ Chain /\ api_on_event => Chain'
<1> SUFFICES ASSUME Inv, Chain, api_on_event PROVE Chain'
  OBVIOUS
<1>1. TypeOK /\ CursorKept /\ main' = main /\ fs' = fs /\ UNCHANGED stream_started
  BY CallKept DEF api_on_event, camera
<1>2. CASE Quiet /\ UNCHANGED server_started
  <2>1. BusStep({}) /\ UNCHANGED tasks
    BY <1>1, <1>2, KeepBus DEF Quiet, bus
  <2> QED BY <1>1, <1>2, <2>1, NoTaskChain
<1>3. CASE ~server_started /\ Spawn({"httpd_async"}) /\ Emit("NONE") /\ server_started' = TRUE
  <2>1. BusStep({"NONE"}) /\ {"NONE"} \intersect OneShot = {}
    BY <1>1, <1>3, EmitBus DEF Events, OneShot
  <2>2. started["httpd_async"] = 0
    <3>1. ~(started["httpd_async"] > 0)
      BY <1>3 DEF Chain, Latches
    <3>2. started["httpd_async"] \in Nat
      BY <1>1 DEF TypeOK, Tasks
    <3> QED BY <3>1, <3>2
  <2>3. ended' = ended /\ \A t \in Tasks : t # "httpd_async" => started'[t] = started[t]
    BY <1>1, <1>3, SpawnOne DEF Tasks
  <2>4. Disk'
    <3>1. \A t \in DiskTasks : started'[t] = started[t] /\ (ended[t] > 0 => ended'[t] > 0)
      BY <2>3 DEF DiskTasks, Tasks
    <3> QED BY <1>1, <2>1, <3>1, DiskKept DEF Chain
  <2>5. Counts'
    BY <1>3, <2>2, CountsOne DEF Tasks
  <2>6. Latches'
    BY <1>1, <1>3, <2>3 DEF Chain, Latches, Tasks
  <2> QED BY <2>4, <2>5, <2>6 DEF Chain
<1> QED BY <1>2, <1>3 DEF api_on_event

LEMMA MqttChain == Inv /\ Chain /\ MqttClient_on_event => Chain'
<1> SUFFICES ASSUME Inv, Chain, MqttClient_on_event PROVE Chain'
  OBVIOUS
<1>1. /\ TypeOK /\ CursorKept /\ main' = main /\ fs' = fs
      /\ UNCHANGED <<server_started, stream_started, tasks, bus>>
  BY CallKept DEF MqttClient_on_event, Quiet, camera
<1>2. BusStep({})
  BY <1>1, KeepBus DEF bus
<1> QED BY <1>1, <1>2, NoTaskChain

LEMMA ControllerChain == Inv /\ Chain /\ CameraController_on_event => Chain'
<1> SUFFICES ASSUME Inv, Chain, CameraController_on_event PROVE Chain'
  OBVIOUS
<1>1. /\ TypeOK /\ CursorKept /\ main' = main /\ fs' = fs
      /\ UNCHANGED <<server_started, stream_started, tasks>>
  BY CallKept DEF CameraController_on_event, camera
<1>2. CASE UNCHANGED bus
  <2>1. BusStep({})
    BY <1>1, <1>2, KeepBus DEF bus
  <2> QED BY <1>1, <2>1, NoTaskChain
<1>3. CASE Emit("CAMERA_INIT_DONE")
  <2>1. BusStep({"CAMERA_INIT_DONE"}) /\ {"CAMERA_INIT_DONE"} \intersect OneShot = {}
    BY <1>1, <1>3, EmitBus DEF Events, BootEvents, OneShot
  <2> QED BY <1>1, <2>1, NoTaskChain
<1> QED BY <1>2, <1>3 DEF CameraController_on_event

\* Lemma: one server per copy of the flags: the latch of the copy goes up with it.
LEMMA CameraChain == ASSUME Inv, Chain, NEW c \in CameraTUs, camera_on_event(c) PROVE Chain'
<1>1. /\ TypeOK /\ CursorKept /\ main' = main /\ fs' = fs
      /\ UNCHANGED <<server_started, bus>>
  BY CallKept DEF camera_on_event
<1>2. BusStep({})
  BY <1>1, KeepBus DEF bus
<1>3. CASE UNCHANGED tasks /\ UNCHANGED stream_started
  BY <1>1, <1>2, <1>3, NoTaskChain
<1>4. CASE /\ ~stream_started[c] /\ Spawn({"mjpeg_server"})
           /\ stream_started' = [stream_started EXCEPT ![c] = TRUE]
  <2>1. /\ ended' = ended /\ started'["mjpeg_server"] = started["mjpeg_server"] + 1
        /\ \A t \in Tasks : t # "mjpeg_server" => started'[t] = started[t]
    BY <1>1, <1>4, SpawnOne DEF Tasks
  <2>2. Disk'
    <3>1. \A t \in DiskTasks : started'[t] = started[t] /\ (ended[t] > 0 => ended'[t] > 0)
      BY <2>1 DEF DiskTasks, Tasks
    <3> QED BY <1>1, <1>2, <3>1, DiskKept DEF Chain
  <2>3. Counts'
    BY <2>1 DEF Chain, Counts
  <2>4. Latches'
    <3> DEFINE S == {d \in CameraTUs : stream_started[d]}
               T == {d \in CameraTUs : stream_started'[d]}
    <3>1. T = S \union {c} /\ c \notin S
      BY <1>1, <1>4 DEF TypeOK
    <3>2. IsFiniteSet(S)
      BY BootAssumption, FS_Subset
    <3>3. Cardinality(T) = Cardinality(S) + 1
      BY <3>1, <3>2, FS_AddElement
    <3> QED BY <1>1, <2>1, <3>3 DEF Chain, Latches, Tasks
  <2> QED BY <2>2, <2>3, <2>4 DEF Chain
<1> QED BY <1>3, <1>4 DEF camera_on_event

\* Lemma: the bus task between two calls, and the world.
LEMMA BusTaskChain == Inv /\ Chain /\ (Dispatch \/ EndDispatch \/ Environment) => Chain'
<1> SUFFICES ASSUME Inv, Chain, Dispatch \/ EndDispatch \/ Environment PROVE Chain'
  OBVIOUS
<1>1. UNCHANGED <<main, fs, stream_started, tasks, server_started>>
  BY DEF Dispatch, EndDispatch, Environment, got_ip, mqtt_event_handler, http_request,
         WorldFrame, world, camera
<1>2. TypeOK
  BY DEF Inv
<1>3. CASE Dispatch \/ EndDispatch
  <2>1. BusStep({})
    BY <1>2, <1>3, DispatchBus, EndDispatchBus
  <2> QED BY <1>1, <2>1, NoTaskChain
<1>4. CASE Environment
  <2>1. CursorKept
    BY <1>4 DEF Environment, got_ip, mqtt_event_handler, http_request, WorldFrame, CursorKept
  <2>2. PICK e \in MqttEvents \union {"WIFI_STA_CONNECTED", "REQUEST"} : Emit(e)
    BY <1>4 DEF Environment, got_ip, mqtt_event_handler, http_request
  <2>3. e \in Events /\ {e} \intersect OneShot = {}
    BY <2>2 DEF MqttEvents, Events, OneShot
  <2>4. BusStep({e})
    BY <1>2, <2>1, <2>2, <2>3, EmitBus
  <2> QED BY <1>1, <2>3, <2>4, NoTaskChain
<1> QED BY <1>3, <1>4

LEMMA AppMainChain == Inv /\ Chain /\ app_main => Chain'
<1> SUFFICES ASSUME Inv, Chain, app_main PROVE Chain'
  OBVIOUS
<1>1. /\ UNCHANGED <<fs, stream_started, started, ended, server_started>>
      /\ TypeOK /\ CursorKept
  BY DEF app_main, TaskFrame, camera, tasks, CursorKept, Inv
<1>2. Counts' /\ Latches'
  BY <1>1 DEF Chain, Counts, Latches
<1>3. main # "done"
  BY DEF app_main
<1>4. ~OnBus("BOOT_CAN_START") /\ \A t \in FirstTasks : ~(started[t] > 0)
  BY <1>3 DEF Chain, Disk, BootOnce
<1>5. PICK new \in SUBSET {"BOOT_CAN_START"} :
         BusStep(new) /\ (new = {} \/ main' = "done")
  <2>1. CASE UNCHANGED bus
    BY <1>1, <2>1, KeepBus DEF bus
  <2>2. CASE main' = "done" /\ Emit("BOOT_CAN_START")
    BY <1>1, <2>2, EmitBus DEF Events, BootEvents
  <2> QED BY <2>1, <2>2 DEF app_main
<1>6. Singles'
  BY <1>4, <1>5 DEF BusStep, Chain, Disk, Singles
<1>7. BootOnce'
  BY <1>1, <1>4, <1>5 DEF BusStep, Chain, Disk, BootOnce, OneShot
<1>8. CardOnce'
  BY <1>1, <1>5 DEF BusStep, Chain, Disk, CardOnce, OneShot
<1>9. ReadyOnce'
  BY <1>1, <1>5 DEF BusStep, Chain, Disk, ReadyOnce, ReadyForGood, Mounted, OneShot
<1> QED BY <1>2, <1>6, <1>7, <1>8, <1>9 DEF Chain, Disk

\* Lemma: the mounting tasks end once, so what they report is new to the bus, and
\* nothing that needs a file system has started before.
LEMMA MountFacts ==
    ASSUME Inv, Chain, NEW t \in {"mount_async", "mount_littlefs"}, Ends(t)
    PROVE  /\ ended[t] = 0 /\ ended'[t] > 0 /\ started' = started
           /\ \A u \in Tasks : u # t => ended'[u] = ended[u]
           /\ fs # "sd" /\ fs # "littlefs" /\ ~OnBus("FS_READY")
           /\ started["load_ap"] = 0 /\ started["load_sta"] = 0
           /\ t = "mount_async" => SD /\ ~OnBus("SD_READY") /\ ~OnBus("SD_ERROR")
                                      /\ started["mount_littlefs"] = 0
           /\ t = "mount_littlefs" => ~OnBus("SD_READY")
<1>1. started \in [Tasks -> Nat] /\ ended \in [Tasks -> Nat] /\ t \in Tasks
  BY DEF Inv, TypeOK, Tasks
<1>2. /\ ended[t] < started[t] /\ ended' = [ended EXCEPT ![t] = @ + 1] /\ started' = started
      /\ started[t] <= 1
  BY DEF Ends, Live, Chain, Counts, Tasks
<1>3. ended[t] = 0 /\ ended'[t] = 1 /\ started[t] = 1
  BY <1>1, <1>2
<1>4. \A u \in Tasks : ended[u] > 0 => started[u] > 0
  BY <1>1 DEF Inv, EndedAfterStarted
<1>5. CASE t = "mount_async"
  <2>1. SD /\ fs # "sd" /\ ~OnBus("SD_READY") /\ ~OnBus("SD_ERROR")
    BY <1>3, <1>5, BootAssumption DEF Chain, Disk, BootOnce, CardOnce
  <2>2. started["mount_littlefs"] = 0
    BY <1>1, <1>3, <1>5, <2>1 DEF Chain, Disk, CardOnce, Tasks
  <2>3. fs # "littlefs"
    BY <1>4, <2>2 DEF Chain, Disk, ReadyOnce, Tasks
  <2>4. ~ReadyForGood
    BY <2>1, <2>3 DEF ReadyForGood, Mounted
  <2> QED BY <1>1, <1>2, <1>3, <1>5, <2>1, <2>2, <2>3, <2>4 DEF Chain, Disk, ReadyOnce, Tasks
<1>6. CASE t = "mount_littlefs"
  <2>1. fs # "littlefs"
    BY <1>3, <1>6 DEF Chain, Disk, ReadyOnce
  <2>2. fs # "sd"
    BY <1>3, <1>4, <1>6, BootAssumption DEF Chain, Disk, CardOnce, BootOnce, Tasks
  <2>3. ~OnBus("SD_READY")
    BY <2>2 DEF Chain, Disk, CardOnce
  <2>4. ~ReadyForGood
    BY <2>1, <2>2 DEF ReadyForGood, Mounted
  <2> QED BY <1>1, <1>2, <1>3, <1>6, <2>1, <2>2, <2>3, <2>4 DEF Chain, Disk, ReadyOnce, Tasks
<1> QED BY <1>5, <1>6

LEMMA MountAsyncChain == Inv /\ Chain /\ mount_async => Chain'
<1> SUFFICES ASSUME Inv, Chain, mount_async PROVE Chain'
  OBVIOUS
<1>1. UNCHANGED <<main, stream_started, server_started>> /\ TypeOK /\ CursorKept
  BY DEF mount_async, TaskFrame, camera, CursorKept, Inv
<1>2. Ends("mount_async") /\ "mount_async" \in Tasks
  BY DEF mount_async, Tasks
<1>3. /\ ended["mount_async"] = 0 /\ ended'["mount_async"] > 0 /\ started' = started
      /\ \A u \in Tasks : u # "mount_async" => ended'[u] = ended[u]
      /\ fs # "sd" /\ fs # "littlefs" /\ ~OnBus("FS_READY")
      /\ started["load_ap"] = 0 /\ started["load_sta"] = 0
      /\ SD /\ ~OnBus("SD_READY") /\ ~OnBus("SD_ERROR") /\ started["mount_littlefs"] = 0
  BY <1>2, MountFacts
<1>4. PICK e \in {"SD_READY", "SD_ERROR"} :
         Emit(e) /\ (e = "SD_READY" => fs' = "sd") /\ (e = "SD_ERROR" => fs' = fs)
  BY DEF mount_async
<1>5. BusStep({e})
  BY <1>1, <1>4, EmitBus DEF Events, BootEvents
<1>6. Singles'
  BY <1>3, <1>4, <1>5 DEF BusStep, Chain, Disk, Singles
<1>7. BootOnce'
  BY <1>1, <1>3, <1>4, <1>5 DEF BusStep, Chain, Disk, BootOnce, OneShot, FirstTasks, Starter
<1>8. CardOnce'
  BY <1>3, <1>4, <1>5 DEF BusStep, CardOnce, OneShot
<1>9. ReadyOnce'
  BY <1>3, <1>4, <1>5 DEF BusStep, ReadyOnce, OneShot
<1>10. Counts' /\ Latches'
  BY <1>1, <1>3 DEF Chain, Counts, Latches
<1> QED BY <1>6, <1>7, <1>8, <1>9, <1>10 DEF Chain, Disk

LEMMA MountLittleChain == Inv /\ Chain /\ mount_littlefs => Chain'
<1> SUFFICES ASSUME Inv, Chain, mount_littlefs PROVE Chain'
  OBVIOUS
<1>1. UNCHANGED <<main, stream_started, server_started>> /\ TypeOK /\ CursorKept
  BY DEF mount_littlefs, TaskFrame, camera, CursorKept, Inv
<1>2. Ends("mount_littlefs") /\ "mount_littlefs" \in Tasks
  BY DEF mount_littlefs, Tasks
<1>3. /\ ended["mount_littlefs"] = 0 /\ ended'["mount_littlefs"] > 0 /\ started' = started
      /\ \A u \in Tasks : u # "mount_littlefs" => ended'[u] = ended[u]
      /\ fs # "sd" /\ fs # "littlefs" /\ ~OnBus("FS_READY")
      /\ started["load_ap"] = 0 /\ started["load_sta"] = 0
      /\ ~OnBus("SD_READY")
  BY <1>2, MountFacts
<1>4. PICK e \in {"FS_READY", "FS_ERROR"} :
         Emit(e) /\ (e = "FS_READY" => fs' = "littlefs") /\ (e = "FS_ERROR" => fs' = "error")
  BY DEF mount_littlefs
<1>5. BusStep({e})
  BY <1>1, <1>4, EmitBus DEF Events, BootEvents
<1>6. Singles'
  BY <1>3, <1>4, <1>5 DEF BusStep, Chain, Disk, Singles, OneShot
<1>7. BootOnce'
  BY <1>1, <1>3, <1>4, <1>5 DEF BusStep, Chain, Disk, BootOnce, OneShot, FirstTasks, Starter
<1>8. CardOnce'
  BY <1>3, <1>4, <1>5 DEF BusStep, Chain, Disk, CardOnce, OneShot, Tasks
<1>9. ReadyOnce'
  BY <1>3, <1>4, <1>5 DEF BusStep, ReadyOnce, ReadyForGood, Mounted, OneShot
<1>10. Counts' /\ Latches'
  BY <1>1, <1>3 DEF Chain, Counts, Latches
<1> QED BY <1>6, <1>7, <1>8, <1>9, <1>10 DEF Chain, Disk

\* Lemma: the other tasks.
LEMMA TaskChain == Inv /\ Chain /\ Task => Chain'
<1> SUFFICES ASSUME Inv, Chain, Task PROVE Chain'
  OBVIOUS
<1>1. CASE mount_async \/ mount_littlefs
  BY <1>1, MountAsyncChain, MountLittleChain
<1>2. CASE ~(mount_async \/ mount_littlefs)
  <2>1. \/ mount_dual \/ async_load_ap \/ async_load_sta \/ start_apsta_async
        \/ task_start_server \/ mjpeg_socket_server_task
    BY <1>2 DEF Task
  <2>2. UNCHANGED <<main, fs, stream_started, server_started>> /\ TypeOK /\ CursorKept
    BY <2>1
    DEF mount_dual, async_load_ap, async_load_sta, start_apsta_async, task_start_server,
        mjpeg_socket_server_task, TaskFrame, camera, CursorKept, Inv
  <2>3. UNCHANGED tasks \/ \E t \in Tasks : Ends(t)
    BY <2>1
    DEF mount_dual, async_load_ap, async_load_sta, start_apsta_async, task_start_server,
        mjpeg_socket_server_task, Tasks
  <2>4. UNCHANGED bus \/ \E e \in {"SD_MOUNT"} \union LoadedAp \union LoadedSta : Emit(e)
    BY <2>1
    DEF mount_dual, async_load_ap, async_load_sta, start_apsta_async, task_start_server,
        mjpeg_socket_server_task
  <2>5. CASE UNCHANGED bus
    <3>1. BusStep({})
      BY <2>2, <2>5, KeepBus DEF bus
    <3> QED BY <2>2, <2>3, <3>1, NoTaskChain
  <2>6. CASE \E e \in {"SD_MOUNT"} \union LoadedAp \union LoadedSta : Emit(e)
    <3>1. PICK e \in {"SD_MOUNT"} \union LoadedAp \union LoadedSta : Emit(e)
      BY <2>6
    <3>2. e \in Events /\ {e} \intersect OneShot = {}
      BY <3>1 DEF LoadedAp, LoadedSta, Events, BootEvents, OneShot
    <3>3. BusStep({e})
      BY <2>2, <3>1, <3>2, EmitBus
    <3> QED BY <2>2, <2>3, <3>2, <3>3, NoTaskChain
  <2> QED BY <2>4, <2>5, <2>6
<1> QED BY <1>1, <1>2

LEMMA InitChain == Init => Chain
<1> SUFFICES ASSUME Init PROVE Chain
  OBVIOUS
<1>1. \A e : ~OnBus(e)
  BY EmptySeq DEF Init, OnBus, InQueue, Dispatching
<1>2. \A t \in Tasks : started[t] = 0
  BY DEF Init
<1>3. FirstTasks \subseteq Tasks
  BY DEF FirstTasks, Tasks
<1>4. Singles
  BY <1>1, EmptySeq DEF Init, Singles, Single, OnBus
<1>5. Disk
  BY <1>1, <1>2, <1>3, <1>4 DEF Init, Disk, BootOnce, CardOnce, ReadyOnce, Tasks
<1>6. {c \in CameraTUs : stream_started[c]} = {}
  BY DEF Init
<1>7. Counts /\ Latches
  BY <1>2, <1>6, FS_EmptySet DEF Counts, Latches, Tasks
<1> QED BY <1>5, <1>7 DEF Chain

\* Theorem: the boot is a chain of events each of which happens once.
THEOREM ChainInvariant == Spec => []Chain
<1>1. Inv /\ Chain /\ [Next]_vars => Chain'
  <2> SUFFICES ASSUME Inv, Chain, [Next]_vars PROVE Chain'
    OBVIOUS
  <2>1. CASE Handler
    <3>1. CASE \E c \in CameraTUs : camera_on_event(c)
      BY <3>1, CameraChain
    <3> QED BY <2>1, <3>1, FSChain, IotSDChain, WiFiConfigChain, WiFiManagerChain, ApiChain,
               MqttChain, ControllerChain DEF Handler
  <2>2. CASE Dispatch \/ EndDispatch \/ Environment
    BY <2>2, BusTaskChain
  <2>3. CASE Task \/ app_main
    BY <2>3, TaskChain, AppMainChain
  <2>4. CASE UNCHANGED vars
    <3>1. /\ UNCHANGED <<main, fs, stream_started, tasks, server_started, bus>>
          /\ TypeOK /\ CursorKept
      BY <2>4 DEF vars, world, camera, CursorKept, Inv
    <3>2. BusStep({})
      BY <3>1, KeepBus DEF bus
    <3> QED BY <3>1, <3>2, NoTaskChain
  <2> QED BY <2>1, <2>2, <2>3, <2>4 DEF Next, eventbus_task
<1> QED BY <1>1, InitChain, BootInvariant, PTL DEF Spec

\* Theorem: no task is created twice, except the streaming server, which is created
\* at most once per copy of camera.h.
THEOREM OnceOnlyCorrect == Spec => []OnceOnly
<1>1. Chain => OnceOnly
  <2> SUFFICES ASSUME Chain PROVE started["mjpeg_server"] <= Cardinality(CameraTUs)
    BY DEF OnceOnly, Chain, Counts
  <2>1. Cardinality({c \in CameraTUs : stream_started[c]}) <= Cardinality(CameraTUs)
    BY BootAssumption, FS_Subset
  <2> QED BY <2>1 DEF Chain, Latches
<1> QED BY <1>1, ChainInvariant, PTL

\* Theorem: file system, then configuration, then WiFi, then MQTT, then the
\* stream, for every order of registration and every capacity of the bus.
THEOREM StartupOrderCorrect == Spec => []StartupOrder
<1>1. Inv /\ Chain => StartupOrder
  <2> SUFFICES ASSUME Inv, Chain PROVE StartupOrder
    OBVIOUS
  <2>1. WiFiAfterConfig
    BY DEF Inv, ManagerCaused, WiFiAfterConfig
  <2>2. ConfigAfterFs
    <3>1. started["load_ap"] \in Nat /\ started["load_sta"] \in Nat
      BY DEF Inv, TypeOK, Tasks
    <3> QED BY <3>1 DEF Chain, Disk, ReadyOnce, ReadyForGood, ConfigAfterFs
  <2> QED BY <2>1, <2>2 DEF Inv, StartupOrder
<1> QED BY <1>1, BootInvariant, ChainInvariant, PTL

-----------------------------------------------------------------------------
(* Room for the boot.  What the boot itself puts on the bus falls into four   *)
(* lanes, in each of which an event comes only when the one before has been    *)
(* taken; and the network is silent until the last of them, HTTPD_START, is     *)
(* out.  Hence four places are enough, whatever the traffic.                   *)

\* From the file system to the access point's configuration: one after the other.
DiskLane == {"BOOT_CAN_START", "SD_READY", "SD_ERROR", "FS_READY", "FS_ERROR"}
            \union LoadedAp
\* The station's configuration, then the services that waited for both.
ConfigLane == LoadedSta \union {"HTTPD_START"}

\* The lane of an event; 0 for what comes from the network.
Lane(e) ==
    CASE e = "SD_MOUNT" -> 1
      [] e = "CAMERA_INIT_DONE" -> 2
      [] e \in DiskLane -> 3
      [] e \in ConfigLane -> 4
      [] OTHER -> 0

OnePerLane ==
    \A i, j \in 1 .. Len(evt_queue) :
        Lane(evt_queue[i]) = Lane(evt_queue[j]) /\ Lane(evt_queue[i]) # 0 => i = j

\* The network is heard of only after the latch of WiFiManager went up.
TrafficLate == \A j \in 1 .. Len(evt_queue) : Lane(evt_queue[j]) = 0 => g_sta_ap_ready

\* What is no longer to come once an event was seen.
SourcesGone ==
    /\ InQueue("SD_MOUNT") => ended["mount_dual"] > 0
    /\ InQueue("FS_ERROR") => ended["mount_littlefs"] > 0 /\ fs = "error"
    /\ g_ap_ready => ~OnBus("FS_READY")
    /\ g_sta_ready \/ (cursor # 0 /\ evt \in LoadedSta) =>
          \A e \in LoadedSta : ~InQueue(e)

Room == OnePerLane /\ TrafficLate /\ SourcesGone /\ NoBootEventDropped

\* Nothing of the lane of e is queued.
LaneFree(e) == \A j \in 1 .. Len(evt_queue) : Lane(evt_queue[j]) # Lane(e)

\* Lemma: the lanes, event by event.
LEMMA LaneFacts ==
    /\ \A e : Lane(e) \in 0 .. 4
    /\ \A e : Lane(e) = 1 <=> e = "SD_MOUNT"
    /\ \A e : Lane(e) = 2 <=> e = "CAMERA_INIT_DONE"
    /\ \A e : Lane(e) = 3 <=> e \in DiskLane
    /\ \A e : Lane(e) = 4 <=> e \in ConfigLane
    /\ \A e : e \in BootEvents <=> Lane(e) \in 2 .. 4
    /\ \A e \in MqttEvents \union {"NONE", "WIFI_STA_CONNECTED", "REQUEST"} : Lane(e) = 0
BY DEF Lane, DiskLane, ConfigLane, LoadedAp, LoadedSta, BootEvents, MqttEvents

\* Lemma: a free lane leaves a place in the queue, as long as the network is silent.
LEMMA RoomLeft ==
    ASSUME QUEUE_LEN >= 4, TypeOK, OnePerLane, TrafficLate, ~g_sta_ap_ready,
           NEW e \in BootEvents, LaneFree(e)
    PROVE  HasRoom(evt_queue)
<1>1. Len(evt_queue) \in Nat /\ QUEUE_LEN \in Nat
  BY BusTypes, QueueLenAssumption
<1>2. SUFFICES ASSUME Len(evt_queue) >= 4 PROVE FALSE
  BY <1>1 DEF HasRoom
<1> DEFINE l(j) == Lane(evt_queue[j])
<1>3. 1 \in 1 .. Len(evt_queue) /\ 2 \in 1 .. Len(evt_queue)
      /\ 3 \in 1 .. Len(evt_queue) /\ 4 \in 1 .. Len(evt_queue)
  BY <1>1, <1>2
<1>4. \A j \in {1, 2, 3, 4} : l(j) \in 1 .. 4 /\ l(j) # Lane(e)
  BY <1>3, LaneFacts DEF TrafficLate, LaneFree
<1>5. \A i, j \in {1, 2, 3, 4} : l(i) = l(j) => i = j
  BY <1>3, <1>4 DEF OnePerLane
<1>6. Lane(e) \in 2 .. 4
  BY LaneFacts
<1> HIDE DEF l
<1>7. /\ l(1) # l(2) /\ l(1) # l(3) /\ l(1) # l(4)
      /\ l(2) # l(3) /\ l(2) # l(4) /\ l(3) # l(4)
  BY <1>5
<1> QED BY <1>4, <1>6, <1>7

\* Lemma: emitting keeps the lanes, if the event finds its own free, and loses no
\* event of the boot, if the network is still silent.
LEMMA EmitLanes ==
    ASSUME QUEUE_LEN >= 4, TypeOK, Room, NEW e \in Events, Emit(e),
           Lane(e) # 0 => LaneFree(e),
           Lane(e) = 0 => g_sta_ap_ready,
           e \in BootEvents => ~g_sta_ap_ready,
           g_sta_ap_ready => g_sta_ap_ready'
    PROVE  /\ OnePerLane' /\ TrafficLate' /\ NoBootEventDropped'
           /\ \A x : InQueue(x)' => InQueue(x) \/ x = e
<1>1. evt_queue \in Seq(Events) /\ Len(evt_queue) \in Nat
  BY BusTypes
<1>2. e \in BootEvents => HasRoom(evt_queue)
  BY RoomLeft, LaneFacts DEF Room
<1>3. NoBootEventDropped'
  BY <1>2 DEF Room, NoBootEventDropped, Emit
<1>4. CASE HasRoom(evt_queue)
  <2>1. evt_queue' = Append(evt_queue, e)
    BY <1>4 DEF Emit, Offer
  <2>2. /\ Len(evt_queue') = Len(evt_queue) + 1
        /\ \A j \in 1 .. Len(evt_queue) : evt_queue'[j] = evt_queue[j]
        /\ evt_queue'[Len(evt_queue) + 1] = e
    BY <1>1, <2>1, AppendProperties
  <2>3. \A j \in 1 .. Len(evt_queue') : j \in 1 .. Len(evt_queue) \/ j = Len(evt_queue) + 1
    BY <1>1, <2>2
  <2>4. \A x : InQueue(x)' => InQueue(x) \/ x = e
    BY <2>2, <2>3 DEF InQueue
  <2>5. TrafficLate'
    BY <2>2, <2>3 DEF TrafficLate, Room
  <2>6. OnePerLane'
    <3> SUFFICES ASSUME NEW i \in 1 .. Len(evt_queue'), NEW j \in 1 .. Len(evt_queue'),
                        Lane(evt_queue'[i]) = Lane(evt_queue'[j]), Lane(evt_queue'[i]) # 0
                 PROVE  i = j
      BY DEF OnePerLane
    <3>1. CASE i \in 1 .. Len(evt_queue) /\ j \in 1 .. Len(evt_queue)
      BY <2>2, <3>1 DEF Room, OnePerLane
    <3>2. CASE i = Len(evt_queue) + 1 /\ j = Len(evt_queue) + 1
      BY <3>2
    <3>3. CASE i = Len(evt_queue) + 1 /\ j \in 1 .. Len(evt_queue)
      BY <2>2, <3>3 DEF LaneFree
    <3>4. CASE i \in 1 .. Len(evt_queue) /\ j = Len(evt_queue) + 1
      BY <2>2, <3>4 DEF LaneFree
    <3> QED BY <2>3, <3>1, <3>2, <3>3, <3>4
  <2> QED BY <1>3, <2>4, <2>5, <2>6
<1>5. CASE ~HasRoom(evt_queue)
  <2>1. evt_queue' = evt_queue
    BY <1>5 DEF Emit, Offer
  <2> QED BY <1>3, <2>1 DEF Room, OnePerLane, TrafficLate, InQueue
<1> QED BY <1>4, <1>5

\* Lemma: a step that does not take an event from the bus keeps the room, if what
\* it emits finds its lane free and comes from a source that is gone afterwards.
LEMMA RoomStep ==
    ASSUME QUEUE_LEN >= 4, TypeOK, Room, CursorKept, NEW new \in SUBSET Events,
           \/ new = {} /\ UNCHANGED bus
           \/ \E e \in Events : new = {e} /\ Emit(e),
           \A e \in new : /\ Lane(e) # 0 => LaneFree(e)
                          /\ Lane(e) = 0 => g_sta_ap_ready
                          /\ e \in BootEvents => ~g_sta_ap_ready,
           g_sta_ap_ready => g_sta_ap_ready',
           g_ap_ready' => ~OnBus("FS_READY"),
           g_sta_ready' => \A e \in LoadedSta : ~InQueue(e),
           \A t \in {"mount_dual", "mount_littlefs"} : ended[t] > 0 => ended'[t] > 0,
           fs' = fs \/ ~(ended["mount_littlefs"] > 0),
           "SD_MOUNT" \in new => ended'["mount_dual"] > 0,
           "FS_ERROR" \in new => ended'["mount_littlefs"] > 0 /\ fs' = "error",
           "FS_READY" \in new => ~g_ap_ready',
           new \intersect LoadedSta # {} =>
              ~g_sta_ready' /\ ~(cursor # 0 /\ evt \in LoadedSta)
    PROVE  Room'
<1>1. /\ OnePerLane' /\ TrafficLate' /\ NoBootEventDropped'
      /\ \A x : InQueue(x)' => InQueue(x) \/ x \in new
  <2>1. CASE new = {} /\ UNCHANGED bus
    BY <2>1 DEF bus, Room, OnePerLane, TrafficLate, NoBootEventDropped, InQueue
  <2>2. CASE \E e \in Events : new = {e} /\ Emit(e)
    <3>1. PICK e \in Events : new = {e} /\ Emit(e)
      BY <2>2
    <3>2. /\ Lane(e) # 0 => LaneFree(e)
          /\ Lane(e) = 0 => g_sta_ap_ready
          /\ e \in BootEvents => ~g_sta_ap_ready
      BY <3>1
    <3> QED BY <3>1, <3>2, EmitLanes
  <2> QED BY <2>1, <2>2
<1>2. \A x : Dispatching(x)' <=> Dispatching(x)
  BY CursorFacts
<1>3. InQueue("SD_MOUNT")' => ended'["mount_dual"] > 0
  BY <1>1 DEF Room, SourcesGone
<1>4. InQueue("FS_ERROR")' => ended'["mount_littlefs"] > 0 /\ fs' = "error"
  BY <1>1 DEF Room, SourcesGone
<1>5. g_ap_ready' => ~OnBus("FS_READY")'
  BY <1>1, <1>2 DEF OnBus
<1>6. g_sta_ready' \/ (cursor' # 0 /\ evt' \in LoadedSta) => \A x \in LoadedSta : ~InQueue(x)'
  <2>1. cursor' # 0 /\ evt' \in LoadedSta => cursor # 0 /\ evt \in LoadedSta
    BY DEF CursorKept
  <2> QED BY <1>1, <2>1 DEF Room, SourcesGone
<1>7. SourcesGone'
  BY <1>3, <1>4, <1>5, <1>6 DEF SourcesGone
<1> QED BY <1>1, <1>7 DEF Room

\* Lemma: a queued event has its cause.
LEMMA QueueCause ==
    ASSUME Inv, NEW e, InQueue(e)
    PROVE  Cause(e)
BY DEF Inv, QueueCaused, InQueue

\* Lemma: the disk lane is free when none of its events is queued; likewise the
\* configurations' lane, and the two lanes of one event each.
LEMMA FreeLanes ==
    /\ (\A e \in DiskLane : ~InQueue(e)) => \A e \in DiskLane : LaneFree(e)
    /\ (\A e \in ConfigLane : ~InQueue(e)) => \A e \in ConfigLane : LaneFree(e)
    /\ ~InQueue("SD_MOUNT") => LaneFree("SD_MOUNT")
    /\ ~InQueue("CAMERA_INIT_DONE") => LaneFree("CAMERA_INIT_DONE")
BY LaneFacts DEF LaneFree, InQueue

\* Lemma: a flag of WiFiManager means that the load task was created and ended.
LEMMA FlagFacts ==
    ASSUME Inv
    PROVE  /\ g_ap_ready => started["load_ap"] > 0 /\ ended["load_ap"] > 0
           /\ g_sta_ready => started["load_sta"] > 0 /\ ended["load_sta"] > 0
           /\ g_sta_ap_ready => g_ap_ready /\ g_sta_ready
           /\ \A e \in LoadedAp : InQueue(e) => started["load_ap"] > 0 /\ ended["load_ap"] > 0
           /\ \A e \in LoadedSta : InQueue(e) => started["load_sta"] > 0 /\ ended["load_sta"] > 0
<1>1. started \in [Tasks -> Nat] /\ ended \in [Tasks -> Nat]
  BY DEF Inv, TypeOK
<1>2. \A t \in {"load_ap", "load_sta"} : ended[t] > 0 => started[t] > 0
  BY <1>1 DEF Inv, EndedAfterStarted, Tasks
<1> QED BY <1>2, QueueCause DEF Inv, ManagerCaused, Cause

\* Lemma: while the first mount is still to come, so is everything else.
LEMMA NothingYet ==
    ASSUME Inv, Chain, Room, \A t \in FirstTasks : ~(started[t] > 0)
    PROVE  ~g_sta_ap_ready /\ \A e \in DiskLane \ {"BOOT_CAN_START"} : ~InQueue(e)
<1>1. started \in [Tasks -> Nat] /\ ended \in [Tasks -> Nat]
  BY DEF Inv, TypeOK
<1>2. \A t \in Tasks : ended[t] > 0 => started[t] > 0
  BY <1>1 DEF Inv, EndedAfterStarted
<1>3. ~(ended["mount_async"] > 0)
  BY <1>2 DEF FirstTasks, Tasks
<1>4. ~(ended["mount_littlefs"] > 0)
  BY <1>2, <1>3 DEF FirstTasks, Tasks, Chain, Disk, CardOnce
<1>5. ~Mounted
  BY <1>3, <1>4 DEF Mounted, Chain, Disk, CardOnce, ReadyOnce
<1>6. ~(started["load_ap"] > 0) /\ ~OnBus("FS_READY")
  BY <1>5 DEF Chain, Disk, ReadyOnce, ReadyForGood
<1>7. ~InQueue("SD_READY") /\ ~InQueue("SD_ERROR") /\ ~InQueue("FS_ERROR")
  BY <1>3, <1>4 DEF Chain, Disk, CardOnce, OnBus, Room, SourcesGone
<1> QED BY <1>6, <1>7, FlagFacts DEF DiskLane, OnBus

\* Lemma: once the first mount is under way, BOOT_CAN_START is off the queue; once
\* the fallback is, SD_ERROR is.
LEMMA MountUnderWay ==
    ASSUME Inv, Chain
    PROVE  /\ started["mount_async"] > 0 \/ started["mount_littlefs"] > 0 =>
                 ~InQueue("BOOT_CAN_START")
           /\ started["mount_littlefs"] > 0 => ~InQueue("SD_ERROR")
           /\ \A t \in {"mount_async", "mount_littlefs"} : ended[t] > 0 => started[t] > 0
<1>1. started \in [Tasks -> Nat] /\ ended \in [Tasks -> Nat]
  BY DEF Inv, TypeOK
<1>2. \A t \in {"mount_async", "mount_littlefs"} : ended[t] > 0 => started[t] > 0
  BY <1>1 DEF Inv, EndedAfterStarted, Tasks
<1>3. started["mount_async"] > 0 => ~InQueue("BOOT_CAN_START")
  BY DEF Chain, Disk, BootOnce, FirstTasks, Handled
<1>4. started["mount_littlefs"] > 0 => ~InQueue("BOOT_CAN_START")
  BY <1>2, <1>3, BootAssumption DEF Chain, Disk, BootOnce, CardOnce, FirstTasks, Handled
<1>5. started["mount_littlefs"] > 0 => ~InQueue("SD_ERROR")
  BY <1>2, BootAssumption DEF Chain, Disk, BootOnce, CardOnce, OnBus, Handled
<1> QED BY <1>2, <1>3, <1>4, <1>5

\* Lemma: with a file system mounted for good, only FS_READY and what came of it
\* are left of the disk's lane.
LEMMA MountedLane ==
    ASSUME Inv, Chain, Room, Mounted
    PROVE  /\ ~InQueue("BOOT_CAN_START") /\ ~InQueue("SD_ERROR") /\ ~InQueue("FS_ERROR")
           /\ fs = "littlefs" => ~InQueue("SD_READY")
<1>1. started["mount_async"] > 0 \/ started["mount_littlefs"] > 0
  BY MountUnderWay DEF Mounted, Chain, Disk, CardOnce, ReadyOnce
<1>2. fs = "littlefs" => started["mount_littlefs"] > 0
  BY MountUnderWay DEF Chain, Disk, ReadyOnce
<1> QED BY <1>1, <1>2, MountUnderWay
        DEF Mounted, Chain, Disk, CardOnce, OnBus, Room, SourcesGone

\* Lemma: a task that ends for the first and last time.
LEMMA EndsOnce ==
    ASSUME Inv, Chain, NEW t \in Tasks \ {"mjpeg_server"}, Ends(t)
    PROVE  /\ started[t] > 0 /\ ~(ended[t] > 0) /\ ended'[t] > 0
           /\ \A u \in Tasks : ended[u] > 0 => ended'[u] > 0
<1>1. started[t] \in Nat /\ ended[t] \in Nat /\ started[t] <= 1 /\ ended[t] < started[t]
  BY DEF Inv, TypeOK, Chain, Counts, Ends, Live
<1> QED BY <1>1, EndsFacts

\* Lemma: a step outside the bus task and outside the boot.
LEMMA OutsideRoom ==
    ASSUME QUEUE_LEN >= 4, Inv, Chain, Room,
           UNCHANGED <<subscribers, evt, cursor, manager>>,
           UNCHANGED tasks \/ \E t \in Tasks : Ends(t),
           fs' = fs \/ ~(ended["mount_littlefs"] > 0),
           NEW new \in SUBSET Events,
           \/ new = {} /\ UNCHANGED bus
           \/ \E e \in Events : new = {e} /\ Emit(e),
           \A e \in new : /\ Lane(e) # 0 => LaneFree(e)
                          /\ Lane(e) = 0 => g_sta_ap_ready
                          /\ e \in BootEvents => ~g_sta_ap_ready,
           "SD_MOUNT" \in new => ended'["mount_dual"] > 0,
           "FS_ERROR" \in new => ended'["mount_littlefs"] > 0 /\ fs' = "error",
           "FS_READY" \in new => ~g_ap_ready,
           new \intersect LoadedSta # {} => ~(ended["load_sta"] > 0)
    PROVE  Room'
<1>1. TypeOK /\ CursorKept /\ UNCHANGED <<g_ap_ready, g_sta_ready, g_sta_ap_ready>>
  BY DEF Inv, CursorKept, manager
<1>2. \A t \in {"mount_dual", "mount_littlefs"} : ended[t] > 0 => ended'[t] > 0
  BY EndsFacts DEF tasks, Tasks
<1>3. new \intersect LoadedSta # {} => ~g_sta_ready /\ ~(cursor # 0 /\ evt \in LoadedSta)
  BY DEF Inv, ManagerCaused, EvtCaused, Cause
<1>4. /\ g_ap_ready => ~OnBus("FS_READY")
      /\ g_sta_ready => \A e \in LoadedSta : ~InQueue(e)
  BY DEF Room, SourcesGone
<1> QED BY <1>1, <1>2, <1>3, <1>4, RoomStep

\* Lemma: the same with the one event that is emitted.
LEMMA OutsideEmit ==
    ASSUME QUEUE_LEN >= 4, Inv, Chain, Room,
           UNCHANGED <<subscribers, evt, cursor, manager>>,
           UNCHANGED tasks \/ \E t \in Tasks : Ends(t),
           fs' = fs \/ ~(ended["mount_littlefs"] > 0),
           NEW e \in Events, Emit(e),
           Lane(e) # 0 => LaneFree(e),
           Lane(e) = 0 => g_sta_ap_ready,
           e \in BootEvents => ~g_sta_ap_ready,
           e = "SD_MOUNT" => ended'["mount_dual"] > 0,
           e = "FS_ERROR" => ended'["mount_littlefs"] > 0 /\ fs' = "error",
           e = "FS_READY" => ~g_ap_ready,
           e \in LoadedSta => ~(ended["load_sta"] > 0)
    PROVE  Room'
<1> DEFINE new == {e}
<1>1. new \in SUBSET Events /\ \E x \in Events : new = {x} /\ Emit(x)
  OBVIOUS
<1>2. \A x \in new : x = e
  OBVIOUS
<1> HIDE DEF new
<1>3. /\ "SD_MOUNT" \in new => ended'["mount_dual"] > 0
      /\ "FS_ERROR" \in new => ended'["mount_littlefs"] > 0 /\ fs' = "error"
      /\ "FS_READY" \in new => ~g_ap_ready
      /\ new \intersect LoadedSta # {} => ~(ended["load_sta"] > 0)
      /\ \A x \in new : /\ Lane(x) # 0 => LaneFree(x)
                        /\ Lane(x) = 0 => g_sta_ap_ready
                        /\ x \in BootEvents => ~g_sta_ap_ready
  BY <1>2
<1> QED BY <1>1, <1>3, OutsideRoom

\* Lemma: app_main.
LEMMA AppMainRoom ==
    ASSUME QUEUE_LEN >= 4, Inv, Chain, Room, app_main
    PROVE  Room'
<1>1. UNCHANGED <<subscribers, evt, cursor, manager, tasks, fs>>
  BY DEF app_main, TaskFrame
<1>2. CASE UNCHANGED bus
  <2>1. {} \in SUBSET Events
    OBVIOUS
  <2> QED BY <1>1, <1>2, <2>1, OutsideRoom
<1>3. CASE main = "boot" /\ Emit("BOOT_CAN_START")
  <2>1. /\ ~OnBus("BOOT_CAN_START") /\ \A t \in FirstTasks : ~(started[t] > 0)
    BY <1>3 DEF Chain, Disk, BootOnce
  <2>2. ~g_sta_ap_ready /\ \A e \in DiskLane : ~InQueue(e)
    BY <2>1, NothingYet DEF OnBus
  <2>3. LaneFree("BOOT_CAN_START") /\ Lane("BOOT_CAN_START") = 3
    BY <2>2, FreeLanes, LaneFacts DEF DiskLane
  <2>4. "BOOT_CAN_START" \in Events /\ "BOOT_CAN_START" \notin LoadedSta
    BY DEF Events, BootEvents, LoadedSta
  <2> QED BY <1>1, <1>3, <2>2, <2>3, <2>4, OutsideEmit
<1> QED BY <1>2, <1>3 DEF app_main

\* Lemma: mounting the card.
LEMMA MountAsyncRoom ==
    ASSUME QUEUE_LEN >= 4, Inv, Chain, Room, mount_async
    PROVE  Room'
<1>1. UNCHANGED <<subscribers, evt, cursor, manager>>
  BY DEF mount_async, TaskFrame
<1>2. Ends("mount_async") /\ "mount_async" \in Tasks
  BY DEF mount_async, Tasks
<1>3. /\ ~OnBus("FS_READY") /\ started["load_ap"] = 0 /\ started["load_sta"] = 0
      /\ ~OnBus("SD_READY") /\ ~OnBus("SD_ERROR") /\ started["mount_littlefs"] = 0
  BY <1>2, MountFacts
<1>4. started["mount_async"] > 0
  BY <1>2, EndsFacts
<1>5. ~(ended["mount_littlefs"] > 0) /\ ~InQueue("BOOT_CAN_START")
  BY <1>3, <1>4, MountUnderWay
<1>6. ~g_sta_ap_ready /\ \A e \in DiskLane : ~InQueue(e)
  BY <1>3, <1>5, FlagFacts DEF DiskLane, OnBus, Room, SourcesGone
<1>7. PICK e \in {"SD_READY", "SD_ERROR"} : Emit(e)
  BY DEF mount_async
<1>8. e \in DiskLane /\ LaneFree(e) /\ Lane(e) = 3
  BY <1>6, FreeLanes, LaneFacts DEF DiskLane
<1>9. e \in Events /\ e \notin LoadedSta
  BY DEF Events, BootEvents, LoadedSta
<1> QED BY <1>1, <1>2, <1>5, <1>6, <1>7, <1>8, <1>9, OutsideEmit

\* Lemma: mounting LittleFS.
LEMMA MountLittleRoom ==
    ASSUME QUEUE_LEN >= 4, Inv, Chain, Room, mount_littlefs
    PROVE  Room'
<1>1. UNCHANGED <<subscribers, evt, cursor, manager>>
  BY DEF mount_littlefs, TaskFrame
<1>2. Ends("mount_littlefs") /\ "mount_littlefs" \in Tasks
  BY DEF mount_littlefs, Tasks
<1>3. /\ ~OnBus("FS_READY") /\ started["load_ap"] = 0 /\ started["load_sta"] = 0
      /\ ~OnBus("SD_READY")
  BY <1>2, MountFacts
<1>4. started["mount_littlefs"] > 0 /\ ~(ended["mount_littlefs"] > 0)
      /\ ended'["mount_littlefs"] > 0
  BY <1>2, EndsOnce
<1>5. ~InQueue("BOOT_CAN_START") /\ ~InQueue("SD_ERROR")
  BY <1>4, MountUnderWay
<1>6. ~g_ap_ready /\ ~g_sta_ap_ready /\ \A e \in DiskLane : ~InQueue(e)
  BY <1>3, <1>4, <1>5, FlagFacts DEF DiskLane, OnBus, Room, SourcesGone
<1>7. PICK e \in {"FS_READY", "FS_ERROR"} : Emit(e) /\ (e = "FS_ERROR" => fs' = "error")
  BY DEF mount_littlefs
<1>8. e \in DiskLane /\ LaneFree(e) /\ Lane(e) = 3
  BY <1>6, FreeLanes, LaneFacts DEF DiskLane
<1>9. e \in Events /\ e \notin LoadedSta
  BY DEF Events, BootEvents, LoadedSta
<1> QED BY <1>1, <1>2, <1>4, <1>6, <1>7, <1>8, <1>9, OutsideEmit

\* Lemma: the task that only asks for the card to be mounted, possibly late.
LEMMA MountDualRoom ==
    ASSUME QUEUE_LEN >= 4, Inv, Chain, Room, mount_dual
    PROVE  Room'
<1>1. UNCHANGED <<subscribers, evt, cursor, manager, fs>> /\ Emit("SD_MOUNT")
  BY DEF mount_dual, TaskFrame
<1>2. Ends("mount_dual") /\ "mount_dual" \in Tasks
  BY DEF mount_dual, Tasks
<1>3. ~(ended["mount_dual"] > 0) /\ ended'["mount_dual"] > 0
  BY <1>2, EndsOnce
<1>4. LaneFree("SD_MOUNT") /\ Lane("SD_MOUNT") = 1
  BY <1>3, FreeLanes, LaneFacts DEF Room, SourcesGone
<1>5. "SD_MOUNT" \in Events \ BootEvents /\ "SD_MOUNT" \notin LoadedSta
  BY <1>4, LaneFacts DEF Events, LoadedSta
<1> QED BY <1>1, <1>2, <1>3, <1>4, <1>5, OutsideEmit

\* Lemma: the access point's configuration is loaded with the file system mounted
\* and FS_READY off the queue.
LEMMA LoadApRoom ==
    ASSUME QUEUE_LEN >= 4, Inv, Chain, Room, async_load_ap
    PROVE  Room'
<1>1. UNCHANGED <<subscribers, evt, cursor, manager, fs>>
  BY DEF async_load_ap, TaskFrame
<1>2. Ends("load_ap") /\ "load_ap" \in Tasks
  BY DEF async_load_ap, Tasks
<1>3. started["load_ap"] > 0 /\ ~(ended["load_ap"] > 0)
  BY <1>2, EndsOnce
<1>4. ReadyForGood /\ ~InQueue("FS_READY")
  BY <1>3 DEF Chain, Disk, ReadyOnce, Handled
<1>5. ~InQueue("SD_READY")
  BY <1>4, MountedLane DEF ReadyForGood, Mounted, Handled
<1>6. ~g_sta_ap_ready /\ \A e \in DiskLane : ~InQueue(e)
  BY <1>3, <1>4, <1>5, FlagFacts, MountedLane DEF DiskLane, ReadyForGood
<1>7. PICK e \in LoadedAp : Emit(e)
  BY DEF async_load_ap
<1>8. e \in DiskLane /\ LaneFree(e) /\ Lane(e) = 3
  BY <1>6, FreeLanes, LaneFacts DEF DiskLane
<1>9. e \in Events /\ e \notin LoadedSta /\ e \notin {"SD_MOUNT", "FS_ERROR", "FS_READY"}
  BY DEF Events, BootEvents, LoadedAp, LoadedSta
<1> QED BY <1>1, <1>2, <1>6, <1>7, <1>8, <1>9, OutsideEmit

\* Lemma: the station's configuration.
LEMMA LoadStaRoom ==
    ASSUME QUEUE_LEN >= 4, Inv, Chain, Room, async_load_sta
    PROVE  Room'
<1>1. UNCHANGED <<subscribers, evt, cursor, manager, fs>>
  BY DEF async_load_sta, TaskFrame
<1>2. Ends("load_sta") /\ "load_sta" \in Tasks
  BY DEF async_load_sta, Tasks
<1>3. ~(ended["load_sta"] > 0)
  BY <1>2, EndsOnce
<1>4. ~g_sta_ap_ready /\ \A e \in ConfigLane : ~InQueue(e)
  BY <1>3, FlagFacts, QueueCause DEF ConfigLane, Cause
<1>5. PICK e \in LoadedSta : Emit(e)
  BY DEF async_load_sta
<1>6. e \in ConfigLane /\ LaneFree(e) /\ Lane(e) = 4
  BY <1>4, FreeLanes, LaneFacts DEF ConfigLane
<1>7. e \in Events /\ e \notin {"SD_MOUNT", "FS_ERROR", "FS_READY"}
  BY DEF Events, BootEvents, LoadedSta
<1> QED BY <1>1, <1>2, <1>3, <1>4, <1>5, <1>6, <1>7, OutsideEmit

\* Lemma: the tasks.
LEMMA TaskRoom ==
    ASSUME QUEUE_LEN >= 4, Inv, Chain, Room, Task
    PROVE  Room'
<1>1. CASE \/ mount_dual \/ mount_littlefs \/ mount_async \/ async_load_ap
           \/ async_load_sta
  BY <1>1, MountDualRoom, MountLittleRoom, MountAsyncRoom, LoadApRoom, LoadStaRoom
<1>2. CASE start_apsta_async \/ task_start_server \/ mjpeg_socket_server_task
  <2>1. UNCHANGED <<subscribers, evt, cursor, manager, fs, bus>>
    BY <1>2 DEF start_apsta_async, task_start_server, mjpeg_socket_server_task, TaskFrame
  <2>2. UNCHANGED tasks \/ \E t \in Tasks : Ends(t)
    BY <1>2 DEF start_apsta_async, task_start_server, mjpeg_socket_server_task, Tasks
  <2>3. {} \in SUBSET Events
    OBVIOUS
  <2> QED BY <2>1, <2>2, <2>3, OutsideRoom
<1> QED BY <1>1, <1>2 DEF Task

\* Lemma: the network.  Whatever makes it heard was started by HTTPD_START's handler
\* or by the task created together with that event.
LEMMA EnvironmentRoom ==
    ASSUME QUEUE_LEN >= 4, Inv, Chain, Room, Environment
    PROVE  Room'
<1>1. UNCHANGED <<subscribers, evt, cursor, manager, tasks, fs>>
  BY DEF Environment, got_ip, mqtt_event_handler, http_request, WorldFrame
<1>2. PICK e \in MqttEvents \union {"WIFI_STA_CONNECTED", "REQUEST"} : Emit(e)
  BY DEF Environment, got_ip, mqtt_event_handler, http_request
<1>3. g_sta_ap_ready
  BY DEF Environment, got_ip, mqtt_event_handler, http_request,
         Inv, ManagerCaused, MqttAfterWiFi
<1>4. Lane(e) = 0 /\ e \notin BootEvents
  BY LaneFacts
<1>5. e \in Events
  BY DEF Events
<1>6. e \notin {"SD_MOUNT", "FS_ERROR", "FS_READY"} /\ e \notin LoadedSta
  BY <1>4, LaneFacts DEF BootEvents
<1> QED BY <1>1, <1>2, <1>3, <1>4, <1>5, <1>6, OutsideEmit

\* Lemma: a call of a handler that emits at most one event, never one that a load
\* or a mount emits.
LEMMA HandlerRoom ==
    ASSUME QUEUE_LEN >= 4, Inv, Room, NEW m, Call(m), ended' = ended,
           g_sta_ap_ready => g_sta_ap_ready',
           g_ap_ready' => ~OnBus("FS_READY"),
           g_sta_ready' => \A x \in LoadedSta : ~InQueue(x),
           \/ UNCHANGED bus
           \/ \E e \in {"FS_READY", "HTTPD_START", "NONE", "CAMERA_INIT_DONE"} :
                 /\ Emit(e)
                 /\ Lane(e) # 0 => LaneFree(e)
                 /\ Lane(e) = 0 => g_sta_ap_ready
                 /\ e \in BootEvents => ~g_sta_ap_ready
                 /\ e = "FS_READY" => ~g_ap_ready'
    PROVE  Room'
<1>1. TypeOK /\ CursorKept /\ fs' = fs
  BY CallKept
<1>2. CASE UNCHANGED bus
  <2>1. {} \in SUBSET Events
    OBVIOUS
  <2> QED BY <1>1, <1>2, <2>1, RoomStep
<1>3. ASSUME NEW e \in {"FS_READY", "HTTPD_START", "NONE", "CAMERA_INIT_DONE"},
             Emit(e),
             Lane(e) # 0 => LaneFree(e),
             Lane(e) = 0 => g_sta_ap_ready,
             e \in BootEvents => ~g_sta_ap_ready,
             e = "FS_READY" => ~g_ap_ready'
      PROVE  Room'
  <2> DEFINE new == {e}
  <2>1. e \in Events /\ e \notin LoadedSta /\ e # "SD_MOUNT" /\ e # "FS_ERROR"
    BY DEF Events, BootEvents, LoadedSta
  <2>2. /\ new \in SUBSET Events /\ \E x \in Events : new = {x} /\ Emit(x)
        /\ "SD_MOUNT" \notin new /\ "FS_ERROR" \notin new /\ new \intersect LoadedSta = {}
        /\ "FS_READY" \in new => ~g_ap_ready'
        /\ \A x \in new : x = e
    BY <1>3, <2>1
  <2> HIDE DEF new
  <2>3. \A x \in new : /\ Lane(x) # 0 => LaneFree(x)
                       /\ Lane(x) = 0 => g_sta_ap_ready
                       /\ x \in BootEvents => ~g_sta_ap_ready
    BY <1>3, <2>2
  <2> QED BY <1>1, <2>2, <2>3, RoomStep
<1> QED BY <1>2, <1>3

\* Lemma: the handlers that emit nothing, and leave WiFiManager's flags alone.
LEMMA SilentRoom ==
    ASSUME QUEUE_LEN >= 4, Inv, Room, NEW m, Call(m), UNCHANGED <<bus, manager, ended>>
    PROVE  Room'
<1>1. /\ g_sta_ap_ready => g_sta_ap_ready'
      /\ g_ap_ready' => ~OnBus("FS_READY")
      /\ g_sta_ready' => \A x \in LoadedSta : ~InQueue(x)
  BY DEF manager, Room, SourcesGone
<1> QED BY <1>1, HandlerRoom

\* Lemma: FS::on_event.  When SD_READY is in dispatch, no other event of its lane is
\* under way.
LEMMA FSRoom ==
    ASSUME QUEUE_LEN >= 4, Inv, Chain, Room, FS_on_event
    PROVE  Room'
<1>1. Call("FS") /\ UNCHANGED manager
  BY DEF FS_on_event
<1>2. CASE UNCHANGED bus /\ ended' = ended
  BY <1>1, <1>2, SilentRoom
<1>3. CASE evt = "SD_READY" /\ Emit("FS_READY") /\ UNCHANGED tasks
  <2>1. /\ fs = "sd" /\ started["load_ap"] = 0 /\ started["load_sta"] = 0
        /\ ~OnBus("FS_READY") /\ Single("SD_READY")
    BY <1>1, <1>3, HandlingFacts DEF OneShot
  <2>2. ~InQueue("SD_READY")
    BY <1>1, <1>3, <2>1, CallBus DEF Single
  <2>3. ~g_ap_ready /\ ~g_sta_ready /\ ~g_sta_ap_ready /\ \A e \in DiskLane : ~InQueue(e)
    BY <2>1, <2>2, FlagFacts, MountedLane DEF DiskLane, OnBus, Mounted
  <2>4. LaneFree("FS_READY") /\ Lane("FS_READY") = 3
    BY <2>3, FreeLanes, LaneFacts DEF DiskLane
  <2>5. ended' = ended /\ ~g_ap_ready' /\ ~g_sta_ready'
    BY <1>1, <1>3, <2>3 DEF tasks, manager
  <2> QED BY <1>1, <1>3, <2>3, <2>4, <2>5, HandlerRoom
<1> QED BY <1>2, <1>3 DEF FS_on_event, Spawn, Quiet, tasks

\* Lemma: WiFiManager::on_event.  The last of the two configurations is in dispatch
\* or was, so HTTPD_START finds its lane free.
LEMMA WiFiManagerRoom ==
    ASSUME QUEUE_LEN >= 4, Inv, Chain, Room, WiFiManager_on_event
    PROVE  Room'
<1>1. Call("WiFiManager") /\ cursor # 0 /\ Cause(evt)
  BY CallFacts DEF WiFiManager_on_event
<1>2. /\ g_ap_ready' = (g_ap_ready \/ evt \in LoadedAp)
      /\ g_sta_ready' = (g_sta_ready \/ evt \in LoadedSta)
  BY DEF WiFiManager_on_event
<1>3. g_ap_ready' => ~OnBus("FS_READY")
  <2>1. CASE g_ap_ready
    BY <2>1 DEF Room, SourcesGone
  <2>2. CASE evt \in LoadedAp
    <3>1. ended["load_ap"] > 0
      BY <1>1, <2>2 DEF Cause
    <3>2. started["load_ap"] \in Nat /\ ended["load_ap"] \in Nat
          /\ ended["load_ap"] <= started["load_ap"]
      BY DEF Inv, TypeOK, EndedAfterStarted, Tasks
    <3>3. ~InQueue("FS_READY")
      BY <3>1, <3>2 DEF Chain, Disk, ReadyOnce, Handled
    <3> QED BY <2>2, <3>3 DEF OnBus, Dispatching, LoadedAp
  <2> QED BY <1>2, <2>1, <2>2
<1>4. g_sta_ready' => \A x \in LoadedSta : ~InQueue(x)
  BY <1>1, <1>2 DEF Room, SourcesGone
<1>5. CASE Quiet /\ UNCHANGED g_sta_ap_ready
  <2>1. UNCHANGED bus /\ ended' = ended
    BY <1>5 DEF Quiet, tasks
  <2> QED BY <1>1, <1>3, <1>4, <1>5, <2>1, HandlerRoom
<1>6. CASE /\ g_sta_ready' /\ g_ap_ready' /\ ~g_sta_ap_ready
           /\ Spawn({"wifi_connect"}) /\ Emit("HTTPD_START") /\ g_sta_ap_ready' = TRUE
  <2>1. \A x \in ConfigLane : ~InQueue(x)
    BY <1>4, <1>6, QueueCause DEF ConfigLane, Cause
  <2>2. LaneFree("HTTPD_START") /\ Lane("HTTPD_START") = 4
    BY <2>1, FreeLanes, LaneFacts DEF ConfigLane
  <2>3. ended' = ended
    BY <1>6 DEF Spawn
  <2> QED BY <1>1, <1>3, <1>4, <1>6, <2>2, <2>3, HandlerRoom
<1> QED BY <1>5, <1>6 DEF WiFiManager_on_event

\* Lemma: api::on_event.  Its NONE follows HTTPD_START.
LEMMA ApiRoom ==
    ASSUME QUEUE_LEN >= 4, Inv, Chain, Room, api_on_event
    PROVE  Room'
<1>1. Call("api") /\ UNCHANGED manager /\ Cause(evt)
  BY CallFacts DEF api_on_event
<1>2. CASE Quiet
  BY <1>1, <1>2, SilentRoom DEF Quiet, tasks
<1>3. CASE evt = "HTTPD_START" /\ Spawn({"httpd_async"}) /\ Emit("NONE")
  <2>1. g_sta_ap_ready /\ Lane("NONE") = 0 /\ "NONE" \notin BootEvents
    BY <1>1, <1>3, LaneFacts DEF Cause
  <2>2. /\ ended' = ended
        /\ g_sta_ap_ready => g_sta_ap_ready'
        /\ g_ap_ready' => ~OnBus("FS_READY")
        /\ g_sta_ready' => \A x \in LoadedSta : ~InQueue(x)
    BY <1>1, <1>3 DEF Spawn, manager, Room, SourcesGone
  <2> QED BY <1>1, <1>3, <2>1, <2>2, HandlerRoom
<1> QED BY <1>2, <1>3 DEF api_on_event

\* Lemma: CameraController::on_event.  FS_READY is in dispatch, so no configuration
\* has been handled yet, and the network is silent.
LEMMA ControllerRoom ==
    ASSUME QUEUE_LEN >= 4, Inv, Chain, Room, CameraController_on_event
    PROVE  Room'
<1>1. Call("CameraController") /\ UNCHANGED <<manager, tasks>> /\ cursor # 0
  BY CallFacts DEF CameraController_on_event
<1>2. CASE UNCHANGED bus
  BY <1>1, <1>2, SilentRoom DEF tasks
<1>3. CASE evt = "FS_READY" /\ sensor # "ready" /\ Emit("CAMERA_INIT_DONE")
  <2>1. ~g_ap_ready /\ ~g_sta_ap_ready
    BY <1>1, <1>3, FlagFacts DEF Room, SourcesGone, OnBus, Dispatching
  <2>2. ~InQueue("CAMERA_INIT_DONE")
    BY <1>3, QueueCause DEF Cause
  <2>3. LaneFree("CAMERA_INIT_DONE") /\ Lane("CAMERA_INIT_DONE") = 2
    BY <2>2, FreeLanes, LaneFacts
  <2>4. /\ ended' = ended
        /\ g_ap_ready' => ~OnBus("FS_READY")
        /\ g_sta_ready' => \A x \in LoadedSta : ~InQueue(x)
    BY <1>1, <1>3 DEF tasks, manager, Room, SourcesGone
  <2> QED BY <1>1, <1>3, <2>1, <2>3, <2>4, HandlerRoom
<1> QED BY <1>2, <1>3 DEF CameraController_on_event

\* Lemma: the handlers.
LEMMA HandlersRoom ==
    ASSUME QUEUE_LEN >= 4, Inv, Chain, Room, Handler
    PROVE  Room'
<1>1. CASE \/ FS_on_event \/ WiFiManager_on_event \/ api_on_event
           \/ CameraController_on_event
  BY <1>1, FSRoom, WiFiManagerRoom, ApiRoom, ControllerRoom
<1>2. CASE IotSD_on_event
  BY <1>2, SilentRoom DEF IotSD_on_event, Spawn, Quiet, tasks
<1>3. CASE WiFiConfig_on_event
  BY <1>3, SilentRoom DEF WiFiConfig_on_event, Spawn, Quiet, tasks
<1>4. CASE MqttClient_on_event
  BY <1>4, SilentRoom DEF MqttClient_on_event, Quiet, tasks
<1>5. ASSUME NEW c \in CameraTUs, camera_on_event(c) PROVE Room'
  BY <1>5, SilentRoom DEF camera_on_event, Spawn, tasks
<1> QED BY <1>1, <1>2, <1>3, <1>4, <1>5 DEF Handler

\* Lemma: the bus task takes the oldest event.
LEMMA DispatchRoom ==
    ASSUME TypeOK, Room, Dispatch
    PROVE  Room'
<1>1. evt_queue \in Seq(Events) /\ Len(evt_queue) \in Nat /\ evt_queue # << >>
  BY BusTypes DEF Dispatch
<1>2. /\ cursor = 0 /\ evt' = evt_queue[1] /\ Len(evt_queue) >= 1
      /\ Len(evt_queue') = Len(evt_queue) - 1
      /\ \A j \in 1 .. Len(evt_queue') : evt_queue'[j] = evt_queue[j + 1]
  BY <1>1, HeadTailProperties, EmptySeq, LenProperties DEF Dispatch
<1>3. /\ 1 \in 1 .. Len(evt_queue)
      /\ \A j \in 1 .. Len(evt_queue') : j + 1 \in 1 .. Len(evt_queue) /\ j + 1 # 1
  BY <1>1, <1>2
<1>4. UNCHANGED <<dropped, ended, fs, g_ap_ready, g_sta_ready, g_sta_ap_ready>>
  BY DEF Dispatch, tasks, manager, world
<1>5. \A e : InQueue(e)' => InQueue(e)
  BY <1>2, <1>3 DEF InQueue
<1>6. \A e : OnBus(e)' => InQueue(e)
  BY <1>2, <1>3, <1>5 DEF InQueue, OnBus, Dispatching
<1>7. OnePerLane'
  <2> SUFFICES ASSUME NEW i \in 1 .. Len(evt_queue'), NEW j \in 1 .. Len(evt_queue'),
                      Lane(evt_queue'[i]) = Lane(evt_queue'[j]), Lane(evt_queue'[i]) # 0
               PROVE  i = j
    BY DEF OnePerLane
  <2>1. i + 1 = j + 1
    BY <1>2, <1>3 DEF Room, OnePerLane
  <2> QED BY <2>1
<1>8. TrafficLate' /\ NoBootEventDropped'
  BY <1>2, <1>3, <1>4 DEF Room, TrafficLate, NoBootEventDropped
<1>9. evt' \in LoadedSta => \A e \in LoadedSta : ~InQueue(e)'
  <2> SUFFICES ASSUME evt_queue[1] \in LoadedSta, NEW j \in 1 .. Len(evt_queue'),
                      evt_queue[j + 1] \in LoadedSta
               PROVE  FALSE
    BY <1>2 DEF InQueue
  <2>1. Lane(evt_queue[1]) = 4 /\ Lane(evt_queue[j + 1]) = 4
    BY LaneFacts DEF ConfigLane
  <2> QED BY <1>3, <2>1 DEF Room, OnePerLane
<1>10. SourcesGone'
  BY <1>4, <1>5, <1>6, <1>9 DEF Room, SourcesGone, OnBus
<1> QED BY <1>7, <1>8, <1>10 DEF Room

\* Lemma: a dispatch comes to its end, or nothing happens.
LEMMA EndDispatchRoom ==
    ASSUME TypeOK, Room, EndDispatch \/ UNCHANGED vars
    PROVE  Room'
<1>1. UNCHANGED <<evt_queue, dropped, ended, fs, g_ap_ready, g_sta_ready, g_sta_ap_ready>>
      /\ evt' = evt /\ (cursor' = 0 \/ cursor' = cursor)
  BY DEF EndDispatch, vars, bus, tasks, manager, world
<1>2. \A e : (InQueue(e)' <=> InQueue(e)) /\ (OnBus(e)' => OnBus(e))
  BY <1>1 DEF InQueue, OnBus, Dispatching
<1> QED BY <1>1, <1>2 DEF Room, OnePerLane, TrafficLate, SourcesGone, NoBootEventDropped

\* Theorem: with four places or more each lane keeps to itself: the inductive
\* invariant behind NoBootEventDropped.
THEOREM RoomInvariant ==
    ASSUME QUEUE_LEN >= 4
    PROVE  Spec => []Room
<1>1. Init => Room
  <2> SUFFICES ASSUME Init PROVE Room
    OBVIOUS
  <2>1. \A e : ~OnBus(e)
    BY EmptySeq DEF Init, OnBus, InQueue, Dispatching
  <2> QED BY <2>1, EmptySeq
          DEF Init, Room, OnePerLane, TrafficLate, SourcesGone, NoBootEventDropped, OnBus
<1>2. Inv /\ Chain /\ Room /\ [Next]_vars => Room'
  <2> SUFFICES ASSUME Inv, Chain, Room, [Next]_vars PROVE Room'
    OBVIOUS
  <2>1. TypeOK
    BY DEF Inv
  <2> QED BY <2>1, HandlersRoom, DispatchRoom, EndDispatchRoom, AppMainRoom, TaskRoom,
             EnvironmentRoom DEF Next, eventbus_task
<1> QED BY <1>1, <1>2, BootInvariant, ChainInvariant, PTL DEF Spec

\* Theorem: with a queue of four places or more (the code has ten) no event of the
\* boot is ever dropped, however much the network says and whatever the order of
\* registration.  Four is also what it takes: SD_MOUNT, CAMERA_INIT_DONE and the two
\* load events can wait behind the dispatch of FS_READY together.
THEOREM NoBootEventDroppedCorrect ==
    ASSUME QUEUE_LEN >= 4
    PROVE  Spec => []NoBootEventDropped
<1>1. Room => NoBootEventDropped
  BY DEF Room
<1> QED BY <1>1, RoomInvariant, PTL

-----------------------------------------------------------------------------
(* No silent end.  Each stage of the boot has done its part, or the event that *)
(* makes it do so is under way to it: a debt.  A device at rest has no debts.  *)

\* A copy of e is queued, or in dispatch with the call of m still to come.
Awaited(e, m) == ~Handled(e, m)

\* The mount that BOOT_CAN_START starts and on which all others depend.
FirstMount == IF SD THEN "mount_async" ELSE "mount_littlefs"

DiskDebts ==
    /\ main = "done" =>
          started[FirstMount] > 0 \/ Awaited("BOOT_CAN_START", Starter(FirstMount))
    /\ ended["mount_async"] > 0 =>
          fs = "sd" \/ started["mount_littlefs"] > 0 \/ Awaited("SD_ERROR", "FS")
    /\ ended["mount_littlefs"] > 0 => fs \in {"littlefs", "error"}
    /\ ReadyForGood => started["load_ap"] > 0 \/ Awaited("FS_READY", "WiFiConfig")
    /\ ReadyForGood /\ CAMERA => sensor # "off" \/ Awaited("FS_READY", "CameraController")

ServiceDebts ==
    /\ started["load_ap"] > 0 => started["load_sta"] > 0
    /\ ended["load_ap"] > 0 => g_ap_ready \/ \E e \in LoadedAp : Awaited(e, "WiFiManager")
    /\ ended["load_sta"] > 0 => g_sta_ready \/ \E e \in LoadedSta : Awaited(e, "WiFiManager")
    /\ g_ap_ready /\ g_sta_ready => g_sta_ap_ready
    /\ g_sta_ap_ready => started["wifi_connect"] > 0
    /\ g_sta_ap_ready => server_started \/ Awaited("HTTPD_START", "api")
    /\ server_started => started["httpd_async"] > 0
    /\ ended["wifi_connect"] > 0 => wifi = "started"
    /\ ended["httpd_async"] > 0 => httpd # "off"

\* The station got an address, and the bus took the event every time.
Addressed == got_ips > 0 /\ "WIFI_STA_CONNECTED" \notin dropped

DeviceDebts ==
    /\ got_ips > 0 => wifi = "started"
    /\ Addressed /\ mqtt_enabled =>
          is_initialized \/ Awaited("WIFI_STA_CONNECTED", "MqttClient")
    /\ \A c \in CameraTUs :
          /\ sensor = "ready" => camera_init[c] \/ Awaited("CAMERA_INIT_DONE", c)
          /\ Addressed => wifi_connected[c] \/ Awaited("WIFI_STA_CONNECTED", c)

Debts == DiskDebts /\ ServiceDebts /\ DeviceDebts

\* Nothing of the firmware is left to run but the streaming servers.
AtRest ==
    /\ main = "done" /\ evt_queue = << >> /\ cursor = 0
    /\ \A t \in Tasks \ {"mjpeg_server"} : ~Live(t)

\* Every service is up that can be; of the web server, that it was started: it
\* serves, or httpd_start was refused, which the code takes as the end of it.
ServicesUp ==
    /\ Mounted /\ wifi = "started" /\ httpd # "off"
    /\ CAMERA => sensor # "off"
    /\ Addressed /\ mqtt_enabled => is_initialized
    /\ \A c \in CameraTUs :
          /\ sensor = "ready" => camera_init[c]
          /\ Addressed => wifi_connected[c]

\* A device that comes to rest has its services up, or no file system at all: no
\* handler, task or event of the boot waits for one that never comes.
NoSilentEnd == AtRest => ServicesUp \/ fs = "error"

-----------------------------------------------------------------------------
\* Lemma: what is registered with the bus.
LEMMA Registered ==
    ASSUME TypeOK, NEW m \in Modules \union CameraTUs \union {"api"}
    PROVE  \E k \in DOMAIN subscribers : k >= 1 /\ subscribers[k] = m
<1>1. subscribers \in Orders /\ Complete(subscribers) /\ DOMAIN subscribers \subseteq Nat \ {0}
  BY BusTypes, BootAssumption
<1>2. \E k \in DOMAIN subscribers : subscribers[k] = m
  BY <1>1 DEF Complete
<1> QED BY <1>1, <1>2

\* Lemma: emitting leaves what is queued in the queue, and adds the event unless it
\* is dropped.
LEMMA EmitAdds ==
    ASSUME TypeOK, NEW e0 \in Events, Emit(e0)
    PROVE  /\ \A e : InQueue(e) => InQueue(e)'
           /\ e0 \notin dropped' => InQueue(e0)'
           /\ dropped \subseteq dropped'
<1>1. evt_queue \in Seq(Events) /\ Len(evt_queue) \in Nat
  BY BusTypes
<1>2. CASE HasRoom(evt_queue)
  <2>1. evt_queue' = Append(evt_queue, e0) /\ dropped' = dropped
    BY <1>2 DEF Emit, Offer
  <2>2. /\ Len(evt_queue') = Len(evt_queue) + 1
        /\ \A j \in 1 .. Len(evt_queue) : evt_queue'[j] = evt_queue[j]
        /\ evt_queue'[Len(evt_queue) + 1] = e0
    BY <1>1, <2>1, AppendProperties
  <2>3. /\ Len(evt_queue) + 1 \in 1 .. Len(evt_queue')
        /\ \A j \in 1 .. Len(evt_queue) : j \in 1 .. Len(evt_queue')
    BY <1>1, <2>2
  <2> QED BY <2>1, <2>2, <2>3 DEF InQueue
<1>3. CASE ~HasRoom(evt_queue)
  <2>1. evt_queue' = evt_queue /\ dropped' = dropped \union {e0}
    BY <1>3 DEF Emit, Offer
  <2> QED BY <2>1 DEF InQueue
<1> QED BY <1>2, <1>3

\* Lemma: in a step that takes no event from the bus, what is queued stays queued.
LEMMA QueueGrows ==
    ASSUME TypeOK, UNCHANGED bus \/ \E e0 \in Events : Emit(e0)
    PROVE  (\A e : InQueue(e) => InQueue(e)') /\ dropped \subseteq dropped'
<1>1. CASE UNCHANGED bus
  BY <1>1 DEF bus, InQueue
<1> QED BY <1>1, EmitAdds

\* Lemma: what any step does to the queue: the bus task takes events, all others emit
\* at most one.
LEMMA Emitters ==
    ASSUME Handler \/ app_main \/ Task \/ Environment
    PROVE  UNCHANGED bus \/ \E e0 \in Events : Emit(e0)
<1>1. CASE Handler
  BY <1>1
  DEF Handler, FS_on_event, IotSD_on_event, WiFiConfig_on_event, WiFiManager_on_event,
      api_on_event, MqttClient_on_event, CameraController_on_event, camera_on_event, Quiet,
      Events, BootEvents
<1>2. CASE app_main \/ Task
  BY <1>2
  DEF app_main, Task, mount_dual, mount_littlefs, mount_async, async_load_ap, async_load_sta,
      start_apsta_async, task_start_server, mjpeg_socket_server_task, Events, BootEvents
<1>3. CASE Environment
  BY <1>3 DEF Environment, got_ip, mqtt_event_handler, http_request, Events
<1> QED BY <1>1, <1>2, <1>3

\* Lemma: a handler is one of those that are registered.
LEMMA HandlerCalls ==
    ASSUME TypeOK, Handler
    PROVE  \E m \in Modules \union CameraTUs \union {"api"} : Call(m)
<1>1. PICK m : Call(m)
  BY DEF Handler, FS_on_event, IotSD_on_event, WiFiConfig_on_event, WiFiManager_on_event,
         api_on_event, MqttClient_on_event, CameraController_on_event, camera_on_event
<1>2. subscribers \in Seq(Modules \union CameraTUs \union {"api"}) /\ cursor \in DOMAIN subscribers
      /\ subscribers[cursor] = m
  BY <1>1, BootAssumption DEF Call, TypeOK
<1>3. m \in Modules \union CameraTUs \union {"api"}
  BY <1>2
<1> QED BY <1>1, <1>3

\* Lemma: an event under way to m stays so, or m is called with it.
LEMMA AwaitedLasts ==
    ASSUME TypeOK, [Next]_vars, NEW m \in Modules \union CameraTUs \union {"api"}, NEW e,
           Awaited(e, m)
    PROVE  Awaited(e, m)' \/ (Handler /\ Call(m) /\ evt = e)
<1>1. /\ evt_queue \in Seq(Events) /\ Len(evt_queue) \in Nat
      /\ DOMAIN subscribers = 1 .. Len(subscribers) /\ Len(subscribers) \in Nat /\ cursor \in Nat
  BY BusTypes
<1>2. InQueue(e) \/ (Dispatching(e) /\ ToCome(m))
  BY DEF Awaited, Handled
<1>3. SUFFICES ASSUME ~(Handler /\ Call(m) /\ evt = e)
               PROVE  InQueue(e)' \/ (Dispatching(e)' /\ ToCome(m)')
  BY DEF Awaited, Handled
<1>4. CASE app_main \/ Task \/ Environment
  <2>1. UNCHANGED <<subscribers, evt, cursor>>
    BY <1>4
    DEF app_main, Task, mount_dual, mount_littlefs, mount_async, async_load_ap, async_load_sta,
        start_apsta_async, task_start_server, mjpeg_socket_server_task, TaskFrame,
        Environment, got_ip, mqtt_event_handler, http_request, WorldFrame
  <2>2. \A x : InQueue(x) => InQueue(x)'
    BY <1>4, Emitters, QueueGrows
  <2> QED BY <1>2, <2>1, <2>2 DEF Dispatching, ToCome
<1>5. CASE Handler
  <2>1. \A x : InQueue(x) => InQueue(x)'
    BY <1>5, Emitters, QueueGrows
  <2>2. PICK m0 : Call(m0)
    BY <1>5, HandlerCalls
  <2>3. /\ cursor \in DOMAIN subscribers /\ subscribers[cursor] = m0 /\ cursor' = cursor + 1
        /\ UNCHANGED <<subscribers, evt>>
    BY <2>2 DEF Call
  <2>4. Dispatching(e) /\ ToCome(m) => Dispatching(e)' /\ ToCome(m)'
    <3> SUFFICES ASSUME Dispatching(e), NEW k \in DOMAIN subscribers, k >= cursor,
                        subscribers[k] = m
                 PROVE  Dispatching(e)' /\ ToCome(m)'
      BY DEF ToCome
    <3>1. evt = e /\ k # cursor
      BY <1>3, <1>5, <2>2, <2>3 DEF Dispatching
    <3>2. k >= cursor'  /\ cursor' # 0
      BY <1>1, <2>3, <3>1
    <3> QED BY <2>3, <3>1, <3>2 DEF Dispatching, ToCome
  <2> QED BY <1>2, <2>1, <2>4
<1>6. CASE Dispatch
  <2>1. /\ cursor = 0 /\ cursor' = 1 /\ evt_queue # << >> /\ evt' = Head(evt_queue)
        /\ evt_queue' = Tail(evt_queue) /\ subscribers' = subscribers
    BY <1>6 DEF Dispatch
  <2>2. /\ evt' = evt_queue[1] /\ Len(evt_queue) >= 1 /\ Len(evt_queue') = Len(evt_queue) - 1
        /\ \A j \in 1 .. Len(evt_queue') : evt_queue'[j] = evt_queue[j + 1]
    BY <1>1, <2>1, HeadTailProperties, EmptySeq, LenProperties
  <2>3. PICK j \in 1 .. Len(evt_queue) : evt_queue[j] = e
    BY <1>2, <2>1 DEF InQueue, Dispatching
  <2>4. CASE j = 1
    <3>1. ToCome(m)'
      BY <2>1, Registered DEF ToCome
    <3> QED BY <2>1, <2>2, <2>3, <2>4, <3>1 DEF Dispatching
  <2>5. CASE j # 1
    <3>1. j - 1 \in 1 .. Len(evt_queue') /\ (j - 1) + 1 = j
      BY <1>1, <2>2, <2>5
    <3>2. evt_queue'[j - 1] = e
      BY <2>2, <2>3, <3>1
    <3> QED BY <3>1, <3>2 DEF InQueue
  <2> QED BY <2>4, <2>5
<1>7. CASE EndDispatch
  <2>1. evt_queue' = evt_queue /\ ~ToCome(m)
    BY <1>1, <1>7 DEF EndDispatch, bus, ToCome
  <2> QED BY <1>2, <2>1 DEF InQueue
<1>8. CASE UNCHANGED vars
  BY <1>2, <1>8 DEF vars, bus, InQueue, Dispatching, ToCome
<1> QED BY <1>4, <1>5, <1>6, <1>7, <1>8 DEF Next, eventbus_task

\* Lemma: each part of the state is changed by its owner only.
LEMMA Owners ==
    ASSUME [Next]_vars
    PROVE  /\ main' = main \/ app_main
           /\ fs' = fs \/ mount_littlefs \/ mount_async
           /\ ended' = ended \/ Task
           /\ started' = started \/ Handler
           /\ UNCHANGED manager \/ WiFiManager_on_event
           /\ server_started' = server_started \/ api_on_event
           /\ UNCHANGED mqtt \/ MqttClient_on_event
           /\ sensor' = sensor \/ CameraController_on_event
           /\ wifi' = wifi \/ start_apsta_async
           /\ got_ips' = got_ips \/ got_ip
           /\ httpd' = httpd \/ task_start_server
           /\ UNCHANGED camera \/ \E c \in CameraTUs : camera_on_event(c)
<1>1. CASE Handler
  BY <1>1
  DEF Handler, FS_on_event, IotSD_on_event, WiFiConfig_on_event, WiFiManager_on_event,
      api_on_event, MqttClient_on_event, CameraController_on_event, camera_on_event, Quiet,
      Spawn, Call, world, tasks
<1>2. CASE Dispatch \/ EndDispatch \/ UNCHANGED vars
  BY <1>2 DEF Dispatch, EndDispatch, vars, world, tasks
<1>3. CASE app_main \/ Environment
  BY <1>3 DEF app_main, TaskFrame, tasks, Environment, got_ip, mqtt_event_handler,
              http_request, WorldFrame
<1>4. CASE Task
  BY <1>4 DEF Task, mount_dual, mount_littlefs, mount_async, async_load_ap, async_load_sta,
              start_apsta_async, task_start_server, mjpeg_socket_server_task, TaskFrame,
              Ends, tasks
<1> QED BY <1>1, <1>2, <1>3, <1>4 DEF Next, eventbus_task

\* Lemma: the call of a module is its handler.
LEMMA HandlerOf ==
    ASSUME Handler
    PROVE  /\ Call("FS") => FS_on_event
           /\ Call("IotSD") => IotSD_on_event
           /\ Call("WiFiConfig") => WiFiConfig_on_event
           /\ Call("WiFiManager") => WiFiManager_on_event
           /\ Call("api") => api_on_event
           /\ Call("MqttClient") => MqttClient_on_event
           /\ CAMERA /\ Call("CameraController") => CameraController_on_event
           /\ \A c \in CameraTUs : Call(c) => camera_on_event(c)
<1>1. \A c \in CameraTUs : c \notin {"FS", "IotSD", "WiFiConfig", "WiFiManager", "api",
                                     "MqttClient"} /\ (CAMERA => c # "CameraController")
  <2>1. CameraTUs \intersect (Modules \union {"api"}) = {}
    BY BootAssumption
  <2>2. CameraTUs # {} => CAMERA /\ SD
    BY BootAssumption
  <2> QED BY <2>1, <2>2 DEF Modules
<1>2. \A c \in CameraTUs : c # "CameraController"
  BY <1>1, BootAssumption
<1> QED BY <1>1, <1>2
        DEF Handler, Call, FS_on_event, IotSD_on_event, WiFiConfig_on_event,
            WiFiManager_on_event, api_on_event, MqttClient_on_event,
            CameraController_on_event, camera_on_event

\* Lemma: tasks are not forgotten.
LEMMA CountsLast ==
    ASSUME Inv, [Next]_vars
    PROVE  \A t \in Tasks : /\ started[t] > 0 => started'[t] > 0
                            /\ ended[t] > 0 => ended'[t] > 0
<1>1. started \in [Tasks -> Nat] /\ ended \in [Tasks -> Nat]
  BY DEF Inv, TypeOK
<1>2. started' = started \/ \E ts : Spawn(ts)
  <2>1. CASE Handler
    BY <2>1
    DEF Handler, FS_on_event, IotSD_on_event, WiFiConfig_on_event, WiFiManager_on_event,
        api_on_event, MqttClient_on_event, CameraController_on_event, camera_on_event,
        Quiet, tasks
  <2> QED BY <2>1, Owners
<1>3. ended' = ended \/ \E t \in Tasks : Ends(t)
  <2>1. CASE Task
    BY <2>1
    DEF Task, mount_dual, mount_littlefs, mount_async, async_load_ap, async_load_sta,
        start_apsta_async, task_start_server, mjpeg_socket_server_task, Tasks, tasks
  <2> QED BY <2>1, Owners
<1>4. \A t \in Tasks : started[t] > 0 => started'[t] > 0
  BY <1>1, <1>2, SpawnFacts
<1> QED BY <1>3, <1>4, EndsFacts

\* Lemma: who ends, who creates.
LEMMA EndedBy ==
    ASSUME Inv, [Next]_vars
    PROVE  /\ ended'["mount_async"] > 0 => ended["mount_async"] > 0 \/ mount_async
           /\ ended'["mount_littlefs"] > 0 => ended["mount_littlefs"] > 0 \/ mount_littlefs
           /\ ended'["load_ap"] > 0 => ended["load_ap"] > 0 \/ async_load_ap
           /\ ended'["load_sta"] > 0 => ended["load_sta"] > 0 \/ async_load_sta
           /\ ended'["wifi_connect"] > 0 => ended["wifi_connect"] > 0 \/ wifi' = "started"
           /\ ended'["httpd_async"] > 0 => ended["httpd_async"] > 0 \/ httpd' # "off"
<1>1. \A t \in Tasks : Ends(t) => \A u \in Tasks : u # t => ended'[u] = ended[u]
  BY DEF Ends, Inv, TypeOK
<1>2. CASE Task
  <2>1. CASE mount_async \/ mount_littlefs
    BY <1>1, <2>1 DEF mount_async, mount_littlefs, Tasks
  <2>2. CASE async_load_ap \/ async_load_sta \/ mount_dual
    BY <1>1, <2>2 DEF async_load_ap, async_load_sta, mount_dual, Tasks
  <2>3. CASE start_apsta_async
    BY <1>1, <2>3 DEF start_apsta_async, Tasks, tasks
  <2>4. CASE task_start_server \/ mjpeg_socket_server_task
    BY <1>1, <2>4 DEF task_start_server, mjpeg_socket_server_task, Tasks, tasks
  <2> QED BY <1>2, <2>1, <2>2, <2>3, <2>4 DEF Task
<1>3. CASE ended' = ended
  BY <1>3
<1> QED BY <1>2, <1>3, Owners

LEMMA StartedWith ==
    ASSUME Inv, [Next]_vars, started'["load_ap"] > 0
    PROVE  started["load_ap"] > 0 \/ started'["load_sta"] > 0
<1>1. CASE WiFiConfig_on_event
  <2>1. CASE Spawn({"load_ap", "load_sta"})
    <3>1. started["load_sta"] \in Nat /\ "load_sta" \in Tasks
      BY DEF Inv, TypeOK, Tasks
    <3>2. started'["load_sta"] = started["load_sta"] + 1
      BY <2>1, <3>1 DEF Spawn
    <3> QED BY <3>1, <3>2
  <2> QED BY <1>1, <2>1 DEF WiFiConfig_on_event, Quiet, tasks
<1>2. CASE Handler /\ ~WiFiConfig_on_event
  <2>1. \A ts : Spawn(ts) /\ "load_ap" \notin ts => started'["load_ap"] = started["load_ap"]
    BY SpawnFacts DEF Tasks
  <2> QED
    BY <1>2, <2>1
    DEF Handler, FS_on_event, IotSD_on_event, WiFiManager_on_event, api_on_event,
        MqttClient_on_event, CameraController_on_event, camera_on_event, Quiet, tasks
<1> QED BY <1>1, <1>2, Owners

\* Lemma: what a module does with the event that was under way to it.
LEMMA Paid ==
    ASSUME Inv, Handler
    PROVE  /\ evt = "BOOT_CAN_START" /\ Call(Starter(FirstMount)) => started'[FirstMount] > 0
           /\ evt = "SD_ERROR" /\ Call("FS") => started'["mount_littlefs"] > 0
           /\ evt = "SD_READY" /\ Call("FS") => Emit("FS_READY")
           /\ evt = "FS_READY" /\ Call("WiFiConfig") => started'["load_ap"] > 0
           /\ CAMERA /\ evt = "FS_READY" /\ Call("CameraController") => sensor' # "off"
           /\ evt \in LoadedAp /\ Call("WiFiManager") => g_ap_ready'
           /\ evt \in LoadedSta /\ Call("WiFiManager") => g_sta_ready'
           /\ evt = "HTTPD_START" /\ Call("api") => server_started'
           /\ evt = "WIFI_STA_CONNECTED" /\ Call("MqttClient") =>
                 is_initialized' \/ ~mqtt_enabled'
           /\ \A c \in CameraTUs : evt = "CAMERA_INIT_DONE" /\ Call(c) => camera_init'[c]
           /\ \A c \in CameraTUs : evt = "WIFI_STA_CONNECTED" /\ Call(c) => wifi_connected'[c]
<1>1. ASSUME NEW t \in Tasks, NEW ts, t \in ts, Spawn(ts) PROVE started'[t] > 0
  <2>1. started[t] \in Nat
    BY DEF Inv, TypeOK
  <2>2. started'[t] = started[t] + 1
    BY <1>1 DEF Spawn
  <2> QED BY <2>1, <2>2
<1>2. evt = "BOOT_CAN_START" /\ Call(Starter(FirstMount)) => started'[FirstMount] > 0
  <2>1. CASE SD
    BY <1>1, <2>1, HandlerOf DEF FirstMount, Starter, IotSD_on_event, Tasks
  <2>2. CASE ~SD
    BY <1>1, <2>2, HandlerOf DEF FirstMount, Starter, FS_on_event, Tasks
  <2> QED BY <2>1, <2>2
<1>3. evt = "SD_ERROR" /\ Call("FS") => started'["mount_littlefs"] > 0
  BY <1>1, HandlerOf DEF FS_on_event, Tasks
<1>4. evt = "SD_READY" /\ Call("FS") => Emit("FS_READY")
  BY HandlerOf DEF FS_on_event
<1>5. evt = "FS_READY" /\ Call("WiFiConfig") => started'["load_ap"] > 0
  BY <1>1, HandlerOf DEF WiFiConfig_on_event, Tasks
<1>6. CAMERA /\ evt = "FS_READY" /\ Call("CameraController") => sensor' # "off"
  BY HandlerOf DEF CameraController_on_event
<1>7. /\ evt \in LoadedAp /\ Call("WiFiManager") => g_ap_ready'
      /\ evt \in LoadedSta /\ Call("WiFiManager") => g_sta_ready'
  BY HandlerOf DEF WiFiManager_on_event
<1>8. ASSUME evt = "HTTPD_START", Call("api") PROVE server_started'
  <2>1. api_on_event /\ server_started \in BOOLEAN
    BY <1>8, HandlerOf DEF Inv, TypeOK
  <2> QED BY <1>8, <2>1 DEF api_on_event
<1>9. evt = "WIFI_STA_CONNECTED" /\ Call("MqttClient") => is_initialized' \/ ~mqtt_enabled'
  BY HandlerOf DEF MqttClient_on_event
<1>10. ASSUME NEW c \in CameraTUs, Call(c)
       PROVE  /\ evt = "CAMERA_INIT_DONE" => camera_init'[c]
              /\ evt = "WIFI_STA_CONNECTED" => wifi_connected'[c]
  BY <1>10, HandlerOf DEF camera_on_event, Inv, TypeOK
<1> QED BY <1>2, <1>3, <1>4, <1>5, <1>6, <1>7, <1>8, <1>9, <1>10

\* Lemma: what was done is not undone.
LEMMA DoneLasts ==
    ASSUME Inv, Chain, [Next]_vars
    PROVE  /\ fs = "sd" => fs' = "sd"
           /\ sensor # "off" => sensor' # "off"
           /\ g_ap_ready => g_ap_ready'
           /\ g_sta_ready => g_sta_ready'
           /\ g_sta_ap_ready => g_sta_ap_ready'
           /\ server_started => server_started'
           /\ wifi = "started" => wifi' = "started"
           /\ httpd # "off" => httpd' # "off"
           /\ is_initialized => is_initialized'
           /\ \A c \in CameraTUs : camera_init[c] => camera_init'[c]
           /\ \A c \in CameraTUs : wifi_connected[c] => wifi_connected'[c]
           /\ dropped \subseteq dropped'
<1>1. fs = "sd" => fs' = "sd"
  BY Owners, MountFacts DEF mount_async, mount_littlefs
<1>2. sensor # "off" => sensor' # "off"
  BY Owners DEF CameraController_on_event
<1>3. /\ g_ap_ready => g_ap_ready'
      /\ g_sta_ready => g_sta_ready'
      /\ g_sta_ap_ready => g_sta_ap_ready'
  <2>1. g_ap_ready \in BOOLEAN /\ g_sta_ready \in BOOLEAN /\ g_sta_ap_ready \in BOOLEAN
    BY DEF Inv, TypeOK
  <2>2. CASE WiFiManager_on_event
    BY <2>1, <2>2 DEF WiFiManager_on_event
  <2> QED BY <2>1, <2>2, Owners DEF manager
<1>4. /\ server_started => server_started'
      /\ wifi = "started" => wifi' = "started"
      /\ httpd # "off" => httpd' # "off"
  BY Owners DEF api_on_event, start_apsta_async, task_start_server
<1>5. is_initialized => is_initialized'
  BY Owners DEF mqtt, MqttClient_on_event
<1>6. ASSUME NEW c \in CameraTUs
      PROVE  (camera_init[c] => camera_init'[c]) /\ (wifi_connected[c] => wifi_connected'[c])
  BY Owners DEF camera, camera_on_event, Inv, TypeOK
<1>7. dropped \subseteq dropped'
  <2>1. CASE Dispatch \/ EndDispatch \/ UNCHANGED vars
    BY <2>1 DEF Dispatch, EndDispatch, vars, bus
  <2> QED BY <2>1, Emitters, QueueGrows DEF Inv, Next, eventbus_task
<1> QED BY <1>1, <1>2, <1>3, <1>4, <1>5, <1>6, <1>7

\* Lemma: the modules that the debts are owed by.
LEMMA Owing ==
    /\ {"FS", "WiFiConfig", "WiFiManager", "MqttClient", "api", Starter(FirstMount)}
          \union CameraTUs \subseteq Modules \union CameraTUs \union {"api"}
    /\ CAMERA => "CameraController" \in Modules \union CameraTUs \union {"api"}
BY DEF Modules, Starter, FirstMount

\* Lemma: an event of the boot that is emitted is under way to everyone.
LEMMA BootEmit ==
    ASSUME TypeOK, NoBootEventDropped', NEW e \in BootEvents, Emit(e)
    PROVE  InQueue(e)' /\ \A m : Awaited(e, m)'
<1>1. e \in Events /\ e \notin dropped'
  BY DEF Events, NoBootEventDropped
<1> QED BY <1>1, EmitAdds DEF Awaited, Handled

\* Lemma: FS_READY is emitted with the step that makes the file system ready for good.
LEMMA ReadyEmits ==
    ASSUME Inv, Chain, NoBootEventDropped', [Next]_vars, ~ReadyForGood, ReadyForGood'
    PROVE  \A m : Awaited("FS_READY", m)'
<1>1. TypeOK /\ {"SD_READY", "FS_READY"} \subseteq BootEvents
  BY DEF Inv, BootEvents
<1>2. CASE fs' = fs
  <2>1. fs = "sd" /\ Awaited("SD_READY", "FS") /\ ~Awaited("SD_READY", "FS")'
    BY <1>2 DEF ReadyForGood, Mounted, Awaited
  <2>2. Emit("FS_READY")
    BY <1>1, <2>1, AwaitedLasts, Owing, Paid
  <2> QED BY <1>1, <2>2, BootEmit
<1>3. CASE fs' # fs /\ mount_littlefs
  BY <1>1, <1>3, BootEmit DEF mount_littlefs, ReadyForGood, Mounted
<1>4. CASE fs' # fs /\ mount_async
  <2>1. fs' = "sd" /\ Emit("SD_READY")
    BY <1>4 DEF mount_async
  <2>2. Awaited("SD_READY", "FS")'
    BY <1>1, <2>1, BootEmit
  <2> QED BY <2>1, <2>2 DEF ReadyForGood, Awaited
<1> QED BY <1>2, <1>3, <1>4, Owners

LEMMA DiskDebtsKept ==
    ASSUME Inv, Chain, NoBootEventDropped', DiskDebts, [Next]_vars
    PROVE  DiskDebts'
<1>1. TypeOK /\ {"BOOT_CAN_START", "SD_ERROR"} \subseteq BootEvents
      /\ {FirstMount, "mount_littlefs", "load_ap"} \subseteq Tasks
  BY DEF Inv, BootEvents, Tasks, FirstMount
<1>2. main' = "done" =>
         started'[FirstMount] > 0 \/ Awaited("BOOT_CAN_START", Starter(FirstMount))'
  <2>1. CASE main = "done"
    BY <1>1, <2>1, AwaitedLasts, Owing, Paid, CountsLast DEF DiskDebts
  <2>2. CASE main # "done"
    BY <1>1, <2>2, Owners, BootEmit DEF app_main
  <2> QED BY <2>1, <2>2
<1>3. ended'["mount_async"] > 0 =>
         fs' = "sd" \/ started'["mount_littlefs"] > 0 \/ Awaited("SD_ERROR", "FS")'
  <2>1. CASE ended["mount_async"] > 0
    BY <1>1, <2>1, AwaitedLasts, Owing, Paid, CountsLast, DoneLasts DEF DiskDebts
  <2>2. CASE mount_async
    BY <1>1, <2>2, BootEmit DEF mount_async
  <2> QED BY <2>1, <2>2, EndedBy
<1>4. ended'["mount_littlefs"] > 0 => fs' \in {"littlefs", "error"}
  <2>1. CASE mount_littlefs
    BY <2>1 DEF mount_littlefs
  <2>2. CASE mount_async
    <3>1. started["mount_littlefs"] = 0 /\ ended'["mount_littlefs"] = ended["mount_littlefs"]
      BY <2>2, MountFacts DEF mount_async, Tasks
    <3> QED BY <3>1, MountUnderWay
  <2>3. CASE fs' = fs /\ ended["mount_littlefs"] > 0
    BY <2>3 DEF DiskDebts
  <2> QED BY <2>1, <2>2, <2>3, Owners, EndedBy
<1>5. ReadyForGood' => started'["load_ap"] > 0 \/ Awaited("FS_READY", "WiFiConfig")'
  <2>1. CASE ReadyForGood
    BY <1>1, <2>1, AwaitedLasts, Owing, Paid, CountsLast DEF DiskDebts
  <2> QED BY <2>1, ReadyEmits
<1>6. ReadyForGood' /\ CAMERA => sensor' # "off" \/ Awaited("FS_READY", "CameraController")'
  <2>1. CASE ReadyForGood /\ CAMERA
    BY <1>1, <2>1, AwaitedLasts, Owing, Paid, DoneLasts DEF DiskDebts
  <2> QED BY <2>1, ReadyEmits
<1> QED BY <1>2, <1>3, <1>4, <1>5, <1>6 DEF DiskDebts

LEMMA ServiceDebtsKept ==
    ASSUME Inv, Chain, NoBootEventDropped', ServiceDebts, [Next]_vars
    PROVE  ServiceDebts'
<1>1. TypeOK /\ LoadedAp \union LoadedSta \union {"HTTPD_START"} \subseteq BootEvents
      /\ {"load_ap", "load_sta", "wifi_connect", "httpd_async"} \subseteq Tasks
  BY DEF Inv, BootEvents, Tasks
<1>2. started'["load_ap"] > 0 => started'["load_sta"] > 0
  BY <1>1, StartedWith, CountsLast DEF ServiceDebts
<1>3. ended'["load_ap"] > 0 => g_ap_ready' \/ \E e \in LoadedAp : Awaited(e, "WiFiManager")'
  <2>1. CASE ended["load_ap"] > 0 /\ ~g_ap_ready
    <3>1. PICK e \in LoadedAp : Awaited(e, "WiFiManager")
      BY <2>1 DEF ServiceDebts
    <3> QED BY <1>1, <3>1, AwaitedLasts, Owing, Paid
  <2>2. CASE async_load_ap
    BY <1>1, <2>2, BootEmit DEF async_load_ap
  <2> QED BY <2>1, <2>2, EndedBy, DoneLasts
<1>4. ended'["load_sta"] > 0 => g_sta_ready' \/ \E e \in LoadedSta : Awaited(e, "WiFiManager")'
  <2>1. CASE ended["load_sta"] > 0 /\ ~g_sta_ready
    <3>1. PICK e \in LoadedSta : Awaited(e, "WiFiManager")
      BY <2>1 DEF ServiceDebts
    <3> QED BY <1>1, <3>1, AwaitedLasts, Owing, Paid
  <2>2. CASE async_load_sta
    BY <1>1, <2>2, BootEmit DEF async_load_sta
  <2> QED BY <2>1, <2>2, EndedBy, DoneLasts
<1>5. g_ap_ready' /\ g_sta_ready' => g_sta_ap_ready'
  <2>1. CASE WiFiManager_on_event
    BY <2>1 DEF WiFiManager_on_event, Inv, TypeOK
  <2>2. CASE UNCHANGED manager
    BY <2>2 DEF manager, ServiceDebts
  <2> QED BY <2>1, <2>2, Owners
<1>7. g_sta_ap_ready' =>
         started'["wifi_connect"] > 0 /\ (server_started' \/ Awaited("HTTPD_START", "api")')
  <2>1. CASE g_sta_ap_ready
    <3>1. started'["wifi_connect"] > 0
      BY <1>1, <2>1, CountsLast DEF ServiceDebts
    <3>2. server_started' \/ Awaited("HTTPD_START", "api")'
      BY <1>1, <2>1, AwaitedLasts, Owing, Paid, DoneLasts DEF ServiceDebts
    <3> QED BY <3>1, <3>2
  <2>2. CASE ~g_sta_ap_ready /\ WiFiManager_on_event /\ g_sta_ap_ready'
    <3>1. Spawn({"wifi_connect"}) /\ Emit("HTTPD_START")
      BY <2>2 DEF WiFiManager_on_event
    <3>2. started'["wifi_connect"] > 0
      BY <1>1, <3>1, SpawnOne DEF TypeOK
    <3> QED BY <1>1, <3>1, <3>2, BootEmit
  <2> QED BY <2>1, <2>2, Owners DEF manager
<1>8. server_started' => started'["httpd_async"] > 0
  <2>1. CASE server_started
    BY <1>1, <2>1, CountsLast DEF ServiceDebts
  <2>2. CASE ~server_started /\ api_on_event /\ server_started'
    <3>1. Spawn({"httpd_async"})
      BY <2>2 DEF api_on_event
    <3>2. started'["httpd_async"] = started["httpd_async"] + 1
      BY <1>1, <3>1, SpawnOne
    <3> QED BY <1>1, <3>2 DEF TypeOK
  <2> QED BY <2>1, <2>2, Owners
<1>9. /\ ended'["wifi_connect"] > 0 => wifi' = "started"
      /\ ended'["httpd_async"] > 0 => httpd' # "off"
  BY EndedBy, DoneLasts DEF ServiceDebts
<1> QED BY <1>2, <1>3, <1>4, <1>5, <1>7, <1>8, <1>9 DEF ServiceDebts

LEMMA DeviceDebtsKept ==
    ASSUME Inv, Chain, Room, NoBootEventDropped', DeviceDebts, [Next]_vars
    PROVE  DeviceDebts'
<1>1. TypeOK /\ "CAMERA_INIT_DONE" \in BootEvents /\ "WIFI_STA_CONNECTED" \in Events
  BY DEF Inv, BootEvents, Events
<1>2. got_ips' > 0 => wifi' = "started"
  <2>1. CASE got_ip
    BY <2>1 DEF got_ip, WorldFrame
  <2> QED BY <2>1, Owners, DoneLasts DEF DeviceDebts
<1>3. Addressed' => Addressed \/ InQueue("WIFI_STA_CONNECTED")'
  <2>1. CASE got_ip
    BY <1>1, <2>1, EmitAdds DEF got_ip, Addressed
  <2> QED BY <2>1, Owners, DoneLasts DEF Addressed
<1>4. Addressed' /\ mqtt_enabled' =>
         is_initialized' \/ Awaited("WIFI_STA_CONNECTED", "MqttClient")'
  <2> SUFFICES ASSUME Addressed', mqtt_enabled', Addressed
               PROVE  is_initialized' \/ Awaited("WIFI_STA_CONNECTED", "MqttClient")'
    BY <1>3 DEF Awaited, Handled
  <2>1. g_ap_ready
    BY DEF Addressed, DeviceDebts, Inv, ManagerCaused
  <2>2. mqtt_enabled
    <3>1. CASE MqttClient_on_event
      <4>1. evt # "FS_READY"
        BY <2>1, <3>1, CallFacts DEF MqttClient_on_event, Room, SourcesGone, OnBus, Dispatching
      <4> QED BY <3>1, <4>1 DEF MqttClient_on_event, mqtt
    <3> QED BY <3>1, Owners DEF mqtt
  <2> QED BY <1>1, <2>2, AwaitedLasts, Owing, Paid, DoneLasts DEF DeviceDebts
<1>5. ASSUME NEW c \in CameraTUs
      PROVE  /\ sensor' = "ready" => camera_init'[c] \/ Awaited("CAMERA_INIT_DONE", c)'
             /\ Addressed' => wifi_connected'[c] \/ Awaited("WIFI_STA_CONNECTED", c)'
  <2>1. sensor' = "ready" => camera_init'[c] \/ Awaited("CAMERA_INIT_DONE", c)'
    <3>1. CASE sensor = "ready"
      BY <1>1, <3>1, AwaitedLasts, Owing, Paid, DoneLasts DEF DeviceDebts
    <3>2. CASE sensor # "ready" /\ sensor' = "ready"
      BY <1>1, <3>2, Owners, BootEmit DEF CameraController_on_event
    <3> QED BY <3>1, <3>2
  <2>2. Addressed' => wifi_connected'[c] \/ Awaited("WIFI_STA_CONNECTED", c)'
    <3>1. CASE Addressed
      BY <1>1, <3>1, AwaitedLasts, Owing, Paid, DoneLasts DEF DeviceDebts
    <3>2. CASE InQueue("WIFI_STA_CONNECTED")'
      BY <3>2 DEF Awaited, Handled
    <3> QED BY <1>3, <3>1, <3>2
  <2> QED BY <2>1, <2>2
<1> QED BY <1>2, <1>4, <1>5 DEF DeviceDebts

LEMMA InitDebts == Init => Debts
<1> SUFFICES ASSUME Init PROVE Debts
  OBVIOUS
<1>1. \A t \in Tasks : started[t] = 0 /\ ended[t] = 0
  BY DEF Init
<1>2. ~Mounted
  BY DEF Init, Mounted
<1>3. DiskDebts
  BY <1>1, <1>2 DEF Init, DiskDebts, ReadyForGood, Tasks
<1>4. ServiceDebts
  BY <1>1 DEF Init, ServiceDebts, Tasks
<1>5. DeviceDebts
  BY DEF Init, DeviceDebts, Addressed
<1> QED BY <1>3, <1>4, <1>5 DEF Debts

\* Lemma: at rest nothing is under way, and every task that was created has ended.
LEMMA RestFacts ==
    ASSUME Inv, AtRest
    PROVE  /\ \A e, m : ~Awaited(e, m)
           /\ \A t \in Tasks \ {"mjpeg_server"} : started[t] > 0 => ended[t] > 0
<1>1. \A e, m : ~Awaited(e, m)
  BY EmptySeq DEF AtRest, Awaited, Handled, InQueue, Dispatching
<1>2. ASSUME NEW t \in Tasks \ {"mjpeg_server"}, started[t] > 0 PROVE ended[t] > 0
  <2>1. started[t] \in Nat /\ ended[t] \in Nat /\ ~(ended[t] < started[t])
    BY DEF AtRest, Live, Inv, TypeOK
  <2> QED BY <1>2, <2>1
<1> QED BY <1>1, <1>2

\* Theorem: the boot has no silent end.  With a queue of four places or more, a device
\* in which nothing is left to run has mounted a file system, started the radio, called
\* httpd_start (the web server serves, or that one call was refused), given the sensor
\* its start and, once addressed, the MQTT client; or neither card nor flash could be
\* mounted.  It is what remains of ServicesComeUp without
\* fairness: no stage waits for an event that was lost, was consumed, or is sent by nobody.
THEOREM NoSilentEndCorrect ==
    ASSUME QUEUE_LEN >= 4
    PROVE  Spec => []NoSilentEnd
<1>1. Inv /\ Chain /\ Room /\ Room' /\ Debts /\ [Next]_vars => Debts'
  <2> SUFFICES ASSUME Inv, Chain, Room, Room', Debts, [Next]_vars PROVE Debts'
    OBVIOUS
  <2>1. NoBootEventDropped'
    BY DEF Room
  <2> QED BY <2>1, DiskDebtsKept, ServiceDebtsKept, DeviceDebtsKept DEF Debts
<1>2. Inv /\ Debts => NoSilentEnd
  <2> SUFFICES ASSUME Inv, Debts, AtRest, fs # "error" PROVE ServicesUp
    BY DEF NoSilentEnd
  <2>1. /\ \A e, m : ~Awaited(e, m)
        /\ \A t \in Tasks \ {"mjpeg_server"} : started[t] > 0 => ended[t] > 0
    BY RestFacts
  <2>2. FirstMount \in Tasks \ {"mjpeg_server"} /\ ended[FirstMount] > 0
    BY <2>1 DEF Debts, DiskDebts, AtRest, FirstMount, Tasks
  <2>3. Mounted
    BY <2>1, <2>2 DEF Debts, DiskDebts, FirstMount, Tasks, Mounted
  <2>4. started["load_ap"] > 0 /\ (CAMERA => sensor # "off")
    BY <2>1, <2>3 DEF Debts, DiskDebts, ReadyForGood, Awaited
  <2>5. ended["load_ap"] > 0 /\ ended["load_sta"] > 0
    BY <2>1, <2>4 DEF Debts, ServiceDebts, Tasks
  <2>6. g_sta_ap_ready
    BY <2>1, <2>5 DEF Debts, ServiceDebts
  <2>7. ended["wifi_connect"] > 0 /\ ended["httpd_async"] > 0
    BY <2>1, <2>6 DEF Debts, ServiceDebts, Tasks
  <2>8. wifi = "started" /\ httpd # "off"
    BY <2>7 DEF Debts, ServiceDebts
  <2> QED BY <2>1, <2>3, <2>4, <2>8 DEF Debts, DeviceDebts, ServicesUp
<1> QED BY <1>1, <1>2, InitDebts, BootInvariant, ChainInvariant, RoomInvariant, PTL DEF Spec
=============================================================================
