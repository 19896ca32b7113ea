-------------------------------- MODULE Boot --------------------------------
(***************************************************************************)
(* How the subsystems bring the device up over the event bus: the on_event  *)
(* handlers that take part in it, the tasks they start, and the events the  *)
(* WiFi driver, the broker and HTTP clients cause once they can.            *)
(*                                                                         *)
(* One step of the bus task is one call of one handler; tasks, app_main and *)
(* the outside world interleave with it.                                    *)
(***************************************************************************)
EXTENDS BusOps, FiniteSets

CONSTANTS
    Orders,         \* possible orders of registration: the static constructors
                    \* of different translation units run in any order
    CameraTUs,      \* translation units with their own copy of camera.h's state
    SD, CAMERA,     \* the Kconfig features; CAMERA selects SD
    MaxGotIp,       \* bound on the times the station gets an address
    MaxNoise        \* bound on MQTT events and HTTP requests

Modules == {"FS", "WiFiConfig", "WiFiManager", "MqttClient"}
           \union (IF SD THEN {"IotSD"} ELSE {})
           \union (IF CAMERA THEN {"CameraController"} ELSE {})

\* Every module registers once, but api.h does so from two translation units
\* and camera.h from each one that includes it.
Complete(order) ==
    /\ \A m \in Modules \union CameraTUs : \E k \in DOMAIN order : order[k] = m
    /\ \A j, k \in DOMAIN order : order[j] = order[k] => j = k \/ order[j] = "api"
    /\ \E j, k \in DOMAIN order : j # k /\ order[j] = "api" /\ order[k] = "api"

ASSUME BootAssumption ==
    /\ SD \in BOOLEAN /\ CAMERA \in BOOLEAN /\ (CAMERA => SD)
    /\ IsFiniteSet(CameraTUs)
    /\ CameraTUs \intersect (Modules \union {"api"}) = {}
    /\ (CameraTUs # {}) => CAMERA
    /\ \A order \in Orders :
          order \in Seq(Modules \union CameraTUs \union {"api"}) /\ Complete(order)
    /\ MaxGotIp \in Nat /\ MaxNoise \in Nat

LoadedAp == {"AP_LOAD_SUCCESS", "AP_LOAD_FAIL"}
LoadedSta == {"STA_LOAD_SUCCESS", "STA_LOAD_FAIL"}
\* The events that occur at most once, on the way up.
BootEvents == {"BOOT_CAN_START", "SD_READY", "SD_ERROR", "FS_READY", "FS_ERROR",
               "CAMERA_INIT_DONE", "HTTPD_START"} \union LoadedAp \union LoadedSta
MqttEvents == {"MQTT_CONNECTED", "MQTT_DISCONNECTED", "MQTT_ERROR", "MQTT_MESSAGE"}
\* "REQUEST" stands for the event of any HTTP request.
Events == BootEvents \union MqttEvents
          \union {"NONE", "SD_MOUNT", "WIFI_STA_CONNECTED", "REQUEST"}

Tasks == {"mount_littlefs", "mount_dual", "mount_async", "load_ap", "load_sta",
          "wifi_connect", "httpd_async", "mjpeg_server"}

VARIABLES
    subscribers,    \* the registrations, in order
    evt_queue, evt, \* the bus: its queue and the event in dispatch
    cursor,         \* position of the dispatch; 0 when there is none
    dropped,        \* history: types of the events dropped on a full queue
    main,           \* where app_main is
    started, ended, \* how often each task was created and came to its end
    fs,             \* "none", "littlefs", "sd" or "error"
    g_ap_ready, g_sta_ready, g_sta_ap_ready,    \* WiFiManager's flags
    wifi,           \* "off", "netif" (network stack up) or "started"
    got_ips,        \* how often the station got an address
    server_started, httpd,  \* api: its flag; "off", "listening" or "failed"
    mqtt_loaded, mqtt_enabled, is_initialized, hosts_registered,    \* MqttClient
    sensor,         \* CameraController: "off", "ready" or "failed"
    wifi_connected, camera_init, stream_started,    \* camera.h, per unit
    mjpeg_listeners,    \* sockets listening on the streaming port
    noise           \* number of MQTT events and HTTP requests so far

bus == <<evt_queue, dropped>>
tasks == <<started, ended>>
manager == <<g_ap_ready, g_sta_ready, g_sta_ap_ready>>
mqtt == <<mqtt_loaded, mqtt_enabled, is_initialized, hosts_registered>>
camera == <<wifi_connected, camera_init, stream_started>>
world == <<fs, wifi, got_ips, httpd, mjpeg_listeners, noise>>
vars == <<subscribers, bus, evt, cursor, main, tasks, manager, server_started,
          mqtt, sensor, camera, world>>

Init ==
    /\ subscribers \in Orders
    /\ evt_queue = << >> /\ evt = "NONE" /\ cursor = 0 /\ dropped = {}
    /\ main = "validate"
    /\ started = [t \in Tasks |-> 0] /\ ended = [t \in Tasks |-> 0]
    /\ fs = "none"
    /\ g_ap_ready = FALSE /\ g_sta_ready = FALSE /\ g_sta_ap_ready = FALSE
    /\ wifi = "off" /\ got_ips = 0
    /\ server_started = FALSE /\ httpd = "off"
    /\ mqtt_loaded = FALSE /\ mqtt_enabled = TRUE
    /\ is_initialized = FALSE /\ hosts_registered = FALSE
    /\ sensor = "off"
    /\ wifi_connected = [c \in CameraTUs |-> FALSE]
    /\ camera_init = [c \in CameraTUs |-> FALSE]
    /\ stream_started = [c \in CameraTUs |-> FALSE]
    /\ mjpeg_listeners = 0
    /\ noise = 0

-----------------------------------------------------------------------------
\* utils::emitEvent and EventBus::emit
Emit(e) ==
    /\ evt_queue' = Offer(evt_queue, e)
    /\ dropped' = IF HasRoom(evt_queue) THEN dropped ELSE dropped \union {e}

Spawn(ts) ==
    /\ started' = [t \in Tasks |-> started[t] + IF t \in ts THEN 1 ELSE 0]
    /\ UNCHANGED ended

Live(t) == ended[t] < started[t]

Ends(t) ==
    /\ Live(t)
    /\ ended' = [ended EXCEPT ![t] = @ + 1]
    /\ UNCHANGED started

Quiet == UNCHANGED <<bus, tasks>>

\* The bus task calls the handler of m with the event in dispatch.
Call(m) ==
    /\ cursor \in DOMAIN subscribers
    /\ subscribers[cursor] = m
    /\ cursor' = cursor + 1
    /\ UNCHANGED <<subscribers, evt, main, world>>

-----------------------------------------------------------------------------
(* The handlers.                                                             *)

FS_on_event ==
    /\ Call("FS")
    /\ \/ /\ evt = "BOOT_CAN_START"
          /\ Spawn({IF SD THEN "mount_dual" ELSE "mount_littlefs"})
          /\ UNCHANGED bus
       \/ evt = "SD_READY" /\ Emit("FS_READY") /\ UNCHANGED tasks
       \/ evt = "SD_ERROR" /\ Spawn({"mount_littlefs"}) /\ UNCHANGED bus
       \/ evt \notin {"BOOT_CAN_START", "SD_READY", "SD_ERROR"} /\ Quiet
    /\ UNCHANGED <<manager, server_started, mqtt, sensor, camera>>

IotSD_on_event ==
    /\ Call("IotSD")
    /\ IF evt = "BOOT_CAN_START"
       THEN Spawn({"mount_async"}) /\ UNCHANGED bus ELSE Quiet
    /\ UNCHANGED <<manager, server_started, mqtt, sensor, camera>>

WiFiConfig_on_event ==
    /\ Call("WiFiConfig")
    /\ IF evt = "FS_READY"
       THEN Spawn({"load_ap", "load_sta"}) /\ UNCHANGED bus ELSE Quiet
    /\ UNCHANGED <<manager, server_started, mqtt, sensor, camera>>

\* Without the latch g_sta_ap_ready (a faulty variant).
WiFiManagerUnlatched ==
    /\ Call("WiFiManager")
    /\ g_ap_ready' = (g_ap_ready \/ evt \in LoadedAp)
    /\ g_sta_ready' = (g_sta_ready \/ evt \in LoadedSta)
    /\ IF g_sta_ready' /\ g_ap_ready' /\ started["wifi_connect"] < 2
       THEN Spawn({"wifi_connect"}) /\ Emit("HTTPD_START") /\ g_sta_ap_ready' = TRUE
       ELSE Quiet /\ UNCHANGED g_sta_ap_ready
    /\ UNCHANGED <<server_started, mqtt, sensor, camera>>

\* Starting as soon as one of the two configurations is there (faulty).
WiFiManagerHasty ==
    /\ Call("WiFiManager")
    /\ g_ap_ready' = (g_ap_ready \/ evt \in LoadedAp)
    /\ g_sta_ready' = (g_sta_ready \/ evt \in LoadedSta)
    /\ IF (g_sta_ready' \/ g_ap_ready') /\ ~g_sta_ap_ready
       THEN Spawn({"wifi_connect"}) /\ Emit("HTTPD_START") /\ g_sta_ap_ready' = TRUE
       ELSE Quiet /\ UNCHANGED g_sta_ap_ready
    /\ UNCHANGED <<server_started, mqtt, sensor, camera>>

\* Waiting for a successful load of the access point's file (faulty).
WiFiManagerOnlySuccess ==
    /\ Call("WiFiManager")
    /\ g_ap_ready' = (g_ap_ready \/ evt = "AP_LOAD_SUCCESS")
    /\ g_sta_ready' = (g_sta_ready \/ evt \in LoadedSta)
    /\ IF g_sta_ready' /\ g_ap_ready' /\ ~g_sta_ap_ready
       THEN Spawn({"wifi_connect"}) /\ Emit("HTTPD_START") /\ g_sta_ap_ready' = TRUE
       ELSE Quiet /\ UNCHANGED g_sta_ap_ready
    /\ UNCHANGED <<server_started, mqtt, sensor, camera>>

WiFiManager_on_event ==
    /\ Call("WiFiManager")
    /\ g_ap_ready' = (g_ap_ready \/ evt \in LoadedAp)
    /\ g_sta_ready' = (g_sta_ready \/ evt \in LoadedSta)
    /\ IF g_sta_ready' /\ g_ap_ready' /\ ~g_sta_ap_ready
       THEN Spawn({"wifi_connect"}) /\ Emit("HTTPD_START") /\ g_sta_ap_ready' = TRUE
       ELSE Quiet /\ UNCHANGED g_sta_ap_ready
    /\ UNCHANGED <<server_started, mqtt, sensor, camera>>

\* Both registrations of api.h call the same function, with one flag.
api_on_event ==
    /\ Call("api")
    /\ IF evt = "HTTPD_START" /\ ~server_started
       THEN Spawn({"httpd_async"}) /\ Emit("NONE") /\ server_started' = TRUE
       ELSE Quiet /\ UNCHANGED server_started
    /\ UNCHANGED <<manager, mqtt, sensor, camera>>

\* FS_READY: load() either reads a configuration, enabled or not, or leaves the
\* default one, which is enabled.
MqttClient_on_event ==
    /\ Call("MqttClient")
    /\ Quiet
    /\ \/ /\ evt = "FS_READY"
          /\ mqtt_loaded' = TRUE
          /\ mqtt_enabled' \in BOOLEAN
          /\ UNCHANGED <<is_initialized, hosts_registered>>
       \/ /\ evt = "WIFI_STA_CONNECTED"
          /\ is_initialized' = (is_initialized \/ mqtt_enabled)
          /\ UNCHANGED <<mqtt_loaded, mqtt_enabled, hosts_registered>>
       \/ /\ evt = "MQTT_CONNECTED"
          /\ hosts_registered' = TRUE
          /\ UNCHANGED <<mqtt_loaded, mqtt_enabled, is_initialized>>
       \/ /\ evt \notin {"FS_READY", "WIFI_STA_CONNECTED", "MQTT_CONNECTED"}
          /\ UNCHANGED mqtt
    /\ UNCHANGED <<manager, server_started, sensor, camera>>

\* initialize() runs on the bus task; the driver may refuse.
CameraController_on_event ==
    /\ Call("CameraController")
    /\ \/ /\ evt = "FS_READY" /\ sensor # "ready"
          /\ \/ sensor' = "ready" /\ Emit("CAMERA_INIT_DONE")
             \/ sensor' = "failed" /\ UNCHANGED bus
       \/ (evt # "FS_READY" \/ sensor = "ready") /\ UNCHANGED <<bus, sensor>>
    /\ UNCHANGED <<tasks, manager, server_started, mqtt, camera>>

\* Counting on NONE, the event "for release bus", alone (faulty).
CameraOnNoneOnly(c) ==
    /\ Call(c)
    /\ wifi_connected' = [wifi_connected EXCEPT ![c] = @ \/ evt = "WIFI_STA_CONNECTED"]
    /\ camera_init' = [camera_init EXCEPT ![c] = @ \/ evt = "CAMERA_INIT_DONE"]
    /\ IF evt = "NONE" /\ camera_init[c] /\ wifi_connected[c] /\ ~stream_started[c]
       THEN Spawn({"mjpeg_server"}) /\ stream_started' = [stream_started EXCEPT ![c] = TRUE]
       ELSE UNCHANGED <<tasks, stream_started>>
    /\ UNCHANGED <<bus, manager, server_started, mqtt, sensor>>

\* The events that set a flag do not look at the flags: only a further event,
\* whatever it is, starts the streaming server.
camera_on_event(c) ==
    /\ Call(c)
    /\ \/ /\ evt = "WIFI_STA_CONNECTED"
          /\ wifi_connected' = [wifi_connected EXCEPT ![c] = TRUE]
          /\ UNCHANGED <<tasks, camera_init, stream_started>>
       \/ /\ evt = "CAMERA_INIT_DONE"
          /\ camera_init' = [camera_init EXCEPT ![c] = TRUE]
          /\ UNCHANGED <<tasks, wifi_connected, stream_started>>
       \/ /\ evt \notin {"WIFI_STA_CONNECTED", "CAMERA_INIT_DONE"}
          /\ IF camera_init[c] /\ wifi_connected[c] /\ ~stream_started[c]
             THEN /\ Spawn({"mjpeg_server"})
                  /\ stream_started' = [stream_started EXCEPT ![c] = TRUE]
             ELSE UNCHANGED <<tasks, stream_started>>
          /\ UNCHANGED <<wifi_connected, camera_init>>
    /\ UNCHANGED <<bus, manager, server_started, mqtt, sensor>>

Handler ==
    \/ FS_on_event \/ IotSD_on_event \/ WiFiConfig_on_event
    \/ WiFiManager_on_event \/ api_on_event \/ MqttClient_on_event
    \/ CameraController_on_event
    \/ \E c \in CameraTUs : camera_on_event(c)

Dispatch ==
    /\ cursor = 0
    /\ evt_queue # << >>
    /\ evt' = Head(evt_queue)
    /\ evt_queue' = Tail(evt_queue)
    /\ cursor' = 1
    /\ UNCHANGED <<subscribers, dropped, main, tasks, manager, server_started, mqtt,
                   sensor, camera, world>>

EndDispatch ==
    /\ cursor > Len(subscribers)
    /\ cursor' = 0
    /\ UNCHANGED <<subscribers, bus, evt, main, tasks, manager, server_started, mqtt,
                   sensor, camera, world>>

eventbus_task == Dispatch \/ Handler \/ EndDispatch

-----------------------------------------------------------------------------
(* The tasks, and app_main.                                                  *)

\* What a task leaves alone besides what each action says.
TaskFrame == UNCHANGED <<subscribers, evt, cursor, manager, server_started, mqtt,
                         sensor, camera, noise>>

app_main ==
    /\ \/ main = "validate" /\ main' = "boot" /\ UNCHANGED bus
       \/ main = "boot" /\ main' = "done" /\ Emit("BOOT_CAN_START")
    /\ UNCHANGED <<tasks, fs, wifi, got_ips, httpd, mjpeg_listeners>>
    /\ TaskFrame

mount_dual ==
    /\ Ends("mount_dual")
    /\ Emit("SD_MOUNT")
    /\ UNCHANGED <<main, fs, wifi, got_ips, httpd, mjpeg_listeners>>
    /\ TaskFrame

\* format_if_mount_failed does not exclude an error.
mount_littlefs ==
    /\ Ends("mount_littlefs")
    /\ \/ fs' = "littlefs" /\ Emit("FS_READY")
       \/ fs' = "error" /\ Emit("FS_ERROR")
    /\ UNCHANGED <<main, wifi, got_ips, httpd, mjpeg_listeners>>
    /\ TaskFrame

mount_async ==
    /\ Ends("mount_async")
    /\ \/ fs' = "sd" /\ Emit("SD_READY")
       \/ fs' = fs /\ Emit("SD_ERROR")
    /\ UNCHANGED <<main, wifi, got_ips, httpd, mjpeg_listeners>>
    /\ TaskFrame

async_load_ap ==
    /\ Ends("load_ap")
    /\ \E e \in LoadedAp : Emit(e)
    /\ UNCHANGED <<main, fs, wifi, got_ips, httpd, mjpeg_listeners>>
    /\ TaskFrame

async_load_sta ==
    /\ Ends("load_sta")
    /\ \E e \in LoadedSta : Emit(e)
    /\ UNCHANGED <<main, fs, wifi, got_ips, httpd, mjpeg_listeners>>
    /\ TaskFrame

\* start_apsta_async: the network stack first, esp_wifi_start last.
start_apsta_async ==
    /\ Live("wifi_connect")
    /\ \/ wifi = "off" /\ wifi' = "netif" /\ UNCHANGED tasks
       \/ wifi # "off" /\ wifi' = "started" /\ Ends("wifi_connect")
    /\ UNCHANGED <<bus, main, fs, got_ips, httpd, mjpeg_listeners>>
    /\ TaskFrame

\* httpd_start may be refused: the task ends all the same, and nothing retries.
task_start_server ==
    /\ Ends("httpd_async")
    /\ httpd' \in {"listening", "failed"}
    /\ UNCHANGED <<bus, main, fs, wifi, got_ips, mjpeg_listeners>>
    /\ TaskFrame

\* A copy that does not listen yet: port 8081 has room for one listener, and
\* socket, bind or listen may fail for any copy, which ends its task for good.
mjpeg_socket_server_task ==
    /\ started["mjpeg_server"] > ended["mjpeg_server"] + mjpeg_listeners
    /\ \/ mjpeg_listeners = 0 /\ mjpeg_listeners' = 1 /\ UNCHANGED tasks
       \/ Ends("mjpeg_server") /\ UNCHANGED mjpeg_listeners
    /\ UNCHANGED <<bus, main, fs, wifi, got_ips, httpd>>
    /\ TaskFrame

Task ==
    \/ mount_dual \/ mount_littlefs \/ mount_async \/ async_load_ap
    \/ async_load_sta \/ start_apsta_async \/ task_start_server
    \/ mjpeg_socket_server_task

-----------------------------------------------------------------------------
(* The outside world: the driver's event loop, the MQTT client's task and the *)
(* HTTP server's task emit too.                                               *)

WorldFrame == UNCHANGED <<subscribers, evt, cursor, main, tasks, manager, server_started,
                          mqtt, sensor, camera, fs, wifi, httpd, mjpeg_listeners>>

\* A client served although no server was started yet (faulty).
HttpRequestEarly ==
    /\ noise < MaxNoise
    /\ noise' = noise + 1
    /\ Emit("REQUEST")
    /\ UNCHANGED got_ips
    /\ WorldFrame

got_ip ==
    /\ wifi = "started"
    /\ got_ips < MaxGotIp
    /\ got_ips' = got_ips + 1
    /\ Emit("WIFI_STA_CONNECTED")
    /\ UNCHANGED noise
    /\ WorldFrame

mqtt_event_handler ==
    /\ is_initialized
    /\ noise < MaxNoise
    /\ noise' = noise + 1
    /\ \E e \in MqttEvents : Emit(e)
    /\ UNCHANGED got_ips
    /\ WorldFrame

http_request ==
    /\ httpd = "listening"
    /\ noise < MaxNoise
    /\ noise' = noise + 1
    /\ Emit("REQUEST")
    /\ UNCHANGED got_ips
    /\ WorldFrame

Environment == got_ip \/ mqtt_event_handler \/ http_request

Next == eventbus_task \/ app_main \/ Task \/ Environment

\* The scheduler runs every ready task of the firmware sooner or later; the
\* network owes nothing.
Fairness ==
    /\ WF_vars(eventbus_task)
    /\ WF_vars(app_main)
    /\ WF_vars(mount_dual) /\ WF_vars(mount_littlefs) /\ WF_vars(mount_async)
    /\ WF_vars(async_load_ap) /\ WF_vars(async_load_sta)
    /\ WF_vars(start_apsta_async) /\ WF_vars(task_start_server)
    /\ WF_vars(mjpeg_socket_server_task)

Spec == Init /\ [][Next]_vars /\ Fairness

-----------------------------------------------------------------------------
Mounted == fs \in {"littlefs", "sd"}

TypeOK ==
    /\ subscribers \in Orders
    /\ evt_queue \in Seq(Events) /\ Len(evt_queue) <= QUEUE_LEN
    /\ evt \in Events
    /\ cursor \in 0 .. Len(subscribers) + 1
    /\ dropped \subseteq Events
    /\ main \in {"validate", "boot", "done"}
    /\ started \in [Tasks -> Nat] /\ ended \in [Tasks -> Nat]
    /\ fs \in {"none", "littlefs", "sd", "error"}
    /\ g_ap_ready \in BOOLEAN /\ g_sta_ready \in BOOLEAN /\ g_sta_ap_ready \in BOOLEAN
    /\ wifi \in {"off", "netif", "started"}
    /\ got_ips \in Nat
    /\ server_started \in BOOLEAN /\ httpd \in {"off", "listening", "failed"}
    /\ mqtt_loaded \in BOOLEAN /\ mqtt_enabled \in BOOLEAN
    /\ is_initialized \in BOOLEAN /\ hosts_registered \in BOOLEAN
    /\ sensor \in {"off", "ready", "failed"}
    /\ wifi_connected \in [CameraTUs -> BOOLEAN]
    /\ camera_init \in [CameraTUs -> BOOLEAN]
    /\ stream_started \in [CameraTUs -> BOOLEAN]
    /\ mjpeg_listeners \in {0, 1}
    /\ noise \in Nat

\* README "Ensures correct order: filesystem -> config -> WiFi -> MQTT -> devices".
\* The WiFi configurations are loaded with a file system mounted, and it stays
\* mounted: the fallback from SD card to LittleFS does not run beside the card.
\* No radio and no web server before both were loaded, no MQTT client before its
\* own configuration was loaded and WiFi runs, no camera stream before the sensor
\* is up and the station has an address.  No handler checks most of this: it
\* follows from the order in which the bus delivers.
ConfigAfterFs == started["load_ap"] + started["load_sta"] > 0 => Mounted
WiFiAfterConfig ==
    wifi # "off" \/ httpd # "off" => ended["load_ap"] > 0 /\ ended["load_sta"] > 0
MqttAfterWiFi == is_initialized => wifi = "started" /\ mqtt_loaded
StreamAfterDevices == started["mjpeg_server"] > 0 => sensor = "ready" /\ got_ips > 0

StartupOrder == ConfigAfterFs /\ WiFiAfterConfig /\ MqttAfterWiFi /\ StreamAfterDevices

\* No task of the boot is created twice: neither by api's second registration,
\* nor by the ready flags that stay up, nor by the fallback from SD to LittleFS.
\* The streaming server is created once per copy of camera.h.
OnceOnly ==
    /\ \A t \in Tasks \ {"mjpeg_server"} : started[t] <= 1
    /\ started["mjpeg_server"] <= Cardinality(CameraTUs)

\* None of the events that happen once is lost to a full queue, in spite of
\* what arrives from the network as soon as WiFi and the web server are up.
NoBootEventDropped == dropped \intersect BootEvents = {}

\* A mounted file system brings up the radio and has the web server started, with
\* stored configurations or with the defaults: it serves then, or httpd_start was
\* refused.  An address makes the enabled MQTT client start, if the event is not
\* dropped.
ServicesComeUp ==
    /\ Mounted ~> (wifi = "started" /\ httpd # "off")
    /\ (got_ips > 0 /\ "WIFI_STA_CONNECTED" \notin dropped /\ mqtt_enabled)
           ~> is_initialized

\* Once the sensor is up and the station connected, any further event but the
\* two that say so brings up the streaming server, with one listener unless the
\* task of every copy fails.
NextEventStartsStream ==
    \A c \in CameraTUs :
        (/\ wifi_connected[c] /\ camera_init[c]
         /\ \E j \in DOMAIN evt_queue :
              evt_queue[j] \notin {"WIFI_STA_CONNECTED", "CAMERA_INIT_DONE"})
            ~> (stream_started[c] /\ (mjpeg_listeners = 1 \/ ~Live("mjpeg_server")))
=============================================================================
