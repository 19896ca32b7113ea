# iotPlatform: TLA+ models, checks and proofs

The firmware under `src/main` is an ESP32 application built from subsystems that
talk through one event bus.  This directory holds TLA+ modules translated from
that code, TLC configurations that check them on small instances, and TLAPS
proofs of the main results for every value of the constants.

## 1. Inventory of the system

| Part | State it keeps | Operations | Talks to |
|---|---|---|---|
| Event bus (`bus_event/`) | a FreeRTOS queue of `QUEUE_LEN` = 10 events, the vector `subscribers`, `sub_mutex`, one static `Event` | `emit` (never waits, drops when full), `subscribe`, the task `eventbus_task` | every other part |
| Boot (`main.cpp`) | none | `app_main` emits `BOOT_CAN_START`, registers the LED actuator | bus, MQTT client, OTA |
| File system (`filesystem/`) | mounted flags | mount tasks, `FS::on_event`, `IotSD::on_event` | bus |
| WiFi configuration (`wifi_manager/WiFiConfig.*`) | access point and station configuration, files in flash | load tasks, save tasks, JSON conversions, `on_event` | bus, HTTP API (answers through a queue handle in the event), WiFi manager (pointers to the configuration) |
| WiFi manager (`wifi_manager/WiFiManager.*`) | readiness flags, status, retry counter, network index | `on_event`, `on_wifi_event`, the connect task | bus, WiFi driver |
| WiFi scanner (`wifi_manager/WiFiScanner.*`) | last scan | scan task | bus, HTTP API |
| HTTP API (`api/`) | server handle, `_server_started`, one response queue per request | GET, POST, scan and OTA handlers, the server task | bus, response queues |
| MQTT client (`mqtt_client/`) | configuration, client handle, subscriber and publisher lists, publish queue, three mutexes | `init`, `publish`, registrations, event handler, publisher task, auto-publisher task, `on_event` | bus, broker, HTTP API |
| Camera (`camera/`) | start-up flags per translation unit, sensor status, streaming sockets | `on_event`, the MJPEG server, controller and HTTP endpoints | bus, HTTP server |
| LED (`led_manager/`), OTA (`ota/`), persistence (`persistence/`) | GPIO level; running partition; files | `on`/`off`; `ota_task`, `validate_image`; `load_struct`, `save_struct` | MQTT actuator, HTTP API, all configurations |

How they interact.  Every module registers a callback with the bus from a static
constructor, before `app_main` runs.  Tasks, driver callbacks and callbacks of
the bus emit events; one task delivers them.  A request of an HTTP client travels
as an event that carries the address of a response queue, into which the handler
(on the bus task) or a task it starts writes the answer.  WiFiManager keeps
pointers into WiFiConfig.  The MQTT client is reached by five tasks and protects
itself with three mutexes; the esp-mqtt library has a lock of its own.

What is hard about it, and the properties that answer it:

- *the bus*: a bounded queue that drops, callbacks that emit, registrations during
  a dispatch.  Nothing that was accepted may be lost, repeated or overtaken; all
  registrations go through the events together; the bus task is never stuck.
- *the boot*: no module calls another, the order (file system, configuration,
  WiFi, MQTT, devices) is a consequence of the order of events.  It must hold for
  every order of registration, with the fallback from SD card to LittleFS, failed
  loads, and traffic that begins while the boot is still going on.
- *requests*: a timeout races the answer.  A response must belong to its
  request, no queue may leak or be deleted twice, and the bus must not be held up.
- *the station*: failures of new connections and losses of old ones are the same
  event; the machine must never come to rest without a connection, an attempt
  under way or a declared failure.
- *the MQTT client*: the order of locks, tasks that run before `init` is over, and
  flags that must follow the connection.
- *the MQTT messages*: a clock that wraps after 49 days, an address copied while it is
  read, commands meant for another device.
- *persistence*: save tasks that share a structure and a file, a restart at any moment, and
  a card that mounts at one start and not at another: what a start finds was written whole.
- *streaming*: clients that stall or leave while frame buffers and sockets are few.

## 2. Modules

| Module | Models | State and actions |
|---|---|---|
| `BusOps` | `xQueueSend` with timeout 0 | `Offer`, used by every module that emits |
| `EventBus` | `bus_event/` | one action per statement group of `eventbus_task` (`Receive`, `Lock`, `Callback`, `Unlock`), `Subscribe`, `TaskEmit`; events are numbered by their emit, so order and loss can be seen |
| `Broadcast` | nothing: the promise of the bus | one log, subscribers that go through it in lockstep; `EventBus` implements it with `Abs` |
| `Boot` | the on_event handlers of all modules and the tasks of the boot | one action per handler (one call of one callback), per task and per outside cause |
| `ApiService` | nothing: the promise of the web API | every request takes effect in one instant between its arrival and its response, or never; `HttpApi` implements it with `Service` |
| `HttpApi` | request handlers, the answering branches of WiFiConfig, MqttClient and WiFiScanner, the save tasks, restart | response queues live at addresses that are reused; a restart resets everything but the files |
| `WiFiManager` | the station state machine, the driver, the list rewritten by a POST | one action per branch of `on_wifi_event` |
| `MqttClient` | all five tasks that use the client, the four locks | a critical section is two steps, taking and releasing |
| `MqttMessages` | the clock of `auto_publisher_task`, the announcement and its address, the actuator `iot/led` with its filter, handler and `LedManager` | `wake` reads the clock, `round` publishes what is due; `Tick` is a millisecond; points in time are kept as ages, so that time has no bound |
| `CameraSettings` | `camera_api`, the settings part of `CameraController`, `save_struct` and `load_struct` | one action per field that `from_json` or `extract_config` goes through, `fopen`, `fwrite`, `fclose`, and `Restart` at any moment |
| `Streaming` | `mjpeg_socket_server_task`, `stream_socket_task`, `tryCapture` and `releaseCapture` | one action per blocking call; the driver and the clients are the environment |
| `MC*` | small instances for TLC | |
| `*Proofs` | theorems about the module named before `Proofs` | |

`Boot`, `HttpApi` and `MqttClient` each contain the bus at the level of detail
they need: its bounded queue with `Offer`, and one task that takes the events out.
That a dispatch calls every callback once, in order, is what `EventBus` shows.

Definitions described as "(faulty)" in a comment are not part of any specification.  They are
plausible mistakes in the code, kept beside the definition they replace to show
that each property can fail.

Abstractions.  In `Boot` an HTTP request is one event `REQUEST`; `MAX_RETRY` and the
driver's details are in `WiFiManager`.  In `HttpApi` a configuration is the number
of the POST that set it, a body is well formed or not, and time is two
assumptions: `BusKeepsUp` (the bus serves an event within the 200 ms of its
request) and `ScanKeepsUp` (a scan ends within 5 s).  If they are TRUE a timeout
can only happen when no answer is coming; if FALSE, at any moment.  A write to
a deleted queue that is not reused has no effect.  `clean` is a history variable: whether
anything of an earlier request was under way when the present one came.  The same file
system is found at every start (`CameraSettings` has two of them).  In `MqttClient` messages have no contents, a library event under its lock
is one step up to the handler, and every session is clean, which is the default
of the library's configuration that `init` leaves untouched.  In `MqttMessages` an
address that is half copied is one value, `torn`, which is nobody's address but may be
announced or asked for; the counter has `WORD` values; the `ip` of a command is an address,
missing, or no string, which makes the device start again (`restart`).  In `CameraSettings` four of
the 26 settings are modelled: `framesize` for all that are handled alike, `dcw` (which
`from_json` compares with `denoise`), `denoise`, and `aec` (which it never sets).  The
sensor may refuse any write.  There is a file on each of two volumes, the SD card and the
flash partition of LittleFS, and `Init` and `Restart` choose which one is mounted at `/sd`;
a file that is there may still be unreadable.  In `Streaming` a frame has no contents, and a
connection that is over may be followed by another one under the same name.

## 3. Runs

| Run | Question | Bounds | States |
|---|---|---|---|
| `bus` | is the queue the backlog, is the bus a `Broadcast`, its liveness included | queue of 2, 5 emits, 3 registrations of 2 callbacks, one of which emits | 22,872 |
| `boot` | order, once only, no lost boot event; do a mounted file system and an address bring up the services, and the next event the stream, whatever of it is refused | full device, queue of 4, two opposite orders, two copies of camera.h, each server refused or not, two addresses, one message or request | 418,824 |
| `api_prompt` | does a GET show the last POST while bus and scan keep up; is the API an `ApiService`, as seen from outside | all endpoints, 3 requests, 2 addresses, 2 other events, a queue of 2, one restart | 949,160 |
| `api_slow` | ownership of queues, order of POSTs and how far a late answer reaches, under arbitrary timeouts; does every request end, does the bus go on | 3 requests of three sorts, 2 addresses | 237,291 |
| `wifi_retry` | never stalled but by an empty SSID, every network tried, settles | lists of 0 to 3 entries, one of them with an empty SSID, the code's 3 retries, 3 losses, one new list | 13,234 |
| `mqtt` | start order, flags, first session; no deadlock, no starvation | 1 topic, 2 connections, 2 messages, errors or requests, 2 periodic publications, both queues short | 44,858 |
| `mqtt_messages` | period across wraps, announced address, LED and answers | counter of 8 values, period 3, delay 1, up to 2 between readings, 2 addresses, commands with each of them, none or no string | 395,811 |
| `camera_settings` | what is restored, what is saved, what a POST does | 2 values, 2 volumes, 2 save tasks, 2 posts, 2 saves, 2 restarts | 4,429,489 |
| `camera_stream` | are buffers and sockets given back, are clients noticed, is nobody kept waiting | 3 clients, 1 buffer, 2 sockets, a backlog of 1 | 15,342 |

Runs that find the code at odds with its documentation, each with one property:

| Run | Shows |
|---|---|
| `api_persist` | a POST is not there after a restart (it saves a pointer, and its task returns) |
| `wifi_reconnect` | a station that loses its network four times gives up without an attempt |
| `mqtt_reconnect` | no topic is subscribed after a reconnection |

Other differences between code and documents or code and evident intent, met while
modelling.  The models contain what the code does; no run is spent on them:

- `FS_ERROR` has no handler (`WiFiConfig.cpp:214` loads on `FS_READY` only): the boot
  ends there, while the file `Flow` sends it to the same load tasks, with defaults.
- `HTTPD_START` is emitted together with the creation of the connect task
  (`WiFiManager.cpp:57-59`): the server may listen before WiFi has started, which
  `Flow` has the other way round.
- `app_main` validates the image first (`main.cpp:33`), `ota.h` says "si le boot a réussi".
- `MQTT_POST_REQUEST` parses the response queue's handle, not the body
  (`MqttClient.hpp:644`), and acknowledges: no posted MQTT configuration is applied.
- an entry without SSID stops the station (`WiFiManager.cpp:98`): the networks behind it are never
  tried, and failure is never declared.  `NoStall` shows that it is the only way to stop.
- one scan of more than 5 s sends its answer to a deleted queue, and, if the next request
  got the same memory, that answer is taken for its own (`api.cpp:160`); the same goes for
  an answer of the bus task after 200 ms (`api.cpp:36`).  `OkIsOwnAnswer` shows how far that
  goes: a request that comes when no event and no scan of an earlier one is under way is safe.
- `httpd_start` may be refused (`api.cpp:378`): the server's task ends, `_server_started`
  stays up, and the device has no endpoints until it is restarted.  `ServicesComeUp` can
  therefore only say that the call is made.
- `socket`, `bind` or `listen` of the stream server may fail (`camera.cpp:54-77`), and
  `stream_socket_server_started` stays up: no second attempt is made.
- `accept` may fail, while there is no socket or because the connection was aborted
  (`camera.cpp:84`): the loop goes on without that client, who gets no response.
- a command on `iot/led` whose `ip` is no string restarts the device (`MqttClient.hpp:131-133`).
- with the card at `/sd` at one start and LittleFS at the next (`Fs.cpp:8`), `camera.bin` is
  another file: older settings or none come back, and what was saved in between comes
  back with the card.  `RestoredIsWritten` speaks of what is mounted at this start.
- the event loop may read the list of networks while a POST rewrites it
  (`WiFiConfig.cpp:142`), find it too short, and declare ALL_STA_FAILED for good.  `NoStall` and
  `Settles` accept a declared failure, whatever its cause.
- every device answers a command on `iot/led`, those it is not meant for with a copy of
  it (`MqttClient.hpp:144`); the answer to a GET is always 0, because the pin is configured
  as output only (`LedManager.cpp:23`).
- `from_json` compares `downsize` with `denoise` (`camera_controller.cpp:455`) and never sets
  `aec`; a POST without one of the keys follows a null pointer
  (`camera_controller.cpp:361`), and the device restarts.
- a stream whose task could not be created keeps its socket for ever (`camera.cpp:98`).
  `NothingLeaks` shows that it is the only leak.
- the OTA task downloads nothing: its configuration has no URL (`ota.cpp:15`).

Why the bounds are enough.  The queue of the code has 10 places; the bus run
uses 2, so that overflow happens with few events, and what the bus does depends on
full, empty and in between only (for every capacity it is proved).  `boot`
uses 4, the least that is enough: with 3 TLC finds a boot event dropped, and for 4
or more it is proved that none is, whatever the traffic.
Three requests are what a chain of wrong answers needs
(a late answer, the request that takes it, the one that takes the next), two addresses let
a late answer meet its own memory, another's, or nobody's.  The
retry limit is the code's own.  Two connections give the first
session, its loss and the second.  A counter of 8 values wraps every few periods, from
every starting point; what matters is that the period and the delays fit in one turn, and
`MessagesAssumption` says so.  Two save tasks and two posts give every overlap of a pair;
two restarts, at any point, are enough to leave a volume, save to the other one and come
back, and the proofs take any number of all of them.  One buffer and two sockets for three clients make both
run out.  Deadlock checking is off where the
system comes to rest: all bounded inputs used up.

## 4. Fairness

- The bus task, the boot's tasks, the save and scan tasks: weak fairness.  They are ready
  FreeRTOS tasks; nothing of higher priority runs for ever.  Emits,
  registrations, requests, connections, losses: none.
- `HttpApi`: a wait with a timeout ends (`ReceiveAnswer \/ Timeout`).
- `WiFiManager`: the driver reports an attempt's outcome; losses and POSTs owe
  nothing, but a POST that has begun is finished.
- `MqttClient`: strong fairness of the tasks.  A FreeRTOS mutex that is given
  goes to a waiting task, and the periodic publisher sleeps 500 ms outside of it, so a
  lock that is free again and again is obtained.  Weak fairness would allow the
  publisher to take `pub_mutex_` each time just before the bus task.
- `Streaming`: weak fairness of the server, of each stream task and of the driver that
  fills buffers.  Clients owe nothing: one that stalls may stall for ever.
- `MqttMessages` and `CameraSettings`: none, they state safety only.  That the periodic
  publisher runs often enough is the bound `MAX_GAP` between two readings of the clock.

## 5. Proofs

All theorems hold for every value of the constants that satisfies the named
assumption of the module, bounds included: capacities, numbers of clients, tasks, topics,
addresses, requests and restarts.

`EventBusProofs` (`QueueLenAssumption`, `BusAssumption`): `TypeOK`, `QueueIsBacklog`,
`ListStillInDispatch`, delivery in order (`DeliveredInOrder`), `Lockstep`, and that each step of the
bus is one of `Broadcast` or a stutter.  The inductive invariant `Inv` is their conjunction
together with what ties the parts: the event in hand is the accepted one at position
`Taken`, the mutex is held exactly during a dispatch.  `DeliveredInOrder`
alone is not inductive: that a callback is called with the right event needs
`QueueIsBacklog` for the event in hand and `Lockstep` for how far the registration has come.

`BootProofs` (`BootAssumption`, `QueueLenAssumption`): `TypeOK`, `StartupOrder`, `OnceOnly`,
and, for a queue of four places or more, `NoBootEventDropped` and `NoSilentEnd`.
`StartupOrder` speaks of tasks that have ended; the handlers look at events only.
Its invariant `Inv` therefore follows each fact along the way: what an event in the queue or
in dispatch proves about the tasks (an `AP_LOAD_*` means that the
load task has ended, `HTTPD_START` and `WIFI_STA_CONNECTED` that both have, a
`CAMERA_INIT_DONE` that the sensor is ready), and what a flag that remembers such
an event proves.  One extra fact is about the bus: `FS_READY` has been delivered to
everybody before any later event is, which is why the MQTT client has its
configuration when the address arrives, in whatever order the modules registered.
`OnceOnly` needs to know that an event happens once, and that needs `OnceOnly` for
the task that emits it.  `Chain` breaks the circle: along the boot there is
one place at a time where the next event can come from (`app_main`, a mount task, the
event in the queue, in dispatch before or behind the module that acts on it), the SD card
and LittleFS branches exclude each other, and the latches
count what was started.  It is inductive together with `Inv`.
`NoBootEventDropped` cannot be had from counting events, because traffic is unbounded.  `Room`
sorts the boot's events into four lanes (the SD mount, the camera, file system and access point,
station and services) and says that each has at most one event in the queue, since the
next one comes only when the one before has been taken, and that traffic starts only
when the last event of the boot is out.  Before that at most three other events are
queued when one is emitted, hence four places.
`NoSilentEnd` is what remains of `ServicesComeUp` without fairness: a device on which
nothing is left to run has its services up (of the web server: has called `httpd_start`,
which may have been refused), or no file system at all.  `Debts` says of each
stage that it has done its part or is owed one: a task to end, an event in the queue, or
one in dispatch that has not come to the stage's handler yet.  A step that pays one debt makes
the next, and that an emitted event does enter the queue is `Room`.

`HttpApiProofs` (`ApiAssumption`) has two parts.  Without any assumption about time it
proves `TypeOK`, `QueuesOwned` and `PostsInOrder`: the invariant adds `IdsInOrder`, which
says that the requests in the bus queue are numbered in order, behind the one in dispatch,
and that the configuration in memory is no younger than any of them; one dispatch
or one emit at the back then keeps it.  `OkIsOwnAnswer` is proved without one as well:
`CleanInv` says that while the server waits on a request that came when nothing old was under
way, every event, scan and answer of a request is of that very one, since the server sends no
other before it is through, and nothing else is left that could answer.  With `BusKeepsUp` and `ScanKeepsUp` it proves
`ReadYourWrites`: `OneInFlight` says that an event, a
dispatch or a scan for a request is one for the request that is waited on, in a single
place, and `AnswerIsOwn` that an answer found in the queue is the last trace of it.  A
timeout under the two assumptions happens only when nothing is in flight, so the next
request starts clean.  `ReadInv` adds what the configuration in memory is in between: the last one
acknowledged, or the one whose answer is in the response queue.
`ImplementsService` is a refinement under the same two assumptions.  The mapping calls
a request `served` once its answer is in its response queue; the step that puts it there is the
instant of the request, emits, receipts and deletions of queues are stutters, and a
timeout can be mapped to `GiveUp` because nothing is left under way for that request.

`WiFiManagerProofs` (`WiFiAssumption`): `TypeOK`, `NoStall`, `EveryNetworkTried`,
`AttemptsRunOut` and `FailureIsFinal`.
`ListInParts` (the list so far and the rest to come make up a configuration) covers
the list that is rewritten in place.  `TriesInv` counts: as long as nothing was lost or
posted there is one thing under way (the start, an attempt, or the event that reports its outcome),
and the attempts made at the current network are one more than the retries counted.
`Budget` is what stays of that with losses and new lists: the current network
has had one attempt more than retries are counted, later positions none, and every loss
has ended an attempt of its own.  So there are at most 5 * (1 + `MAX_RETRY_PER_NETWORK`) = 20
attempts, and as many losses, between two starts of the device: the bound that makes
`Settles` true, and the other side of what `wifi_reconnect` shows.

`MqttClientProofs` (`MqttAssumption`): `TypeOK`, `InitBeforeUse`, `ConnectedIsTrue` and
`FirstSessionSubscribed`.  `MutexHeld` says at which positions of which task `mutex_` is held;
since `init` holds it until the end, a handler that has it finds the client initialized
(`InitProgress`).  `FlagFollowsLink` says what the flag is at each position of the library's
handler, given the event it brings.  `FirstSession` relates marks, subscriptions and
what the broker knows from the first connection to its end; steps of the other tasks
(`Bystander`) leave all of it alone or register a topic late.
`LocksOwned` says for each of the four locks at which positions of which task it is held, and that
nobody else holds it.  `LockOrder` says that they are asked for in the order of `Rank`; `TakenWhereWanted` shows that the
positions at which a task asks for a lock are all of them, so `NoCircularWait`
(no set of tasks waits in a circle) is the fairness-free part of `EveryTaskGetsOn`.

`MqttMessagesProofs` (`MessagesAssumption`): `TypeOK`, `OnTime`, `AddressKnown` and `LedObeys`.
`Timing` ties the clock to the ages: a reading of the counter and the counter itself are as many
values apart, modulo `WORD`, as the reading is old; since the ages stay below a word
the unsigned difference is the true one.  `Fresh` says that the address last announced is
either the present one or has been overwritten since.

`CameraSettingsProofs` (`CameraAssumption`): `TypeOK` and the four properties of the run.
`FreshCopies` (what a live task has copied so far is no older than its request,
whoever wrote it to the shared structure), `FileIsWritten` (a whole file is the last one written whole to its volume),
`Undisturbed` and `Durable` (a save without company has one value per setting to save, and
nobody writes behind it; tasks write to the volume that is mounted, so the file of the other
one is safe), `PostInProgress` (`from_json` compares `dcw` with a `denoise` it has not
set yet).

`StreamingProofs` (`StreamingAssumption`): `TypeOK` and `NothingLeaks`.  `Hands` adds what the
server's task has in its hands between `accept` and the creation of the stream's task.

Model-checked only: liveness and the fairness part of the refinement of `Broadcast` (out of
the prover's reach, as is everything about ENABLED).  Every safety property of the
passing runs is a theorem.  Some hold under an assumption that the theorem states: four
places on the bus (the code has 10) for `NoBootEventDropped`, timely answers for
`ReadYourWrites` and `ImplementsService`.  `NoSilentEnd`, `AttemptsRunOut`, `FailureIsFinal`, and the theorems about
locks are no properties of a run: they are what can be proved of the liveness properties of
`boot`, `wifi_retry` and `mqtt`, which the runs check in full.  No module uses a RECURSIVE
operator, so all of them can be proved about.

## 6. Not modelled

- The feature list: a constant.
- The text of JSON and its fixed buffers; the list of access points that a scan fills.
- `update_sta`, `update_ap`, `ap_from_json`, `toggle`, `blink` and its task: nobody calls them.
- The OTA task, which fails at its first call, and the address of a stack buffer
  passed to it.
- Power failures during a save of the WiFi configurations, other than the restart the save
  task itself causes: what they save is the address of a configuration anyway.
- The response headers of `macro.h`, OPTIONS, ping, the GET of the camera: they read and
  answer, and keep no state.
- What a write to a freed and not reused queue does to the heap.
- That a damaged LittleFS is formatted when it is mounted (`Fs.cpp:14`): the settings on it
  are gone then, by intent.
- `subscribers_` read without its lock in the DATA branch: with one actuator no data
  arrives before its registration is over.

## 7. How the project grew

In this order: bus and abstract bus, boot, requests, station, MQTT client; then their
proofs; MQTT messages and LED, camera settings with persistence, streaming; then
the proofs of these three, of the boot's chain of events, of the MQTT client, of
`ReadYourWrites` and of `EveryNetworkTried`; then the room for the boot's events and that it
never ends half done, the API as a service, the order of locks, and the
station's budget of attempts.

Worth doing when the code changes: a lock discipline of `subscribers_` once a second
actuator is registered; download, restart and rollback once the OTA task has a URL; a
new scan while an old one is still under way once `last_scan` is filled by more than one
request at a time; the WiFi configurations as callers of `save_struct`, like the
camera's, once they save what they should.
