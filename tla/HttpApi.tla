------------------------------ MODULE HttpApi ------------------------------
(***************************************************************************)
(* The HTTP API and the bus handlers that answer it.                        *)
(*                                                                         *)
(* One task, the web server's, serves one request at a time: it creates a   *)
(* response queue, emits an event that carries the queue's address, waits   *)
(* for an answer or a timeout, and deletes the queue.  The handlers of      *)
(* WiFiConfig, MqttClient and WiFiScanner answer from the bus task, or from *)
(* a task they start, whether the queue still exists or not; a new queue    *)
(* may well get the address of the deleted one.                             *)
(***************************************************************************)
EXTENDS BusOps, Integers, FiniteSets

CONSTANTS
    Addr,           \* heap blocks a response queue can occupy (positive)
    Kinds,          \* the endpoints in use
    BusKeepsUp,     \* timing: the bus answers within 200 ms of the request
    ScanKeepsUp,    \* timing: a scan ends within 5 s
    MaxRequests,    \* bound on requests
    MaxNoise,       \* bound on events of other modules
    MaxReboots      \* bound on reboots

Gets == {"sta_get", "ap_get", "mqtt_get", "mqtt_status"}
Posts == {"sta_post", "ap_post", "mqtt_post"}
Unserved == {"wifi_status", "fs_list"}      \* endpoints whose event nobody handles
AllKinds == Gets \union Posts \union Unserved \union {"wifi_scan"}

ASSUME ApiAssumption ==
    /\ Addr # {} /\ Addr \subseteq Nat \ {0}
    /\ Kinds \subseteq AllKinds
    /\ BusKeepsUp \in BOOLEAN /\ ScanKeepsUp \in BOOLEAN
    /\ MaxRequests \in Nat /\ MaxNoise \in Nat /\ MaxReboots \in Nat

\* A request, and the event emitted for it: its kind, its number, whether its
\* body is well formed, and the address of the response queue.
Requests == [kind : AllKinds, id : Nat, valid : BOOLEAN, ctx : Addr]
NoRequest == [kind |-> "none", id |-> 0, valid |-> FALSE, ctx |-> 0]
Other == [NoRequest EXCEPT !.kind = "other"]

\* An answer: the kind of request whose expected answer type it has, the number
\* of the request that caused it, and the configuration it shows.
Answers == [type : AllKinds, id : Nat, shows : Int]

Default == 0        \* the configuration compiled in; a POST's is its number
Mangled == -1       \* the default with its first bytes overwritten

VARIABLES
    evt_queue, evt,     \* the bus: its queue and the event in dispatch
    req,                \* the request the web server's task is waiting on
    allocated,          \* addresses of the existing response queues
    resp_queue,         \* what was written to the queue at an address
    scans,              \* the scan tasks: the requests they serve
    saves,              \* the save tasks: [file, step], at most one per POST
    sta_cfg,            \* the station configuration in memory
    sta_file, ap_file,  \* "absent", "empty" or "pointer"
    requests, noise, reboots,   \* counters
    last,               \* history: the last response
    acked,              \* history: last valid station POST answered 200, this boot
    clean               \* history: when the request in req, or else the last one,
                        \* came, nothing of an earlier one was still under way

bus == <<evt_queue, evt>>
heap == <<allocated, resp_queue>>
flash == <<sta_file, ap_file>>
vars == <<bus, req, heap, scans, saves, sta_cfg, flash, requests, noise, reboots,
          last, acked, clean>>

Init ==
    /\ evt_queue = << >> /\ evt = NoRequest
    /\ req = NoRequest
    /\ allocated = {} /\ resp_queue = [a \in Addr |-> << >>]
    /\ scans = {} /\ saves = {}
    /\ sta_cfg = Default /\ sta_file = "absent" /\ ap_file = "absent"
    /\ requests = 0 /\ noise = 0 /\ reboots = 0
    /\ last = [kind |-> "none", id |-> 0, status |-> "none", by |-> 0, shows |-> Default,
               valid |-> FALSE]
    /\ acked = 0 /\ clean = FALSE

-----------------------------------------------------------------------------
(* The web server's task.                                                    *)

\* A new event goes to the front (a faulty xQueueSendToFront).
EmitToFront(e) == evt_queue' = IF HasRoom(evt_queue) THEN <<e>> \o evt_queue ELSE evt_queue

Emit(e) == evt_queue' = Offer(evt_queue, e)

Capacity(kind) == IF kind \in Posts THEN 1 ELSE 2

\* An event that was emitted for a request, or the scan for one, may still be answered.
UnderWay ==
    \/ evt.kind \in AllKinds
    \/ \E j \in DOMAIN evt_queue : evt_queue[j].kind \in AllKinds
    \/ scans # {}

\* Using a response queue again without emptying it (faulty).
RequestInOldQueue(kind, valid) ==
    /\ req = NoRequest
    /\ requests < MaxRequests
    /\ requests' = requests + 1
    /\ \E a \in Addr \ allocated :
          /\ allocated' = allocated \union {a}
          /\ req' = [kind |-> kind, id |-> requests', valid |-> valid, ctx |-> a]
    /\ clean' = ~UnderWay
    /\ Emit(req')
    /\ UNCHANGED <<evt, resp_queue, scans, saves, sta_cfg, flash, noise, reboots, last, acked>>

\* emit_event_and_wait_response, handle_post_request and wifi_scan_handler up
\* to the wait.
RequestWith(kind, valid) ==
    /\ req = NoRequest
    /\ requests < MaxRequests
    /\ requests' = requests + 1
    /\ \E a \in Addr \ allocated :
          /\ allocated' = allocated \union {a}
          /\ resp_queue' = [resp_queue EXCEPT ![a] = << >>]
          /\ req' = [kind |-> kind, id |-> requests', valid |-> valid, ctx |-> a]
    /\ clean' = ~UnderWay
    /\ Emit(req')
    /\ UNCHANGED <<evt, scans, saves, sta_cfg, flash, noise, reboots, last, acked>>

emit_event_and_wait_response ==
    \E kind \in Kinds \ Posts : RequestWith(kind, TRUE)

handle_post_request ==
    \E kind \in Kinds \intersect Posts, valid \in BOOLEAN : RequestWith(kind, valid)

\* A POST without a body, or whose body cannot be read, does not get that far.
handle_post_request_unread ==
    /\ req = NoRequest
    /\ Kinds \intersect Posts # {}
    /\ requests < MaxRequests
    /\ requests' = requests + 1
    /\ \E kind \in Kinds \intersect Posts :
          last' = [kind |-> kind, id |-> requests', status |-> "error", by |-> 0,
                   shows |-> Default, valid |-> FALSE]
    /\ UNCHANGED <<bus, req, heap, scans, saves, sta_cfg, flash, noise, reboots, acked, clean>>

\* The response goes out and the queue is deleted.
Respond(status, answer) ==
    /\ last' = [kind |-> req.kind, id |-> req.id, status |-> status, by |-> answer.id,
                shows |-> answer.shows, valid |-> req.valid]
    /\ acked' = IF status = "ok" /\ req.kind = "sta_post" /\ req.valid THEN req.id ELSE acked
    /\ req' = NoRequest
    /\ allocated' = allocated \ {req.ctx}
    /\ UNCHANGED <<bus, resp_queue, scans, saves, sta_cfg, flash, requests, noise, reboots, clean>>

Silence == [id |-> 0, shows |-> Default]

\* Something is in the response queue: it must have the expected type.
ReceiveAnswer ==
    /\ req # NoRequest
    /\ resp_queue[req.ctx] # << >>
    /\ LET answer == Head(resp_queue[req.ctx]) IN
          IF answer.type = req.kind THEN Respond("ok", answer) ELSE Respond("error", answer)

\* The answer still to come is in time when the timing assumptions say so.
InTime ==
    \/ BusKeepsUp /\ (evt.id = req.id \/ \E j \in DOMAIN evt_queue : evt_queue[j].id = req.id)
    \/ ScanKeepsUp /\ \E s \in scans : s.id = req.id

\* An error path that forgets vQueueDelete (faulty).
TimeoutWithoutDelete ==
    /\ req # NoRequest
    /\ resp_queue[req.ctx] = << >>
    /\ ~InTime
    /\ last' = [kind |-> req.kind, id |-> req.id, status |-> "error", by |-> 0,
                shows |-> Default, valid |-> req.valid]
    /\ req' = NoRequest
    /\ UNCHANGED <<bus, heap, scans, saves, sta_cfg, flash, requests, noise, reboots, acked, clean>>

Timeout ==
    /\ req # NoRequest
    /\ resp_queue[req.ctx] = << >>
    /\ ~InTime
    /\ Respond("error", Silence)

-----------------------------------------------------------------------------
(* The bus task.                                                             *)

Dispatch ==
    /\ evt = NoRequest
    /\ evt_queue # << >>
    /\ evt' = Head(evt_queue)
    /\ evt_queue' = Tail(evt_queue)
    /\ UNCHANGED <<req, heap, scans, saves, sta_cfg, flash, requests, noise, reboots,
                   last, acked, clean>>

\* xQueueSend with portMAX_DELAY (faulty).
SendBlocking(ctx, answer, capacity) ==
    /\ ctx \in allocated /\ Len(resp_queue[ctx]) < capacity
    /\ resp_queue' = [resp_queue EXCEPT ![ctx] = Append(@, answer)]
    /\ UNCHANGED allocated

\* xQueueSend without waiting.  On a deleted queue the write goes astray, and what
\* it hits is not modelled; a queue created meanwhile at the same address takes it
\* for its own.
Send(ctx, answer, capacity) ==
    /\ resp_queue' = IF ctx \in allocated /\ Len(resp_queue[ctx]) < capacity
                     THEN [resp_queue EXCEPT ![ctx] = Append(@, answer)]
                     ELSE resp_queue
    /\ UNCHANGED allocated

\* The capacity of the queue at an address is that of the request it serves now.
CapacityAt(ctx) == IF req.ctx = ctx THEN Capacity(req.kind) ELSE 2

Answer(type) ==
    Send(evt.ctx, [type |-> type, id |-> evt.id, shows |-> sta_cfg'], CapacityAt(evt.ctx))

HandlerFrame == UNCHANGED <<evt_queue, req, flash, requests, noise, reboots, last, acked,
                          clean>>

Handled == evt' = NoRequest

\* STA_REQUEST_JSON and AP_REQUEST_JSON in WiFiConfig, MQTT_CONFIG_REQUEST_JSON
\* and MQTT_STATUS_REQUEST_JSON in MqttClient.
AnswerGet ==
    /\ evt.kind \in Gets
    /\ UNCHANGED <<scans, saves, sta_cfg>>
    /\ Answer(evt.kind)
    /\ Handled /\ HandlerFrame

\* Acknowledging and saving without applying (faulty).
PostStaUnapplied ==
    /\ evt.kind = "sta_post"
    /\ saves' = IF evt.valid THEN saves \union {[id |-> evt.id, file |-> "sta", step |-> "open"]}
                             ELSE saves
    /\ UNCHANGED <<sta_cfg, scans>>
    /\ Answer("sta_post")
    /\ Handled /\ HandlerFrame

\* Not looking at what the conversion of the body returned (faulty).
PostStaUnchecked ==
    /\ evt.kind = "sta_post"
    /\ sta_cfg' = evt.id
    /\ saves' = saves \union {[id |-> evt.id, file |-> "sta", step |-> "open"]}
    /\ UNCHANGED scans
    /\ Answer("sta_post")
    /\ Handled /\ HandlerFrame

\* STA_POST_REQUEST: a body that parses is applied and a save task created;
\* any body is acknowledged.
PostSta ==
    /\ evt.kind = "sta_post"
    /\ IF evt.valid
       THEN sta_cfg' = evt.id /\ saves' = saves \union {[id |-> evt.id, file |-> "sta", step |-> "open"]}
       ELSE UNCHANGED <<sta_cfg, saves>>
    /\ UNCHANGED scans
    /\ Answer("sta_post")
    /\ Handled /\ HandlerFrame

\* AP_POST_REQUEST: the body is not looked at; the current configuration is
\* saved, and the answer has the type of the answer to a GET.
PostAp ==
    /\ evt.kind = "ap_post"
    /\ saves' = saves \union {[id |-> evt.id, file |-> "ap", step |-> "open"]}
    /\ UNCHANGED <<scans, sta_cfg>>
    /\ Answer("ap_get")
    /\ Handled /\ HandlerFrame

\* MQTT_POST_REQUEST: the handler parses the response queue itself instead of
\* the body.  The bytes of a queue are no configuration: nothing is applied or
\* saved, and the request is acknowledged.
PostMqtt ==
    /\ evt.kind = "mqtt_post"
    /\ UNCHANGED <<scans, saves, sta_cfg>>
    /\ Answer("mqtt_post")
    /\ Handled /\ HandlerFrame

StartScan ==
    /\ evt.kind = "wifi_scan"
    /\ scans' = scans \union {evt}
    /\ UNCHANGED <<heap, saves, sta_cfg>>
    /\ Handled /\ HandlerFrame

Ignore ==
    /\ evt.kind \in Unserved \union {"other"}
    /\ UNCHANGED <<heap, scans, saves, sta_cfg>>
    /\ Handled /\ HandlerFrame

eventbus_task ==
    Dispatch \/ AnswerGet \/ PostSta \/ PostAp \/ PostMqtt \/ StartScan \/ Ignore

-----------------------------------------------------------------------------
(* The tasks the handlers start, and the rest of the device.                 *)

TaskFrame == UNCHANGED <<bus, req, sta_cfg, requests, noise, reboots, last, acked, clean>>

\* The scan fails, and nobody is told; or its result is sent, waiting for room.
wifi_scan_task ==
    \E s \in scans :
        /\ scans' = scans \ {s}
        /\ \/ UNCHANGED heap
           \/ /\ s.ctx \in allocated => Len(resp_queue[s.ctx]) < CapacityAt(s.ctx)
              /\ Send(s.ctx, [type |-> "wifi_scan", id |-> s.id, shows |-> Default],
                      CapacityAt(s.ctx))
        /\ UNCHANGED <<saves, flash>>
        /\ TaskFrame

\* save_sta and save_ap: fopen truncates the file; what is written is the
\* address of the configuration.
save_struct ==
    \E s \in saves :
        /\ \/ s.step = "open" /\ saves' = (saves \ {s}) \union {[s EXCEPT !.step = "write"]}
           \/ s.step = "write" /\ saves' = (saves \ {s}) \union {[s EXCEPT !.step = "return"]}
        /\ LET content == IF s.step = "open" THEN "empty" ELSE "pointer" IN
              /\ sta_file' = IF s.file = "sta" THEN content ELSE sta_file
              /\ ap_file' = IF s.file = "ap" THEN content ELSE ap_file
        /\ UNCHANGED <<heap, scans>>
        /\ TaskFrame

\* A task function must not return: the system aborts and starts over.  What
\* load_sta reads from a file that is too short stays in the configuration.
Reboot ==
    /\ evt_queue' = << >> /\ evt' = NoRequest
    /\ req' = NoRequest
    /\ allocated' = {} /\ resp_queue' = [a \in Addr |-> << >>]
    /\ scans' = {} /\ saves' = {}
    /\ sta_cfg' = IF sta_file = "pointer" THEN Mangled ELSE Default
    /\ reboots' = reboots + 1
    /\ acked' = 0 /\ clean' = FALSE
    /\ UNCHANGED <<flash, requests, noise, last>>

save_returns ==
    /\ reboots < MaxReboots
    /\ \E s \in saves : s.step = "return"
    /\ Reboot

\* Other modules use the bus too.
OtherEvent ==
    /\ noise < MaxNoise
    /\ noise' = noise + 1
    /\ Emit(Other)
    /\ UNCHANGED <<evt, req, heap, scans, saves, sta_cfg, flash, requests, reboots,
                   last, acked, clean>>

httpd == emit_event_and_wait_response \/ handle_post_request
         \/ handle_post_request_unread \/ ReceiveAnswer \/ Timeout

Next == httpd \/ eventbus_task \/ wifi_scan_task \/ save_struct \/ save_returns \/ OtherEvent

\* Ready tasks run, and time passes; clients owe nothing.
Fairness ==
    /\ WF_vars(ReceiveAnswer \/ Timeout)
    /\ WF_vars(eventbus_task)
    /\ WF_vars(wifi_scan_task) /\ WF_vars(save_struct) /\ WF_vars(save_returns)

Spec == Init /\ [][Next]_vars /\ Fairness

-----------------------------------------------------------------------------
TypeOK ==
    /\ evt_queue \in Seq(Requests \union {Other}) /\ Len(evt_queue) <= QUEUE_LEN
    /\ evt \in Requests \union {NoRequest, Other}
    /\ req \in Requests \union {NoRequest}
    /\ allocated \subseteq Addr
    /\ resp_queue \in [Addr -> Seq(Answers)]
    /\ \A a \in Addr : Len(resp_queue[a]) <= 2
    /\ scans \subseteq Requests
    /\ saves \subseteq [id : Nat, file : {"sta", "ap"}, step : {"open", "write", "return"}]
    /\ sta_cfg \in Nat \union {Mangled}
    /\ sta_file \in {"absent", "empty", "pointer"} /\ ap_file \in {"absent", "empty", "pointer"}
    /\ requests \in Nat /\ noise \in Nat /\ reboots \in Nat /\ acked \in Nat
    /\ clean \in BOOLEAN

\* The web server holds the queue of the request it waits on and no other: none
\* of the ways out of a handler leaks one, none deletes one twice.
QueuesOwned == allocated = IF req = NoRequest THEN {} ELSE {req.ctx}

\* However late answers are, a request that came when nothing of an earlier one was
\* under way is answered for itself, if it is answered 200: the bus handlers write to
\* an address that may have got a new queue (api.cpp:36), but a late answer can only
\* hurt requests that came before it was given, not those that come afterwards.
OkIsOwnAnswer ==
    req = NoRequest /\ clean /\ last.status = "ok" => last.by = last.id

\* While the bus and the scan keep up: a GET answered 200 shows exactly the last
\* well-formed POST answered 200; those answered 500 left no trace.
ReadYourWrites ==
    last.kind = "sta_get" /\ last.status = "ok" /\ reboots = 0 => last.shows = acked

\* Station configurations are applied in the order in which they were posted,
\* those of timed-out requests included: a later one is never overwritten by an
\* earlier one.
PostsInOrder == [][sta_cfg' < sta_cfg => reboots' > reboots]_vars

\* Each request is answered, unless the device reboots, whatever happens to its
\* event: lost to a full bus, ignored by everyone, answered late or to nobody.
\* And no answer makes the bus wait.
NobodyWaitsForEver ==
    /\ req # NoRequest ~> req = NoRequest
    /\ evt # NoRequest ~> evt = NoRequest

\* README "Persistent, Safe Configuration ... with safe fallback": what a POST
\* stored comes back after a reboot.
PostedConfigPersists ==
    [][(reboots' > reboots /\ sta_cfg > 0 /\ \A s \in saves : s.step = "return")
         => sta_cfg' = sta_cfg]_vars

-----------------------------------------------------------------------------
(* The service, as its clients see it.                                       *)

SortOf(kind, valid) ==
    IF kind = "sta_get" THEN "read" ELSE IF kind = "sta_post" /\ valid THEN "write" ELSE "other"

\* A request is served when its answer is in its response queue.
CurrentRequest ==
    IF req = NoRequest
    THEN [id |-> 0, sort |-> "other", stage |-> "idle", shows |-> Default]
    ELSE LET sort == SortOf(req.kind, req.valid)
             served == resp_queue[req.ctx] # << >>
         IN  [id |-> req.id, sort |-> sort,
              stage |-> IF served THEN "served" ELSE "waiting",
              shows |-> IF served /\ sort = "read" THEN Head(resp_queue[req.ctx]).shows
                                                  ELSE Default]

LastResponse ==
    LET sort == SortOf(last.kind, last.valid)
    IN  [id |-> last.id, sort |-> sort, status |-> last.status, by |-> last.by,
         shows |-> IF sort = "read" THEN last.shows ELSE Default]

Service == INSTANCE ApiService WITH
    AfterRestart <- {Default, Mangled},
    config <- sta_cfg,
    arrived <- requests,
    current <- CurrentRequest,
    response <- LastResponse

\* While the bus and the scan keep up, the way of a request through queues and
\* tasks cannot be seen from outside: its effect and its answer happen in one
\* instant, or neither does, before the next request comes.
ImplementsService == Service!Spec
=============================================================================
