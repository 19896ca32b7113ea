--------------------------- MODULE HttpApiProofs ---------------------------
(***************************************************************************)
(* Machine-checked proofs about HttpApi for every set of addresses, every   *)
(* set of endpoints, every capacity of the bus and all numbers of requests, *)
(* of events of other modules and of reboots: ownership, order and what late *)
(* answers cannot do whatever the timing, and, when bus and scan are in time, *)
(* that the API implements ApiService.                                       *)
(***************************************************************************)
EXTENDS HttpApi, SequenceTheorems, TLAPS

\* What can be in the queue of the bus.
BusEvents == Requests \union {Other}

\* An event that was emitted for a request.
IsRequest(e) == e.kind \in AllKinds

\* Requests are numbered in the order of their events, and the configuration
\* in memory is no younger than any of those still on their way.
IdsInOrder ==
    /\ sta_cfg <= requests
    /\ IsRequest(evt) => sta_cfg <= evt.id /\ evt.id <= requests
    /\ \A j \in 1 .. Len(evt_queue) : IsRequest(evt_queue[j]) =>
          /\ sta_cfg <= evt_queue[j].id /\ evt_queue[j].id <= requests
          /\ IsRequest(evt) => evt.id <= evt_queue[j].id
    /\ \A j, k \in 1 .. Len(evt_queue) :
          j < k /\ IsRequest(evt_queue[j]) /\ IsRequest(evt_queue[k])
              => evt_queue[j].id <= evt_queue[k].id

\* The inductive invariant that needs no assumption about time.
Inv == TypeOK /\ QueuesOwned /\ IdsInOrder

\* The event of a request is waiting in the bus queue.
Queued == \E j \in 1 .. Len(evt_queue) : IsRequest(evt_queue[j])

\* While bus and scan keep up: what is on its way belongs to the request that is
\* waited on, and is in one place only.
OneInFlight ==
    /\ \A j \in 1 .. Len(evt_queue) : IsRequest(evt_queue[j]) => evt_queue[j] = req
    /\ IsRequest(evt) => evt = req
    /\ \A s \in scans : s = req
    /\ \A j, k \in 1 .. Len(evt_queue) :
          IsRequest(evt_queue[j]) /\ IsRequest(evt_queue[k]) => j = k
    /\ IsRequest(evt) => ~Queued /\ scans = {}
    /\ scans # {} => ~Queued

\* ... and an answer that is there is the request's own, with nothing to follow.
AnswerIsOwn ==
    req # NoRequest /\ resp_queue[req.ctx] # << >> =>
        /\ ~Queued /\ ~IsRequest(evt) /\ scans = {}
        /\ Head(resp_queue[req.ctx]).id = req.id

\* What the timing assumptions add to the invariant.
PromptInv == OneInFlight /\ AnswerIsOwn

-----------------------------------------------------------------------------
(* Lemmas.                                                                   *)

\* Lemma: requests, and they alone, have an endpoint's kind.
LEMMA KindsApart ==
    /\ \A e \in Requests : IsRequest(e)
    /\ ~IsRequest(NoRequest) /\ ~IsRequest(Other)
    /\ NoRequest \notin Requests /\ Other \notin Requests /\ NoRequest # Other
    /\ NoRequest.id = 0 /\ NoRequest.ctx = 0
<1>1. NoRequest.kind = "none" /\ Other.kind = "other" /\ NoRequest.id = 0 /\ NoRequest.ctx = 0
  BY DEF NoRequest, Other
<1>2. "none" \notin AllKinds /\ "other" \notin AllKinds
  BY DEF AllKinds, Gets, Posts, Unserved
<1>3. \A e \in Requests : IsRequest(e)
  BY DEF Requests, IsRequest
<1> QED BY <1>1, <1>2, <1>3 DEF IsRequest

\* Lemma: emit leaves the queue as it is or adds the event at its back, and
\* never exceeds the capacity.
LEMMA OfferEffect ==
    ASSUME NEW queue \in Seq(BusEvents), Len(queue) <= QUEUE_LEN, NEW e \in BusEvents
    PROVE  /\ Offer(queue, e) \in Seq(BusEvents)
           /\ Len(Offer(queue, e)) <= QUEUE_LEN
           /\ \/ Offer(queue, e) = queue
              \/ /\ Len(Offer(queue, e)) = Len(queue) + 1
                 /\ \A j \in 1 .. Len(queue) : Offer(queue, e)[j] = queue[j]
                 /\ Offer(queue, e)[Len(queue) + 1] = e
<1>1. /\ Append(queue, e) \in Seq(BusEvents)
      /\ Len(Append(queue, e)) = Len(queue) + 1
      /\ \A j \in 1 .. Len(queue) : Append(queue, e)[j] = queue[j]
      /\ Append(queue, e)[Len(queue) + 1] = e
  BY AppendProperties
<1>2. Len(queue) \in Nat
  BY LenProperties
<1> QED BY <1>1, <1>2, QueueLenAssumption DEF Offer, HasRoom

\* Lemma: an answer sent without waiting keeps the response queues typed and
\* creates or deletes none of them.
LEMMA SendEffect ==
    ASSUME resp_queue \in [Addr -> Seq(Answers)],
           \A a \in Addr : Len(resp_queue[a]) <= 2,
           NEW ctx \in Addr, NEW answer \in Answers, NEW capacity \in {1, 2},
           Send(ctx, answer, capacity)
    PROVE  /\ resp_queue' \in [Addr -> Seq(Answers)]
           /\ \A a \in Addr : Len(resp_queue'[a]) <= 2
           /\ allocated' = allocated
<1>1. allocated' = allocated
  BY DEF Send
<1>2. CASE resp_queue' = resp_queue
  BY <1>1, <1>2
<1>3. CASE /\ Len(resp_queue[ctx]) < capacity
           /\ resp_queue' = [resp_queue EXCEPT ![ctx] = Append(@, answer)]
  <2>1. /\ Append(resp_queue[ctx], answer) \in Seq(Answers)
        /\ Len(Append(resp_queue[ctx], answer)) = Len(resp_queue[ctx]) + 1
    BY AppendProperties
  <2>2. Len(resp_queue[ctx]) \in Nat
    BY LenProperties
  <2> QED BY <1>1, <1>3, <2>1, <2>2
<1> QED BY <1>2, <1>3 DEF Send

\* Lemma: the capacity the code gives to a response queue is 1 or 2.
LEMMA CapacityInRange == \A ctx : CapacityAt(ctx) \in {1, 2}
BY DEF CapacityAt, Capacity

\* Lemma: what a handler of the bus that answers leaves behind.
LEMMA AnswerEffect ==
    ASSUME TypeOK, NEW type \in AllKinds, IsRequest(evt), Answer(type),
           sta_cfg' \in Nat \union {Mangled}
    PROVE  /\ resp_queue' \in [Addr -> Seq(Answers)]
           /\ \A a \in Addr : Len(resp_queue'[a]) <= 2
           /\ allocated' = allocated
<1>1. evt \in Requests
  BY KindsApart DEF TypeOK
<1>2. evt.ctx \in Addr /\ evt.id \in Nat
  BY <1>1 DEF Requests
<1>3. [type |-> type, id |-> evt.id, shows |-> sta_cfg'] \in Answers
  BY <1>2 DEF Answers, Mangled
<1> QED BY <1>2, <1>3, CapacityInRange, SendEffect DEF Answer, TypeOK

\* Lemma: nothing in the queues is well typed.
LEMMA EmptyQueues ==
    /\ << >> \in Seq(Requests \union {Other}) /\ Len(<< >>) <= QUEUE_LEN
    /\ [a \in Addr |-> << >>] \in [Addr -> Seq(Answers)]
    /\ \A b \in Addr : Len([a \in Addr |-> << >>][b]) <= 2
<1>1. << >> \in Seq(Requests \union {Other}) /\ << >> \in Seq(Answers)
  BY EmptySeq
<1>2. Len(<< >>) = 0
  BY EmptySeq
<1> DEFINE empty == << >>
<1>3. empty \in Seq(Answers) /\ Len(empty) = 0
  BY <1>1, <1>2
<1> HIDE DEF empty
<1>4. [a \in Addr |-> empty] \in [Addr -> Seq(Answers)] /\ \A b \in Addr : [a \in Addr |-> empty][b] = empty
  BY <1>3
<1> QED BY <1>1, <1>2, <1>3, <1>4, QueueLenAssumption DEF empty

-----------------------------------------------------------------------------
(* Types.                                                                    *)

\* Lemma: the types hold at the start.
LEMMA InitType == Init => TypeOK
<1> SUFFICES ASSUME Init PROVE TypeOK
  OBVIOUS
<1>1. evt_queue = << >> /\ resp_queue = [a \in Addr |-> << >>]
  BY DEF Init
<1>2. /\ evt_queue \in Seq(Requests \union {Other}) /\ Len(evt_queue) <= QUEUE_LEN
      /\ resp_queue \in [Addr -> Seq(Answers)] /\ \A b \in Addr : Len(resp_queue[b]) <= 2
  BY <1>1, EmptyQueues, Zenon
<1> QED BY <1>2 DEF Init, TypeOK, Default

\* Lemma: every step keeps them.
LEMMA TypeStep == TypeOK /\ [Next]_vars => TypeOK'
<1> SUFFICES ASSUME TypeOK, [Next]_vars PROVE TypeOK'
  OBVIOUS
<1> USE QueueLenAssumption
<1>1. ASSUME NEW kind \in AllKinds, NEW valid \in BOOLEAN, RequestWith(kind, valid)
      PROVE  TypeOK'
  <2>1. requests' \in Nat
    BY <1>1 DEF RequestWith, TypeOK
  <2>2. /\ req' \in Requests /\ allocated' \subseteq Addr
        /\ resp_queue' \in [Addr -> Seq(Answers)]
        /\ \A a \in Addr : Len(resp_queue'[a]) <= 2
    <3>1. PICK a \in Addr \ allocated :
            /\ allocated' = allocated \union {a}
            /\ resp_queue' = [resp_queue EXCEPT ![a] = << >>]
            /\ req' = [kind |-> kind, id |-> requests', valid |-> valid, ctx |-> a]
      BY <1>1 DEF RequestWith
    <3>2. << >> \in Seq(Answers) /\ Len(<< >>) = 0
      BY EmptySeq
    <3> QED BY <1>1, <2>1, <3>1, <3>2 DEF TypeOK, Requests
  <2>3. evt_queue' \in Seq(BusEvents) /\ Len(evt_queue') <= QUEUE_LEN
    <3>1. evt_queue' = Offer(evt_queue, req') /\ req' \in BusEvents
      BY <1>1, <2>2 DEF RequestWith, Emit, BusEvents
    <3> QED BY <3>1, OfferEffect DEF TypeOK, BusEvents
  <2> QED BY <1>1, <2>1, <2>2, <2>3 DEF RequestWith, TypeOK, flash, BusEvents
<1>2. CASE handle_post_request_unread
  BY <1>2 DEF handle_post_request_unread, TypeOK, bus, heap, flash
<1>3. ASSUME NEW status, NEW answer, Respond(status, answer), req # NoRequest PROVE TypeOK'
  <2>1. req.id \in Nat
    BY <1>3 DEF TypeOK, Requests
  <2> QED BY <1>3, <2>1 DEF Respond, TypeOK, bus, flash
<1>4. CASE Dispatch
  <2>1. /\ Head(evt_queue) \in BusEvents /\ Tail(evt_queue) \in Seq(BusEvents)
        /\ Len(Tail(evt_queue)) = Len(evt_queue) - 1 /\ Len(evt_queue) \in Nat
    BY <1>4, HeadTailProperties, LenProperties DEF Dispatch, TypeOK, BusEvents
  <2> QED BY <1>4, <2>1 DEF Dispatch, TypeOK, heap, flash, BusEvents
<1>5. ASSUME HandlerFrame, Handled, scans' \subseteq Requests,
             saves' \subseteq [id : Nat, file : {"sta", "ap"}, step : {"open", "write", "return"}],
             sta_cfg' \in Nat \union {Mangled},
             resp_queue' \in [Addr -> Seq(Answers)], \A a \in Addr : Len(resp_queue'[a]) <= 2,
             allocated' = allocated
      PROVE  TypeOK'
  BY <1>5 DEF HandlerFrame, Handled, TypeOK, flash
<1>6. CASE AnswerGet
  <2>1. IsRequest(evt) /\ evt.kind \in AllKinds
    BY <1>6 DEF AnswerGet, IsRequest, AllKinds
  <2>2. sta_cfg' = sta_cfg /\ scans' = scans /\ saves' = saves /\ HandlerFrame /\ Handled
        /\ Answer(evt.kind)
    BY <1>6 DEF AnswerGet
  <2>3. sta_cfg' \in Nat \union {Mangled}
    BY <2>2 DEF TypeOK
  <2>4. /\ resp_queue' \in [Addr -> Seq(Answers)] /\ \A a \in Addr : Len(resp_queue'[a]) <= 2
        /\ allocated' = allocated
    BY <2>1, <2>2, <2>3, AnswerEffect
  <2> QED BY <1>5, <2>2, <2>3, <2>4 DEF TypeOK
<1>7. CASE PostSta
  <2>1. IsRequest(evt) /\ evt.id \in Nat
    <3>1. IsRequest(evt)
      BY <1>7 DEF PostSta, IsRequest, AllKinds, Posts
    <3> QED BY <3>1, KindsApart DEF TypeOK, Requests
  <2>2. /\ sta_cfg' \in Nat \union {Mangled} /\ scans' = scans /\ HandlerFrame /\ Handled
        /\ Answer("sta_post")
        /\ saves' \subseteq [id : Nat, file : {"sta", "ap"}, step : {"open", "write", "return"}]
    BY <1>7, <2>1 DEF PostSta, TypeOK
  <2>3. "sta_post" \in AllKinds
    BY DEF AllKinds, Posts
  <2>4. /\ resp_queue' \in [Addr -> Seq(Answers)] /\ \A a \in Addr : Len(resp_queue'[a]) <= 2
        /\ allocated' = allocated
    BY <2>1, <2>2, <2>3, AnswerEffect
  <2> QED BY <1>5, <2>2, <2>4 DEF TypeOK
<1>8. CASE PostAp
  <2>1. IsRequest(evt) /\ evt.id \in Nat
    <3>1. IsRequest(evt)
      BY <1>8 DEF PostAp, IsRequest, AllKinds, Posts
    <3> QED BY <3>1, KindsApart DEF TypeOK, Requests
  <2>2. /\ sta_cfg' \in Nat \union {Mangled} /\ scans' = scans /\ HandlerFrame /\ Handled
        /\ Answer("ap_get")
        /\ saves' \subseteq [id : Nat, file : {"sta", "ap"}, step : {"open", "write", "return"}]
    BY <1>8, <2>1 DEF PostAp, TypeOK
  <2>3. "ap_get" \in AllKinds
    BY DEF AllKinds, Gets
  <2>4. /\ resp_queue' \in [Addr -> Seq(Answers)] /\ \A a \in Addr : Len(resp_queue'[a]) <= 2
        /\ allocated' = allocated
    BY <2>1, <2>2, <2>3, AnswerEffect
  <2> QED BY <1>5, <2>2, <2>4 DEF TypeOK
<1>9. CASE PostMqtt
  <2>1. IsRequest(evt)
    BY <1>9 DEF PostMqtt, IsRequest, AllKinds, Posts
  <2>2. sta_cfg' = sta_cfg /\ scans' = scans /\ saves' = saves /\ HandlerFrame /\ Handled
        /\ Answer("mqtt_post")
    BY <1>9 DEF PostMqtt
  <2>3. sta_cfg' \in Nat \union {Mangled} /\ "mqtt_post" \in AllKinds
    BY <2>2 DEF TypeOK, AllKinds, Posts
  <2>4. /\ resp_queue' \in [Addr -> Seq(Answers)] /\ \A a \in Addr : Len(resp_queue'[a]) <= 2
        /\ allocated' = allocated
    BY <2>1, <2>2, <2>3, AnswerEffect
  <2> QED BY <1>5, <2>2, <2>3, <2>4 DEF TypeOK
<1>10. CASE StartScan
  <2>1. evt \in Requests
    BY <1>10, KindsApart DEF StartScan, TypeOK, IsRequest, AllKinds
  <2> QED BY <1>10, <1>5, <2>1 DEF StartScan, TypeOK, heap
<1>11. CASE Ignore
  BY <1>11, <1>5 DEF Ignore, TypeOK, heap
<1>12. CASE wifi_scan_task
  <2>1. PICK s \in scans : /\ scans' = scans \ {s}
                           /\ \/ UNCHANGED heap
                              \/ Send(s.ctx, [type |-> "wifi_scan", id |-> s.id, shows |-> Default],
                                      CapacityAt(s.ctx))
                           /\ UNCHANGED <<saves, flash>> /\ TaskFrame
    BY <1>12 DEF wifi_scan_task
  <2>2. s.ctx \in Addr /\ [type |-> "wifi_scan", id |-> s.id, shows |-> Default] \in Answers
    BY <2>1 DEF TypeOK, Requests, Answers, AllKinds, Default
  <2>3. /\ resp_queue' \in [Addr -> Seq(Answers)] /\ \A a \in Addr : Len(resp_queue'[a]) <= 2
        /\ allocated' = allocated
    <3>1. CASE UNCHANGED heap
      BY <3>1 DEF TypeOK, heap
    <3>2. CASE Send(s.ctx, [type |-> "wifi_scan", id |-> s.id, shows |-> Default],
                    CapacityAt(s.ctx))
      BY <2>2, <3>2, CapacityInRange, SendEffect DEF TypeOK
    <3> QED BY <2>1, <3>1, <3>2
  <2> QED BY <2>1, <2>3 DEF TypeOK, TaskFrame, bus, flash
<1>13. CASE save_struct
  BY <1>13 DEF save_struct, TaskFrame, TypeOK, bus, heap
<1>14. CASE save_returns
  <2>1. evt_queue' = << >> /\ resp_queue' = [a \in Addr |-> << >>]
    BY <1>14 DEF save_returns, Reboot
  <2>2. /\ evt_queue' \in Seq(Requests \union {Other}) /\ Len(evt_queue') <= QUEUE_LEN
        /\ resp_queue' \in [Addr -> Seq(Answers)] /\ \A b \in Addr : Len(resp_queue'[b]) <= 2
    BY <2>1, EmptyQueues, Zenon
  <2>3. /\ evt' = NoRequest /\ req' = NoRequest /\ allocated' = {} /\ scans' = {}
        /\ saves' = {} /\ sta_cfg' \in {Mangled, 0} /\ acked' = 0 /\ clean' = FALSE
        /\ sta_file' = sta_file /\ ap_file' = ap_file
        /\ requests' = requests /\ noise' = noise /\ reboots' = reboots + 1
    BY <1>14 DEF save_returns, Reboot, flash, Default
  <2>4. /\ requests' \in Nat /\ noise' \in Nat /\ reboots' \in Nat /\ acked' \in Nat
    BY <2>3 DEF TypeOK
  <2>5. sta_cfg' \in Nat \union {Mangled}
    BY <2>3
  <2>6. clean' \in BOOLEAN
    BY <2>3, Zenon
  <2>7. sta_file' \in {"absent", "empty", "pointer"} /\ ap_file' \in {"absent", "empty", "pointer"}
    BY <2>3 DEF TypeOK
  <2>8. /\ evt' \in Requests \union {NoRequest, Other} /\ req' \in Requests \union {NoRequest}
        /\ allocated' \subseteq Addr /\ scans' \subseteq Requests
        /\ saves' \subseteq [id : Nat, file : {"sta", "ap"}, step : {"open", "write", "return"}]
    BY <2>3
  <2> QED BY <2>2, <2>4, <2>8, <2>5, <2>6, <2>7, Zenon DEF TypeOK
<1>15. CASE OtherEvent
  <2>1. evt_queue' \in Seq(BusEvents) /\ Len(evt_queue') <= QUEUE_LEN
    BY <1>15, OfferEffect DEF OtherEvent, Emit, TypeOK, BusEvents
  <2> QED BY <1>15, <2>1 DEF OtherEvent, TypeOK, heap, flash, BusEvents
<1>16. CASE UNCHANGED vars
  BY <1>16 DEF vars, bus, heap, flash, TypeOK
<1>17. CASE httpd
  <2>1. CASE emit_event_and_wait_response \/ handle_post_request
    BY <1>1, <2>1, ApiAssumption DEF emit_event_and_wait_response, handle_post_request
  <2>2. CASE ReceiveAnswer \/ Timeout
    BY <1>3, <2>2 DEF ReceiveAnswer, Timeout
  <2> QED BY <1>2, <1>17, <2>1, <2>2 DEF httpd
<1> QED
  BY <1>4, <1>6, <1>7, <1>8, <1>9, <1>10, <1>11, <1>12, <1>13, <1>14, <1>15, <1>16, <1>17
  DEF Next, eventbus_task

-----------------------------------------------------------------------------
(* The response queues.                                                      *)

\* Lemma: only the web server's task creates and deletes response queues, and
\* only a reboot takes them all away.
LEMMA OthersKeepHeap ==
    ASSUME eventbus_task \/ wifi_scan_task \/ save_struct \/ OtherEvent \/ UNCHANGED vars
    PROVE  allocated' = allocated /\ req' = req
<1>1. CASE eventbus_task
  BY <1>1 DEF eventbus_task, Dispatch, AnswerGet, PostSta, PostAp, PostMqtt, StartScan, Ignore,
              Answer, Send, HandlerFrame, heap
<1>2. CASE wifi_scan_task
  BY <1>2 DEF wifi_scan_task, Send, TaskFrame, heap
<1>3. CASE save_struct \/ OtherEvent \/ UNCHANGED vars
  BY <1>3 DEF save_struct, OtherEvent, TaskFrame, heap, vars
<1> QED BY <1>1, <1>2, <1>3

\* Lemma: the queue of the current request, and no other, exists after every
\* step.
LEMMA OwnedStep == TypeOK /\ QueuesOwned /\ [Next]_vars => QueuesOwned'
<1> SUFFICES ASSUME TypeOK, QueuesOwned, [Next]_vars PROVE QueuesOwned'
  OBVIOUS
<1>1. ASSUME NEW kind \in AllKinds, NEW valid \in BOOLEAN, RequestWith(kind, valid)
      PROVE  QueuesOwned'
  <2>1. PICK a \in Addr :
          /\ allocated' = allocated \union {a}
          /\ req' = [kind |-> kind, id |-> requests', valid |-> valid, ctx |-> a]
    BY <1>1 DEF RequestWith
  <2>2. allocated = {}
    BY <1>1 DEF RequestWith, QueuesOwned
  <2>3. req' # NoRequest
    <3>1. req'.kind \in AllKinds
      BY <2>1
    <3> QED BY <3>1, KindsApart DEF IsRequest
  <2> QED BY <2>1, <2>2, <2>3 DEF QueuesOwned
<1>2. CASE handle_post_request_unread
  BY <1>2 DEF handle_post_request_unread, QueuesOwned, heap
<1>3. ASSUME NEW status, NEW answer, Respond(status, answer), req # NoRequest
      PROVE  QueuesOwned'
  BY <1>3 DEF Respond, QueuesOwned
<1>4. CASE save_returns
  BY <1>4 DEF save_returns, Reboot, QueuesOwned
<1>5. CASE httpd
  <2>1. CASE emit_event_and_wait_response \/ handle_post_request
    BY <1>1, <2>1, ApiAssumption DEF emit_event_and_wait_response, handle_post_request
  <2>2. CASE ReceiveAnswer \/ Timeout
    BY <1>3, <2>2 DEF ReceiveAnswer, Timeout
  <2> QED BY <1>2, <1>5, <2>1, <2>2 DEF httpd
<1> QED BY <1>4, <1>5, OthersKeepHeap DEF Next, QueuesOwned

-----------------------------------------------------------------------------
(* The order of the posted configurations.                                   *)

\* Lemma: an event at the back of the bus queue keeps the order if it is not
\* older than any other request, or is no request.
LEMMA OrderAtBack ==
    ASSUME TypeOK, IdsInOrder, NEW e \in BusEvents, evt_queue' = Offer(evt_queue, e),
           requests' \in Nat, requests <= requests',
           IsRequest(e) => e.id = requests',
           evt' = evt, sta_cfg' = sta_cfg
    PROVE  IdsInOrder'
<1> DEFINE n == Len(evt_queue)
<1>1. /\ n \in Nat /\ requests \in Nat /\ sta_cfg \in Int
      /\ IsRequest(evt) => evt.id \in Nat
      /\ \A j \in 1 .. n : IsRequest(evt_queue[j]) => evt_queue[j].id \in Nat
  <2>1. n \in Nat /\ \A j \in 1 .. n : evt_queue[j] \in BusEvents
    BY LenProperties, ElementOfSeq DEF TypeOK, BusEvents
  <2> QED BY <2>1, KindsApart DEF TypeOK, BusEvents, Requests, Mangled
<1>2. CASE evt_queue' = evt_queue
  BY <1>1, <1>2 DEF IdsInOrder, IsRequest
<1>3. CASE /\ Len(evt_queue') = n + 1
           /\ \A j \in 1 .. n : evt_queue'[j] = evt_queue[j]
           /\ evt_queue'[n + 1] = e
  <2>1. sta_cfg' <= requests' /\ (IsRequest(evt') => sta_cfg' <= evt'.id /\ evt'.id <= requests')
    BY <1>1 DEF IdsInOrder, IsRequest
  <2>2. ASSUME NEW j \in 1 .. Len(evt_queue'), IsRequest(evt_queue'[j])
        PROVE  /\ sta_cfg' <= evt_queue'[j].id /\ evt_queue'[j].id <= requests'
               /\ IsRequest(evt') => evt'.id <= evt_queue'[j].id
    <3>1. CASE j \in 1 .. n
      BY <1>1, <1>3, <2>2, <3>1 DEF IdsInOrder, IsRequest
    <3>2. CASE j = n + 1
      BY <1>1, <1>3, <2>2, <3>2 DEF IdsInOrder, IsRequest
    <3> QED BY <1>1, <1>3, <3>1, <3>2
  <2>3. ASSUME NEW j \in 1 .. Len(evt_queue'), NEW k \in 1 .. Len(evt_queue'), j < k,
               IsRequest(evt_queue'[j]), IsRequest(evt_queue'[k])
        PROVE  evt_queue'[j].id <= evt_queue'[k].id
    <3>1. CASE k \in 1 .. n
      BY <1>1, <1>3, <2>3, <3>1 DEF IdsInOrder
    <3>2. CASE k = n + 1 /\ j \in 1 .. n
      BY <1>1, <1>3, <2>3, <3>2 DEF IdsInOrder
    <3> QED BY <1>1, <1>3, <2>3, <3>1, <3>2
  <2> QED BY <2>1, <2>2, <2>3 DEF IdsInOrder, IsRequest
<1> QED BY <1>2, <1>3, OfferEffect DEF TypeOK, BusEvents

\* Lemma: the order holds at the start.
LEMMA InitOrder == Init => IdsInOrder
<1>1. Len(<< >>) = 0
  BY EmptySeq
<1> QED BY <1>1, KindsApart DEF Init, IdsInOrder, Default

\* Lemma: taking an event out of the queue and handling it keep the order; the
\* one event that changes the configuration makes it as young as itself.
LEMMA OrderStep == TypeOK /\ IdsInOrder /\ [Next]_vars => IdsInOrder'
<1> SUFFICES ASSUME TypeOK, IdsInOrder, [Next]_vars PROVE IdsInOrder'
  OBVIOUS
<1> DEFINE n == Len(evt_queue)
<1>1. /\ n \in Nat /\ requests \in Nat /\ sta_cfg \in Int
      /\ IsRequest(evt) => evt.id \in Nat
      /\ \A j \in 1 .. n : IsRequest(evt_queue[j]) => evt_queue[j].id \in Nat
  <2>1. n \in Nat /\ \A j \in 1 .. n : evt_queue[j] \in BusEvents
    BY LenProperties, ElementOfSeq DEF TypeOK, BusEvents
  <2> QED BY <2>1, KindsApart DEF TypeOK, BusEvents, Requests, Mangled
<1>2. ASSUME UNCHANGED <<evt_queue, evt, sta_cfg>>, requests' \in {requests, requests + 1}
      PROVE  IdsInOrder'
  BY <1>1, <1>2 DEF IdsInOrder, IsRequest
<1>3. ASSUME NEW kind \in AllKinds, NEW valid \in BOOLEAN, RequestWith(kind, valid)
      PROVE  IdsInOrder'
  <2>1. req' \in BusEvents /\ req'.id = requests'
    BY <1>3, <1>1 DEF RequestWith, BusEvents, Requests
  <2> QED BY <1>1, <1>3, <2>1, OrderAtBack DEF RequestWith, Emit
<1>4. CASE httpd
  <2>1. CASE emit_event_and_wait_response \/ handle_post_request
    BY <1>3, <2>1, ApiAssumption DEF emit_event_and_wait_response, handle_post_request
  <2>2. CASE handle_post_request_unread
    BY <1>2, <2>2 DEF handle_post_request_unread, bus
  <2>3. CASE ReceiveAnswer \/ Timeout
    BY <1>2, <2>3 DEF ReceiveAnswer, Timeout, Respond, bus
  <2> QED BY <1>4, <2>1, <2>2, <2>3 DEF httpd
<1>5. CASE Dispatch
  <2>1. /\ n > 0 /\ evt' = evt_queue[1] /\ Len(evt_queue') = n - 1
        /\ \A j \in 1 .. n - 1 : evt_queue'[j] = evt_queue[j + 1]
    BY <1>1, <1>5, HeadTailProperties, EmptySeq, LenProperties DEF Dispatch, TypeOK
  <2>2. sta_cfg' = sta_cfg /\ requests' = requests
    BY <1>5 DEF Dispatch
  <2>3. IsRequest(evt') => sta_cfg' <= evt'.id /\ evt'.id <= requests'
    BY <1>1, <2>1, <2>2 DEF IdsInOrder, IsRequest
  <2>4. ASSUME NEW j \in 1 .. Len(evt_queue'), IsRequest(evt_queue'[j])
        PROVE  /\ sta_cfg' <= evt_queue'[j].id /\ evt_queue'[j].id <= requests'
               /\ IsRequest(evt') => evt'.id <= evt_queue'[j].id
    <3>1. j + 1 \in 1 .. n /\ 1 \in 1 .. n /\ 1 < j + 1 /\ evt_queue'[j] = evt_queue[j + 1]
      BY <1>1, <2>1
    <3> QED BY <2>1, <2>2, <2>4, <3>1 DEF IdsInOrder, IsRequest
  <2>5. ASSUME NEW j \in 1 .. Len(evt_queue'), NEW k \in 1 .. Len(evt_queue'), j < k,
               IsRequest(evt_queue'[j]), IsRequest(evt_queue'[k])
        PROVE  evt_queue'[j].id <= evt_queue'[k].id
    <3>1. /\ j + 1 \in 1 .. n /\ k + 1 \in 1 .. n /\ j + 1 < k + 1
          /\ evt_queue'[j] = evt_queue[j + 1] /\ evt_queue'[k] = evt_queue[k + 1]
      BY <1>1, <2>1, <2>5
    <3> QED BY <2>5, <3>1 DEF IdsInOrder
  <2>6. sta_cfg' <= requests'
    BY <2>2 DEF IdsInOrder
  <2> QED BY <2>3, <2>4, <2>5, <2>6 DEF IdsInOrder, IsRequest
<1>6. ASSUME evt' = NoRequest, evt_queue' = evt_queue, requests' = requests,
             sta_cfg' = sta_cfg \/ (IsRequest(evt) /\ sta_cfg' = evt.id)
      PROVE  IdsInOrder'
  BY <1>1, <1>6, KindsApart DEF IdsInOrder, IsRequest
<1>7. CASE PostSta
  <2>1. IsRequest(evt)
    BY <1>7 DEF PostSta, IsRequest, AllKinds, Posts
  <2> QED BY <1>6, <1>7, <2>1 DEF PostSta, Handled, HandlerFrame
<1>8. CASE AnswerGet \/ PostAp \/ PostMqtt \/ StartScan \/ Ignore
  BY <1>6, <1>8 DEF AnswerGet, PostAp, PostMqtt, StartScan, Ignore, Handled, HandlerFrame
<1>9. CASE wifi_scan_task \/ save_struct \/ UNCHANGED vars
  BY <1>2, <1>9 DEF wifi_scan_task, save_struct, TaskFrame, vars, bus
<1>10. CASE save_returns
  <2>1. evt_queue' = << >> /\ evt' = NoRequest /\ requests' = requests /\ sta_cfg' \in {Mangled, 0}
    BY <1>10 DEF save_returns, Reboot, Default
  <2>2. Len(evt_queue') = 0
    BY <2>1, EmptySeq
  <2> QED BY <1>1, <2>1, <2>2, KindsApart DEF IdsInOrder, Mangled
<1>11. CASE OtherEvent
  <2>1. Other \in BusEvents /\ ~IsRequest(Other)
    BY KindsApart DEF BusEvents
  <2> QED BY <1>1, <1>11, <2>1, OrderAtBack DEF OtherEvent, Emit
<1> QED BY <1>4, <1>5, <1>7, <1>8, <1>9, <1>10, <1>11 DEF Next, eventbus_task

-----------------------------------------------------------------------------
(* The theorems that hold whatever the timing.                               *)

\* Theorem: the invariant holds in every reachable state.
THEOREM ApiInvariant == Spec => []Inv
<1>1. Init => Inv
  BY InitType, InitOrder DEF Inv, Init, QueuesOwned
<1>2. Inv /\ [Next]_vars => Inv'
  BY TypeStep, OwnedStep, OrderStep DEF Inv
<1> QED BY <1>1, <1>2, PTL DEF Spec

\* Theorem: the variables of the API stay in their types; in particular no
\* queue exceeds its capacity.
THEOREM ApiTypeCorrect == Spec => []TypeOK
<1>1. Inv => TypeOK
  BY DEF Inv
<1> QED BY <1>1, ApiInvariant, PTL

\* Theorem: no way out of a request handler leaks a response queue or deletes
\* one that is not its own, however late the answer is.
THEOREM QueuesOwnedCorrect == Spec => []QueuesOwned
<1>1. Inv => QueuesOwned
  BY DEF Inv
<1> QED BY <1>1, ApiInvariant, PTL

\* Theorem: posted station configurations are applied in the order in which
\* they were posted, those of requests that timed out included.
THEOREM PostsInOrderCorrect == Spec => PostsInOrder
<1>1. Inv /\ [Next]_vars => [sta_cfg' < sta_cfg => reboots' > reboots]_vars
  <2> SUFFICES ASSUME Inv, [Next]_vars PROVE sta_cfg' < sta_cfg => reboots' > reboots
    OBVIOUS
  <2>1. sta_cfg \in Int /\ reboots \in Nat /\ ~(sta_cfg < sta_cfg)
    BY DEF Inv, TypeOK, Mangled
  <2>2. CASE PostSta
    <3>1. IsRequest(evt)
      BY <2>2 DEF PostSta, IsRequest, AllKinds, Posts
    <3>2. sta_cfg <= evt.id /\ evt.id \in Nat
      BY <3>1, KindsApart DEF Inv, TypeOK, IdsInOrder, Requests
    <3> QED BY <2>1, <2>2, <3>2 DEF PostSta
  <2>3. CASE save_returns
    BY <2>1, <2>3 DEF save_returns, Reboot
  <2>4. CASE httpd
    BY <2>1, <2>4 DEF httpd, emit_event_and_wait_response, handle_post_request, RequestWith,
                      handle_post_request_unread, ReceiveAnswer, Timeout, Respond
  <2>5. CASE wifi_scan_task \/ save_struct \/ OtherEvent \/ UNCHANGED vars
    BY <2>1, <2>5 DEF wifi_scan_task, save_struct, OtherEvent, TaskFrame, vars
  <2>6. CASE Dispatch \/ AnswerGet \/ PostAp \/ PostMqtt \/ StartScan \/ Ignore
    BY <2>1, <2>6 DEF Dispatch, AnswerGet, PostAp, PostMqtt, StartScan, Ignore
  <2> QED BY <2>2, <2>3, <2>4, <2>5, <2>6 DEF Next, eventbus_task
<1> QED BY <1>1, ApiInvariant, PTL DEF Spec, PostsInOrder

-----------------------------------------------------------------------------
(* What late answers cannot do.                                              *)

\* Everything that is under way while the server waits on a clean request is that
\* request's own, and so is the answer that is there.
CleanInv ==
    /\ clean /\ req # NoRequest =>
          /\ IsRequest(evt) => evt.id = req.id
          /\ \A j \in 1 .. Len(evt_queue) : IsRequest(evt_queue[j]) => evt_queue[j].id = req.id
          /\ \A s \in scans : s.id = req.id
          /\ resp_queue[req.ctx] # << >> => Head(resp_queue[req.ctx]).id = req.id
    /\ OkIsOwnAnswer

\* Lemma: adding an event to a queue without requests leaves at most one there.
LEMMA BackOfEmpty ==
    ASSUME TypeOK, ~Queued, NEW e \in BusEvents, evt_queue' = Offer(evt_queue, e)
    PROVE  \A j \in 1 .. Len(evt_queue') :
              IsRequest(evt_queue'[j]) => evt_queue'[j] = e /\ j = Len(evt_queue) + 1
<1>1. Len(evt_queue) \in Nat
  BY LenProperties DEF TypeOK
<1> QED BY <1>1, OfferEffect DEF Queued, TypeOK, BusEvents

\* Lemma: an answer with a number keeps the first one of every queue or is the first.
LEMMA SendFirst ==
    ASSUME TypeOK, NEW ctx, NEW answer \in Answers, NEW capacity, NEW a \in Addr,
           Send(ctx, answer, capacity), resp_queue'[a] # << >>
    PROVE  \/ Head(resp_queue'[a]) = answer
           \/ resp_queue[a] # << >> /\ Head(resp_queue'[a]) = Head(resp_queue[a])
<1>1. CASE resp_queue' = resp_queue
  BY <1>1
<1>2. CASE resp_queue' = [resp_queue EXCEPT ![ctx] = Append(@, answer)] /\ ctx # a
  <2>1. resp_queue'[a] = resp_queue[a]
    BY <1>2 DEF TypeOK
  <2> QED BY <2>1
<1>3. CASE resp_queue' = [resp_queue EXCEPT ![ctx] = Append(@, answer)] /\ ctx = a
  <2> DEFINE q == resp_queue[a]
  <2>1. resp_queue'[a] = Append(q, answer) /\ q \in Seq(Answers)
    BY <1>3 DEF TypeOK
  <2> HIDE DEF q
  <2>2. /\ Append(q, answer) \in Seq(Answers) /\ Append(q, answer)[Len(q) + 1] = answer
        /\ Len(q) \in Nat /\ \A j \in 1 .. Len(q) : Append(q, answer)[j] = q[j]
        /\ Head(Append(q, answer)) = Append(q, answer)[1]
    BY <2>1, AppendProperties, LenProperties, HeadTailProperties
  <2>3. CASE q = << >>
    BY <2>1, <2>2, <2>3, EmptySeq
  <2>4. CASE q # << >>
    <3>1. Len(q) # 0 /\ Head(q) = q[1]
      BY <2>1, <2>4, EmptySeq, HeadTailProperties
    <3> QED BY <2>1, <2>2, <2>4, <3>1 DEF q
  <2> QED BY <2>3, <2>4
<1> QED BY <1>1, <1>2, <1>3 DEF Send

\* Lemma: a step of other tasks than the server's that leaves under way what was, and
\* answers at most what was.
LEMMA CleanOthers ==
    ASSUME TypeOK, CleanInv, UNCHANGED <<req, clean, last>>,
           \A s \in scans' : s \in scans \/ (IsRequest(evt) /\ s = evt),
           IsRequest(evt') => evt' = evt \/ \E k \in 1 .. Len(evt_queue) : evt' = evt_queue[k],
           \A j \in 1 .. Len(evt_queue') : IsRequest(evt_queue'[j]) =>
               \E k \in 1 .. Len(evt_queue) : evt_queue'[j] = evt_queue[k],
           \/ resp_queue' = resp_queue
           \/ \E ctx, capacity : \E answer \in Answers :
                 /\ Send(ctx, answer, capacity)
                 /\ (IsRequest(evt) /\ answer.id = evt.id) \/ \E s \in scans : answer.id = s.id
    PROVE  CleanInv'
<1>1. OkIsOwnAnswer'
  BY DEF CleanInv, OkIsOwnAnswer
<1> SUFFICES ASSUME clean, req # NoRequest
             PROVE  /\ IsRequest(evt') => evt'.id = req.id
                    /\ \A j \in 1 .. Len(evt_queue') :
                          IsRequest(evt_queue'[j]) => evt_queue'[j].id = req.id
                    /\ \A s \in scans' : s.id = req.id
                    /\ resp_queue'[req.ctx] # << >> => Head(resp_queue'[req.ctx]).id = req.id
  BY <1>1 DEF CleanInv, IsRequest
<1>2. IsRequest(evt') => evt'.id = req.id
  BY DEF CleanInv, IsRequest
<1>3. \A j \in 1 .. Len(evt_queue') : IsRequest(evt_queue'[j]) => evt_queue'[j].id = req.id
  BY DEF CleanInv, IsRequest
<1>4. \A s \in scans' : s.id = req.id
  BY DEF CleanInv
<1>5. resp_queue'[req.ctx] # << >> => Head(resp_queue'[req.ctx]).id = req.id
  <2>1. req.ctx \in Addr
    BY DEF TypeOK, Requests
  <2>2. CASE resp_queue' = resp_queue
    BY <2>2 DEF CleanInv
  <2>3. ASSUME NEW ctx, NEW capacity, NEW answer \in Answers, Send(ctx, answer, capacity),
               (IsRequest(evt) /\ answer.id = evt.id) \/ \E s \in scans : answer.id = s.id,
               resp_queue'[req.ctx] # << >>
        PROVE  Head(resp_queue'[req.ctx]).id = req.id
    <3>1. answer.id = req.id
      BY <2>3 DEF CleanInv
    <3> QED BY <2>1, <2>3, <3>1, SendFirst DEF CleanInv
  <2> QED BY <2>2, <2>3
<1> QED BY <1>2, <1>3, <1>4, <1>5

\* Lemma: every step keeps it.
LEMMA CleanStep == TypeOK /\ CleanInv /\ [Next]_vars => CleanInv'
<1> SUFFICES ASSUME TypeOK, CleanInv, [Next]_vars PROVE CleanInv'
  OBVIOUS
<1>1. evt_queue \in Seq(BusEvents) /\ Len(evt_queue) \in Nat /\ Len(evt_queue) <= QUEUE_LEN
      /\ DOMAIN evt_queue = 1 .. Len(evt_queue)
  BY LenProperties DEF TypeOK, BusEvents
<1>2. ASSUME NEW kind \in AllKinds, NEW valid \in BOOLEAN, RequestWith(kind, valid)
      PROVE  CleanInv'
  <2>1. PICK a \in Addr :
          /\ resp_queue' = [resp_queue EXCEPT ![a] = << >>]
          /\ req' = [kind |-> kind, id |-> requests', valid |-> valid, ctx |-> a]
    BY <1>2 DEF RequestWith
  <2>2. /\ clean' = ~UnderWay /\ UNCHANGED <<evt, scans, last>>
        /\ evt_queue' = Offer(evt_queue, req')
    BY <1>2 DEF RequestWith, Emit
  <2>3. req' \in BusEvents /\ req'.ctx = a /\ req' # NoRequest
    <3>1. req' \in Requests /\ req'.ctx = a
      BY <1>2, <2>1 DEF RequestWith, Requests, TypeOK
    <3> QED BY <3>1, KindsApart DEF BusEvents
  <2>4. resp_queue'[req'.ctx] = << >>
    BY <2>1, <2>3 DEF TypeOK
  <2>5. ASSUME ~UnderWay
        PROVE  /\ ~IsRequest(evt) /\ scans = {}
               /\ \A j \in 1 .. Len(evt_queue') : IsRequest(evt_queue'[j]) => evt_queue'[j] = req'
    <3>1. ~Queued /\ ~IsRequest(evt) /\ scans = {}
      BY <1>1, <2>5 DEF UnderWay, Queued, IsRequest
    <3> QED BY <2>2, <2>3, <3>1, BackOfEmpty
  <2>6. OkIsOwnAnswer'
    BY <2>3 DEF OkIsOwnAnswer
  <2> QED BY <2>2, <2>4, <2>5, <2>6 DEF CleanInv, IsRequest
<1>3. CASE handle_post_request_unread
  BY <1>3 DEF handle_post_request_unread, CleanInv, OkIsOwnAnswer
<1>4. CASE ReceiveAnswer \/ Timeout
  <2>1. req' = NoRequest /\ clean' = clean
    BY <1>4 DEF ReceiveAnswer, Timeout, Respond
  <2>2. CASE ReceiveAnswer
    <3>1. /\ last'.id = req.id /\ last'.by = Head(resp_queue[req.ctx]).id
          /\ req # NoRequest /\ resp_queue[req.ctx] # << >>
      BY <2>2 DEF ReceiveAnswer, Respond
    <3> QED BY <2>1, <3>1 DEF CleanInv, OkIsOwnAnswer
  <2>3. CASE Timeout
    <3>1. last'.status = "error"
      BY <2>3 DEF Timeout, Respond
    <3> QED BY <2>1, <3>1 DEF CleanInv, OkIsOwnAnswer
  <2> QED BY <1>4, <2>2, <2>3
<1>5. CASE httpd
  <2>1. CASE emit_event_and_wait_response \/ handle_post_request
    BY <1>2, <2>1, ApiAssumption DEF emit_event_and_wait_response, handle_post_request
  <2> QED BY <1>3, <1>4, <1>5, <2>1 DEF httpd
<1>6. CASE Dispatch
  <2>1. /\ Len(evt_queue) # 0 /\ evt' = evt_queue[1]
        /\ \A j \in 1 .. Len(evt_queue') :
              j + 1 \in 1 .. Len(evt_queue) /\ evt_queue'[j] = evt_queue[j + 1]
        /\ 1 \in 1 .. Len(evt_queue)
    <3>1. evt_queue # << >> /\ evt' = Head(evt_queue) /\ evt_queue' = Tail(evt_queue)
      BY <1>6 DEF Dispatch
    <3>2. Len(evt_queue) # 0
      BY <1>1, <3>1, EmptySeq
    <3>3. /\ Head(evt_queue) = evt_queue[1] /\ Len(Tail(evt_queue)) = Len(evt_queue) - 1
          /\ \A j \in 1 .. Len(Tail(evt_queue)) : Tail(evt_queue)[j] = evt_queue[j + 1]
      BY <1>1, <3>1, HeadTailProperties
    <3> QED BY <1>1, <3>1, <3>2, <3>3
  <2>2. UNCHANGED <<req, clean, last, scans, resp_queue>>
    BY <1>6 DEF Dispatch, heap
  <2> QED BY <2>1, <2>2, CleanOthers
<1>7. ASSUME evt' = NoRequest, UNCHANGED <<evt_queue, req, clean, last>>,
             scans' = scans \/ (IsRequest(evt) /\ scans' = scans \union {evt}),
             resp_queue' = resp_queue \/ (IsRequest(evt) /\ sta_cfg' \in Int
                                            /\ \E type \in AllKinds : Answer(type))
      PROVE  CleanInv'
  <2>1. ~IsRequest(evt')
    BY <1>7, KindsApart
  <2>2. \/ resp_queue' = resp_queue
        \/ \E ctx, capacity : \E answer \in Answers :
              /\ Send(ctx, answer, capacity)
              /\ IsRequest(evt) /\ answer.id = evt.id
    <3> SUFFICES ASSUME IsRequest(evt), sta_cfg' \in Int, NEW type \in AllKinds, Answer(type)
                 PROVE  \E ctx, capacity : \E answer \in Answers :
                           Send(ctx, answer, capacity) /\ answer.id = evt.id
      BY <1>7
    <3> DEFINE answer == [type |-> type, id |-> evt.id, shows |-> sta_cfg']
    <3>1. evt.id \in Nat
      BY KindsApart DEF TypeOK, Requests
    <3>2. answer \in Answers /\ answer.id = evt.id
      BY <3>1 DEF Answers
    <3>3. Send(evt.ctx, answer, CapacityAt(evt.ctx))
      BY DEF Answer
    <3> HIDE DEF answer
    <3> QED BY <3>2, <3>3
  <2>3. \A s \in scans' : s \in scans \/ (IsRequest(evt) /\ s = evt)
    BY <1>7
  <2> QED BY <1>7, <2>1, <2>2, <2>3, CleanOthers
<1>8. CASE AnswerGet \/ PostSta \/ PostAp \/ PostMqtt
  <2>1. IsRequest(evt)
    BY <1>8 DEF AnswerGet, PostSta, PostAp, PostMqtt, IsRequest, AllKinds, Posts
  <2>2. evt.id \in Nat /\ sta_cfg \in Int
    BY <2>1, KindsApart DEF TypeOK, Requests, Mangled
  <2>3. sta_cfg' \in Int /\ evt' = NoRequest /\ scans' = scans
        /\ UNCHANGED <<evt_queue, req, clean, last>>
    BY <1>8, <2>2 DEF AnswerGet, PostSta, PostAp, PostMqtt, HandlerFrame, Handled
  <2>4. \E type \in AllKinds : Answer(type)
    BY <1>8 DEF AnswerGet, PostSta, PostAp, PostMqtt, AllKinds, Gets, Posts
  <2> QED BY <1>7, <2>1, <2>3, <2>4
<1>9. CASE StartScan \/ Ignore
  BY <1>7, <1>9 DEF StartScan, Ignore, HandlerFrame, Handled, heap, IsRequest, AllKinds
<1>10. CASE wifi_scan_task
  <2>1. PICK s \in scans : /\ scans' = scans \ {s}
                           /\ \/ UNCHANGED heap
                              \/ Send(s.ctx, [type |-> "wifi_scan", id |-> s.id, shows |-> Default],
                                      CapacityAt(s.ctx))
                           /\ TaskFrame
    BY <1>10 DEF wifi_scan_task
  <2> DEFINE answer == [type |-> "wifi_scan", id |-> s.id, shows |-> Default]
  <2>2. answer \in Answers /\ answer.id = s.id
    BY <2>1 DEF TypeOK, Requests, Answers, AllKinds, Default
  <2>3. resp_queue' = resp_queue \/ Send(s.ctx, answer, CapacityAt(s.ctx))
    BY <2>1 DEF heap
  <2>4. UNCHANGED <<req, clean, last, evt, evt_queue>>
    BY <2>1 DEF TaskFrame, bus
  <2> HIDE DEF answer
  <2>5. \/ resp_queue' = resp_queue
        \/ \E ctx, capacity : \E x \in Answers :
              Send(ctx, x, capacity) /\ \E t \in scans : x.id = t.id
    BY <2>2, <2>3
  <2> QED BY <2>1, <2>4, <2>5, CleanOthers
<1>11. CASE save_struct \/ UNCHANGED vars
  <2>1. UNCHANGED <<req, clean, last, evt, evt_queue, scans, resp_queue>>
    BY <1>11 DEF save_struct, TaskFrame, vars, bus, heap
  <2> QED BY <2>1, CleanOthers
<1>12. CASE save_returns
  BY <1>12 DEF save_returns, Reboot, CleanInv, OkIsOwnAnswer
<1>13. CASE OtherEvent
  <2>1. UNCHANGED <<req, clean, last, evt, scans, resp_queue>>
        /\ evt_queue' = Offer(evt_queue, Other) /\ Other \in BusEvents
    BY <1>13 DEF OtherEvent, Emit, heap, BusEvents
  <2>2. \/ evt_queue' = evt_queue
        \/ /\ Len(evt_queue') = Len(evt_queue) + 1
           /\ \A j \in 1 .. Len(evt_queue) : evt_queue'[j] = evt_queue[j]
           /\ evt_queue'[Len(evt_queue) + 1] = Other
    BY <1>1, <2>1, OfferEffect
  <2>3. \A j \in 1 .. Len(evt_queue') : IsRequest(evt_queue'[j]) =>
           j \in 1 .. Len(evt_queue) /\ evt_queue'[j] = evt_queue[j]
    BY <1>1, <2>2, KindsApart
  <2> QED BY <2>1, <2>3, CleanOthers
<1> QED BY <1>5, <1>6, <1>8, <1>9, <1>10, <1>11, <1>12, <1>13 DEF Next, eventbus_task

\* Theorem: however late the bus and the scans are, a request that came when nothing of
\* an earlier one was under way is never answered for another one: what a late answer
\* can spoil ends with the requests that came before it was given.
THEOREM OkIsOwnAnswerCorrect == Spec => []OkIsOwnAnswer
<1>1. Init => CleanInv
  BY DEF Init, CleanInv, OkIsOwnAnswer
<1>2. TypeOK /\ CleanInv /\ [Next]_vars => CleanInv'
  BY CleanStep
<1>3. CleanInv => OkIsOwnAnswer
  BY DEF CleanInv
<1> QED BY <1>1, <1>2, <1>3, ApiTypeCorrect, PTL DEF Spec

-----------------------------------------------------------------------------
(* The theorems that need the bus and the scan to keep up.                   *)

\* Lemma: nothing is on its way when no request is waited on.
LEMMA NothingInFlight ==
    ASSUME TypeOK, OneInFlight, req = NoRequest
    PROVE  ~Queued /\ ~IsRequest(evt) /\ scans = {}
BY KindsApart DEF OneInFlight, Queued, TypeOK

\* Lemma: the first answer of the current request is found in its queue, if anything is.
LEMMA FirstAnswer ==
    ASSUME TypeOK, req # NoRequest, resp_queue[req.ctx] = << >>,
           NEW answer \in Answers, answer.id = req.id, NEW capacity,
           Send(req.ctx, answer, capacity)
    PROVE  resp_queue'[req.ctx] # << >> => Head(resp_queue'[req.ctx]).id = req.id
<1>1. req.ctx \in Addr
  BY DEF TypeOK, Requests
<1>3. CASE resp_queue' = [resp_queue EXCEPT ![req.ctx] = Append(@, answer)]
  <2>1. resp_queue'[req.ctx] = Append(<< >>, answer)
    BY <1>1, <1>3 DEF TypeOK
  <2>2. << >> \in Seq(Answers) /\ Len(<< >>) = 0
    BY EmptySeq
  <2>3. Append(<< >>, answer) \in Seq(Answers) /\ Append(<< >>, answer)[1] = answer
    BY <2>2, AppendProperties
  <2>4. Append(<< >>, answer) # << >> => Head(Append(<< >>, answer)) = answer
    BY <2>3, HeadTailProperties
  <2> QED BY <2>1, <2>4
<1>4. CASE resp_queue' = resp_queue
  BY <1>4
<1> QED BY <1>1, <1>3, <1>4 DEF Send

\* Lemma: the end of a request, if nothing of it is still on its way.
LEMMA RespondPrompt ==
    ASSUME PromptInv, ~Queued, ~IsRequest(evt), scans = {},
           NEW status, NEW answer, Respond(status, answer)
    PROVE  PromptInv'
<1>1. req' = NoRequest /\ evt_queue' = evt_queue /\ evt' = evt /\ scans' = scans
  BY DEF Respond, bus
<1> QED BY <1>1 DEF PromptInv, OneInFlight, AnswerIsOwn, Queued, IsRequest

\* Lemma: while bus and scan keep up, every step keeps one request in flight
\* and its answer its own.
LEMMA PromptStep ==
    ASSUME BusKeepsUp, ScanKeepsUp, Inv, PromptInv, [Next]_vars
    PROVE  PromptInv'
<1> USE DEF Inv
<1>1. ASSUME NEW kind \in AllKinds, NEW valid \in BOOLEAN, RequestWith(kind, valid)
      PROVE  PromptInv'
  <2>1. ~Queued /\ ~IsRequest(evt) /\ scans = {}
    BY <1>1, NothingInFlight DEF RequestWith, PromptInv
  <2>2. PICK a \in Addr :
          /\ resp_queue' = [resp_queue EXCEPT ![a] = << >>]
          /\ req' = [kind |-> kind, id |-> requests', valid |-> valid, ctx |-> a]
    BY <1>1 DEF RequestWith
  <2>3. req' \in BusEvents /\ req'.ctx = a
    BY <1>1, <2>2 DEF RequestWith, BusEvents, Requests, TypeOK
  <2>4. \A j \in 1 .. Len(evt_queue') :
           IsRequest(evt_queue'[j]) => evt_queue'[j] = req' /\ j = Len(evt_queue) + 1
    BY <1>1, <2>1, <2>3, BackOfEmpty DEF RequestWith, Emit
  <2>5. evt' = evt /\ scans' = {}
    BY <1>1, <2>1 DEF RequestWith
  <2>6. resp_queue'[req'.ctx] = << >>
    BY <2>2, <2>3 DEF TypeOK
  <2>7. OneInFlight' /\ AnswerIsOwn'
    BY <2>1, <2>4, <2>5, <2>6 DEF OneInFlight, AnswerIsOwn, IsRequest
  <2> QED BY <2>5, <2>7 DEF PromptInv
<1>2. ASSUME UNCHANGED <<evt_queue, evt, req, resp_queue, scans>>
      PROVE  PromptInv'
  BY <1>2 DEF PromptInv, OneInFlight, AnswerIsOwn, Queued, IsRequest
<1>3. CASE ReceiveAnswer
  <2>1. ~Queued /\ ~IsRequest(evt) /\ scans = {}
    BY <1>3 DEF ReceiveAnswer, PromptInv, AnswerIsOwn
  <2> QED BY <1>3, <2>1, RespondPrompt DEF ReceiveAnswer
<1>4. CASE Timeout
  <2>1. /\ evt.id # req.id /\ \A s \in scans : s.id # req.id
        /\ \A j \in 1 .. Len(evt_queue) : evt_queue[j].id # req.id
    <3>1. DOMAIN evt_queue = 1 .. Len(evt_queue)
      BY LenProperties DEF TypeOK
    <3> QED BY <1>4, <3>1 DEF Timeout, InTime
  <2>2. ~Queued /\ ~IsRequest(evt) /\ scans = {}
    BY <2>1 DEF PromptInv, OneInFlight, Queued
  <2> QED BY <1>4, <2>2, RespondPrompt DEF Timeout
<1>5. CASE httpd
  <2>1. CASE emit_event_and_wait_response \/ handle_post_request
    BY <1>1, <2>1, ApiAssumption DEF emit_event_and_wait_response, handle_post_request
  <2>2. CASE handle_post_request_unread
    BY <1>2, <2>2 DEF handle_post_request_unread, bus, heap
  <2> QED BY <1>3, <1>4, <1>5, <2>1, <2>2 DEF httpd
<1>6. CASE Dispatch
  <2>1. /\ Len(evt_queue) \in Nat \ {0} /\ evt' = evt_queue[1]
        /\ Len(evt_queue') = Len(evt_queue) - 1
        /\ \A j \in 1 .. Len(evt_queue) - 1 : evt_queue'[j] = evt_queue[j + 1]
    BY <1>6, HeadTailProperties, EmptySeq, LenProperties DEF Dispatch, TypeOK
  <2>2. /\ \A j \in 1 .. Len(evt_queue') :
              j + 1 \in 1 .. Len(evt_queue) /\ evt_queue'[j] = evt_queue[j + 1]
        /\ 1 \in 1 .. Len(evt_queue)
    BY <2>1
  <2>3. UNCHANGED <<req, resp_queue, scans>> /\ ~IsRequest(evt)
    BY <1>6, KindsApart DEF Dispatch, heap
  <2>4. ASSUME NEW j \in 1 .. Len(evt_queue'), IsRequest(evt_queue'[j])
        PROVE  evt_queue'[j] = req /\ ~IsRequest(evt') /\ scans = {}
    <3>1. j + 1 \in 1 .. Len(evt_queue) /\ IsRequest(evt_queue[j + 1]) /\ j + 1 # 1
      BY <2>1, <2>2, <2>4
    <3> QED BY <2>1, <2>2, <3>1 DEF PromptInv, OneInFlight, Queued, IsRequest
  <2>5. IsRequest(evt') => evt' = req /\ scans = {}
    BY <2>1, <2>2 DEF PromptInv, OneInFlight, Queued, IsRequest
  <2>6. ASSUME NEW j \in 1 .. Len(evt_queue'), NEW k \in 1 .. Len(evt_queue'),
               IsRequest(evt_queue'[j]), IsRequest(evt_queue'[k])
        PROVE  j = k
    <3>1. j + 1 = k + 1
      BY <2>2, <2>6 DEF PromptInv, OneInFlight
    <3> QED BY <3>1
  <2>7. OneInFlight'
    BY <2>3, <2>4, <2>5, <2>6 DEF PromptInv, OneInFlight, Queued, IsRequest
  <2>8. AnswerIsOwn'
    <3>1. Queued' \/ IsRequest(evt') => Queued
      BY <2>1, <2>2 DEF Queued, IsRequest
    <3> QED BY <2>3, <3>1 DEF AnswerIsOwn, PromptInv, IsRequest
  <2> QED BY <2>3, <2>7, <2>8 DEF PromptInv
<1>7. ASSUME IsRequest(evt), NEW type \in AllKinds, Answer(type), evt' = NoRequest,
             evt_queue' = evt_queue, scans' = scans, req' = req, sta_cfg' \in Int
      PROVE  PromptInv'
  <2>1. evt = req /\ ~Queued /\ scans = {}
    BY <1>7 DEF PromptInv, OneInFlight
  <2>2. req \in Requests /\ req # NoRequest
    BY <1>7, <2>1, KindsApart DEF TypeOK
  <2>3. resp_queue[req.ctx] = << >>
    BY <1>7, <2>2 DEF PromptInv, AnswerIsOwn
  <2>4. DEFINE answer == [type |-> type, id |-> evt.id, shows |-> sta_cfg']
  <2>5. answer \in Answers /\ answer.id = req.id
    BY <1>7, <2>1, <2>2 DEF Answers, Requests
  <2>6. Send(req.ctx, answer, CapacityAt(req.ctx))
    BY <1>7, <2>1 DEF Answer
  <2>7. resp_queue'[req.ctx] # << >> => Head(resp_queue'[req.ctx]).id = req.id
    <3> HIDE DEF answer
    <3> QED BY <2>2, <2>3, <2>5, <2>6, FirstAnswer DEF PromptInv
  <2>8. ~Queued' /\ ~IsRequest(evt')
    BY <1>7, <2>1, KindsApart DEF Queued, IsRequest
  <2>9. OneInFlight' /\ AnswerIsOwn'
    BY <1>7, <2>1, <2>7, <2>8 DEF OneInFlight, AnswerIsOwn, Queued, IsRequest
  <2> QED BY <1>7, <2>7, <2>9 DEF PromptInv
<1>8. CASE AnswerGet \/ PostSta \/ PostAp \/ PostMqtt
  <2>1. IsRequest(evt)
    BY <1>8 DEF AnswerGet, PostSta, PostAp, PostMqtt, IsRequest, AllKinds, Posts
  <2>2. evt.id \in Nat /\ sta_cfg \in Int
    BY <2>1, KindsApart DEF TypeOK, Requests, Mangled
  <2>3. sta_cfg' \in Int /\ evt' = NoRequest /\ evt_queue' = evt_queue /\ scans' = scans
        /\ req' = req
    BY <1>8, <2>2 DEF AnswerGet, PostSta, PostAp, PostMqtt, HandlerFrame, Handled
  <2>4. \E type \in AllKinds : Answer(type)
    BY <1>8 DEF AnswerGet, PostSta, PostAp, PostMqtt, AllKinds, Gets, Posts
  <2> QED BY <1>7, <2>1, <2>3, <2>4
<1>9. CASE StartScan
  <2>1. IsRequest(evt)
    BY <1>9 DEF StartScan, IsRequest, AllKinds
  <2>2. evt = req /\ ~Queued /\ scans = {}
    BY <2>1 DEF PromptInv, OneInFlight
  <2>3. req # NoRequest /\ resp_queue[req.ctx] = << >>
    BY <2>1, <2>2, KindsApart DEF PromptInv, AnswerIsOwn
  <2>4. /\ evt' = NoRequest /\ scans' = {req}
        /\ UNCHANGED <<evt_queue, req, resp_queue>>
    BY <1>9, <2>2 DEF StartScan, Handled, HandlerFrame, heap
  <2>5. OneInFlight' /\ AnswerIsOwn'
    BY <2>2, <2>3, <2>4, KindsApart DEF OneInFlight, AnswerIsOwn, Queued, IsRequest
  <2> QED BY <2>4, <2>5 DEF PromptInv
<1>10. CASE Ignore
  <2>1. evt' = NoRequest /\ UNCHANGED <<evt_queue, req, resp_queue, scans>>
    BY <1>10 DEF Ignore, Handled, HandlerFrame, heap
  <2>2. OneInFlight' /\ AnswerIsOwn'
    BY <2>1, KindsApart DEF PromptInv, OneInFlight, AnswerIsOwn, Queued, IsRequest
  <2> QED BY <2>1, <2>2 DEF PromptInv
<1>11. CASE wifi_scan_task
  <2>1. PICK s \in scans : /\ scans' = scans \ {s}
                           /\ \/ UNCHANGED heap
                              \/ Send(s.ctx, [type |-> "wifi_scan", id |-> s.id, shows |-> Default],
                                      CapacityAt(s.ctx))
                           /\ TaskFrame
    BY <1>11 DEF wifi_scan_task
  <2>2. s = req /\ scans' = {} /\ ~Queued /\ ~IsRequest(evt)
    BY <2>1 DEF PromptInv, OneInFlight
  <2>3. req \in Requests /\ req # NoRequest /\ resp_queue[req.ctx] = << >>
    BY <2>1, <2>2, KindsApart DEF TypeOK, PromptInv, AnswerIsOwn
  <2>4. evt_queue' = evt_queue /\ evt' = evt /\ req' = req
    BY <2>1 DEF TaskFrame, bus
  <2>5. resp_queue'[req.ctx] # << >> => Head(resp_queue'[req.ctx]).id = req.id
    <3>1. CASE UNCHANGED heap
      BY <2>3, <3>1 DEF heap
    <3>2. CASE Send(req.ctx, [type |-> "wifi_scan", id |-> req.id, shows |-> Default],
                    CapacityAt(req.ctx))
      <4>1. [type |-> "wifi_scan", id |-> req.id, shows |-> Default] \in Answers
        BY <2>3 DEF Answers, Requests, AllKinds, Default
      <4> QED BY <2>3, <3>2, <4>1, FirstAnswer DEF PromptInv
    <3> QED BY <2>1, <2>2, <3>1, <3>2
  <2>6. OneInFlight' /\ AnswerIsOwn'
    BY <2>2, <2>4, <2>5 DEF OneInFlight, AnswerIsOwn, Queued, IsRequest
  <2> QED BY <2>4, <2>5, <2>6 DEF PromptInv
<1>12. CASE save_struct \/ UNCHANGED vars
  BY <1>2, <1>12 DEF save_struct, TaskFrame, vars, bus, heap
<1>13. CASE save_returns
  <2>1. evt_queue' = << >> /\ evt' = NoRequest /\ req' = NoRequest /\ scans' = {}
    BY <1>13 DEF save_returns, Reboot
  <2>2. Len(evt_queue') = 0
    BY <2>1, EmptySeq
  <2>3. OneInFlight' /\ AnswerIsOwn'
    BY <2>1, <2>2, KindsApart DEF OneInFlight, AnswerIsOwn, Queued
  <2> QED BY <2>1, <2>3 DEF PromptInv
<1>14. CASE OtherEvent
  <2>1. /\ UNCHANGED <<evt, req, resp_queue, scans>>
        /\ evt_queue' = Offer(evt_queue, Other) /\ Other \in BusEvents
    BY <1>14 DEF OtherEvent, Emit, heap, BusEvents
  <2>2. \A j \in 1 .. Len(evt_queue') : IsRequest(evt_queue'[j]) =>
           j \in 1 .. Len(evt_queue) /\ evt_queue'[j] = evt_queue[j]
    <3>1. Len(evt_queue) \in Nat /\ evt_queue \in Seq(BusEvents) /\ Len(evt_queue) <= QUEUE_LEN
      BY LenProperties DEF TypeOK, BusEvents
    <3>2. \/ evt_queue' = evt_queue
          \/ /\ Len(evt_queue') = Len(evt_queue) + 1
             /\ \A j \in 1 .. Len(evt_queue) : evt_queue'[j] = evt_queue[j]
             /\ evt_queue'[Len(evt_queue) + 1] = Other
      BY <2>1, <3>1, OfferEffect
    <3> QED BY <3>1, <3>2, KindsApart
  <2>3. OneInFlight' /\ AnswerIsOwn'
    BY <2>1, <2>2 DEF PromptInv, OneInFlight, AnswerIsOwn, Queued, IsRequest
  <2> QED BY <2>1, <2>3 DEF PromptInv
<1> QED BY <1>5, <1>6, <1>8, <1>9, <1>10, <1>11, <1>12, <1>13, <1>14 DEF Next, eventbus_task

\* Lemma: the invariant of the timing assumptions.
LEMMA PromptInvariant ==
    ASSUME BusKeepsUp, ScanKeepsUp
    PROVE  Spec => []PromptInv
<1>1. Init => PromptInv
  <2>1. Len(<< >>) = 0
    BY EmptySeq
  <2> QED
    BY <2>1, KindsApart DEF Init, PromptInv, OneInFlight, AnswerIsOwn, Queued
<1>2. Inv /\ PromptInv /\ [Next]_vars => PromptInv'
  BY PromptStep
<1> QED BY <1>1, <1>2, ApiInvariant, PTL DEF Spec

\* An answer is there for the request that is waited on, ...
Answered == req # NoRequest /\ resp_queue[req.ctx] # << >>

\* ... which is a station configuration that was applied.
Applied == Answered /\ req.kind = "sta_post" /\ req.valid

\* The configuration in memory is the last acknowledged one, but for the time from the
\* answer of a POST in the response queue to the response on the wire.
ReadInv ==
    /\ reboots = 0 => sta_cfg = IF Applied THEN req.id ELSE acked
    /\ reboots = 0 /\ Answered /\ req.kind = "sta_get" =>
          Head(resp_queue[req.ctx]).shows = acked
    /\ Answered /\ req.kind \in {"sta_get", "sta_post"} =>
          Head(resp_queue[req.ctx]).type = req.kind
    /\ \A s \in scans : s.kind = "wifi_scan"
    /\ ReadYourWrites

\* Lemma: there is room for the first answer of a request.
LEMMA FirstAnswerArrives ==
    ASSUME TypeOK, QueuesOwned, req \in Requests, req # NoRequest, resp_queue[req.ctx] = << >>,
           NEW answer \in Answers, NEW capacity \in {1, 2}, Send(req.ctx, answer, capacity)
    PROVE  resp_queue'[req.ctx] # << >> /\ Head(resp_queue'[req.ctx]) = answer
<1>1. req.ctx \in Addr /\ req.ctx \in allocated
  BY DEF Requests, QueuesOwned
<1>2. << >> \in Seq(Answers) /\ Len(<< >>) = 0
  BY EmptySeq
<1>3. resp_queue' = [resp_queue EXCEPT ![req.ctx] = Append(@, answer)]
  BY <1>1, <1>2 DEF Send
<1>4. resp_queue'[req.ctx] = Append(<< >>, answer)
  BY <1>1, <1>3 DEF TypeOK
<1>5. /\ Append(<< >>, answer) \in Seq(Answers) /\ Len(Append(<< >>, answer)) = Len(<< >>) + 1
      /\ Append(<< >>, answer)[1] = answer
  BY <1>2, AppendProperties
<1>6. Append(<< >>, answer) # << >>
  BY <1>2, <1>5
<1>7. Head(Append(<< >>, answer)) = answer
  BY <1>5, <1>6, HeadTailProperties
<1> QED BY <1>4, <1>6, <1>7

\* Lemma: while bus and scan keep up, every step keeps what is known of the
\* configuration, the answers and the acknowledgements.
LEMMA ReadStep ==
    ASSUME Inv, PromptInv, ReadInv, [Next]_vars
    PROVE  ReadInv'
<1> USE DEF Inv
<1>1. ASSUME NEW kind \in AllKinds, NEW valid \in BOOLEAN, RequestWith(kind, valid)
      PROVE  ReadInv'
  <2>1. PICK a \in Addr :
          /\ resp_queue' = [resp_queue EXCEPT ![a] = << >>]
          /\ req' = [kind |-> kind, id |-> requests', valid |-> valid, ctx |-> a]
    BY <1>1 DEF RequestWith
  <2>2. req = NoRequest /\ UNCHANGED <<sta_cfg, acked, reboots, last, scans>>
    BY <1>1 DEF RequestWith
  <2>3. ~Answered /\ ~Answered'
    BY <2>1, <2>2 DEF Answered, TypeOK
  <2> QED BY <2>2, <2>3 DEF ReadInv, Applied, ReadYourWrites
<1>2. ASSUME UNCHANGED <<req, resp_queue, sta_cfg, acked, reboots, scans>>,
             last' = last \/ last'.status = "error"
      PROVE  ReadInv'
  BY <1>2 DEF ReadInv, Answered, Applied, ReadYourWrites
<1>3. ASSUME NEW status, NEW answer, req \in Requests, Respond(status, answer),
             Applied => status = "ok",
             status = "ok" => Answered /\ answer = Head(resp_queue[req.ctx])
      PROVE  ReadInv'
  <2>1. /\ req' = NoRequest /\ UNCHANGED <<sta_cfg, reboots, scans>>
        /\ acked' = IF status = "ok" /\ req.kind = "sta_post" /\ req.valid THEN req.id ELSE acked
        /\ last'.kind = req.kind /\ last'.status = status /\ last'.shows = answer.shows
    BY <1>3 DEF Respond
  <2>2. ~Answered'
    BY <2>1 DEF Answered
  <2>3. reboots = 0 => sta_cfg = acked'
    BY <1>3, <2>1 DEF ReadInv, Applied
  <2>4. ReadYourWrites'
    BY <1>3, <2>1 DEF ReadInv, ReadYourWrites
  <2> QED BY <2>1, <2>2, <2>3, <2>4 DEF ReadInv, Applied
<1>4. CASE ReceiveAnswer \/ Timeout
  <2>1. req \in Requests /\ req # NoRequest
    BY <1>4 DEF ReceiveAnswer, Timeout, TypeOK
  <2>2. CASE ReceiveAnswer
    <3>1. Answered
      BY <2>2 DEF ReceiveAnswer, Answered
    <3>2. CASE Head(resp_queue[req.ctx]).type = req.kind
      BY <1>3, <2>1, <2>2, <3>1, <3>2 DEF ReceiveAnswer
    <3>3. CASE Head(resp_queue[req.ctx]).type # req.kind
      <4>1. ~Applied
        BY <3>3 DEF ReadInv, Applied
      <4> QED BY <1>3, <2>1, <2>2, <3>3, <4>1 DEF ReceiveAnswer
    <3> QED BY <3>2, <3>3
  <2>3. CASE Timeout
    <3>1. ~Applied
      BY <2>3 DEF Timeout, Applied, Answered
    <3> QED BY <1>3, <2>1, <2>3, <3>1 DEF Timeout
  <2> QED BY <1>4, <2>2, <2>3
<1>5. CASE httpd
  <2>1. CASE emit_event_and_wait_response \/ handle_post_request
    BY <1>1, <2>1, ApiAssumption DEF emit_event_and_wait_response, handle_post_request
  <2>2. CASE handle_post_request_unread
    BY <1>2, <2>2 DEF handle_post_request_unread, bus, heap
  <2> QED BY <1>4, <1>5, <2>1, <2>2 DEF httpd
<1>6. CASE AnswerGet \/ PostSta \/ PostAp \/ PostMqtt
  <2>1. IsRequest(evt)
    BY <1>6 DEF AnswerGet, PostSta, PostAp, PostMqtt, IsRequest, AllKinds, Posts
  <2>2. evt = req
    BY <2>1 DEF PromptInv, OneInFlight
  <2>3. req \in Requests /\ req # NoRequest
    BY <2>1, <2>2, KindsApart DEF TypeOK
  <2>4. resp_queue[req.ctx] = << >>
    BY <2>1, <2>3 DEF PromptInv, AnswerIsOwn
  <2>5. ~Answered /\ ~Applied
    BY <2>4 DEF Answered, Applied
  <2>6. req' = req /\ UNCHANGED <<acked, reboots, last, scans>>
    BY <1>6 DEF AnswerGet, PostSta, PostAp, PostMqtt, HandlerFrame
  <2>7. ASSUME NEW type \in AllKinds, Answer(type), sta_cfg' \in Int
        PROVE  /\ Answered'
               /\ Head(resp_queue[req.ctx])'.type = type
               /\ Head(resp_queue[req.ctx])'.shows = sta_cfg'
    <3> DEFINE answer == [type |-> type, id |-> evt.id, shows |-> sta_cfg']
    <3>1. answer \in Answers /\ answer.type = type /\ answer.shows = sta_cfg'
      BY <2>2, <2>3, <2>7 DEF Answers, Requests
    <3>2. Send(req.ctx, answer, CapacityAt(req.ctx)) /\ CapacityAt(req.ctx) \in {1, 2}
      BY <2>2, <2>7, CapacityInRange DEF Answer
    <3> HIDE DEF answer
    <3>3. resp_queue'[req.ctx] # << >> /\ Head(resp_queue'[req.ctx]) = answer
      BY <2>3, <2>4, <3>1, <3>2, FirstAnswerArrives
    <3> QED BY <2>3, <2>6, <3>1, <3>3 DEF Answered
  <2>8. req.id \in Nat /\ sta_cfg \in Int
    BY <2>3 DEF TypeOK, Requests, Mangled
  <2>9. "sta_post" \in AllKinds /\ "mqtt_post" \in AllKinds /\ "ap_get" \in AllKinds /\ Gets \subseteq AllKinds
        /\ "sta_post" \notin Gets
    BY DEF AllKinds, Gets, Posts
  <2>10. CASE AnswerGet
    <3>1. sta_cfg' = sta_cfg /\ req.kind \in Gets /\ Answer(req.kind)
      BY <2>2, <2>10 DEF AnswerGet
    <3>2. /\ Answered' /\ Head(resp_queue[req.ctx])'.shows = sta_cfg
          /\ Head(resp_queue[req.ctx])'.type = req.kind
      BY <2>7, <2>8, <2>9, <3>1
    <3>3. req.kind # "sta_post"
      BY <2>9, <3>1
    <3> QED BY <2>5, <2>6, <3>1, <3>2, <3>3 DEF ReadInv, Applied, ReadYourWrites
  <2>11. CASE PostSta
    <3>1. /\ req.kind = "sta_post" /\ Answer("sta_post")
          /\ sta_cfg' = IF req.valid THEN req.id ELSE sta_cfg
      BY <2>2, <2>11 DEF PostSta
    <3>2. Answered' /\ Head(resp_queue[req.ctx])'.type = "sta_post"
      BY <2>7, <2>8, <2>9, <3>1
    <3> QED BY <2>5, <2>6, <3>1, <3>2 DEF ReadInv, Applied, ReadYourWrites
  <2>12. CASE PostAp \/ PostMqtt
    <3>1. sta_cfg' = sta_cfg /\ req.kind \in {"ap_post", "mqtt_post"}
      BY <2>2, <2>12 DEF PostAp, PostMqtt
    <3> QED BY <2>5, <2>6, <3>1 DEF ReadInv, Applied, ReadYourWrites
  <2> QED BY <1>6, <2>10, <2>11, <2>12
<1>7. CASE Dispatch \/ Ignore \/ save_struct \/ OtherEvent \/ UNCHANGED vars
  <2>1. UNCHANGED <<req, resp_queue, sta_cfg, acked, reboots, scans, last>>
    BY <1>7 DEF Dispatch, Ignore, save_struct, OtherEvent, vars, HandlerFrame, TaskFrame, heap
  <2> QED BY <1>2, <2>1
<1>8. CASE StartScan
  <2>1. /\ UNCHANGED <<req, resp_queue, sta_cfg, acked, reboots, last>>
        /\ scans' = scans \union {evt} /\ evt.kind = "wifi_scan"
    BY <1>8 DEF StartScan, HandlerFrame, heap
  <2> QED BY <2>1 DEF ReadInv, Answered, Applied, ReadYourWrites
<1>9. CASE wifi_scan_task
  <2>1. PICK s \in scans : scans' = scans \ {s} /\ TaskFrame
    BY <1>9 DEF wifi_scan_task
  <2>2. s = req /\ s.kind = "wifi_scan"
    BY <2>1 DEF PromptInv, OneInFlight, ReadInv
  <2>3. UNCHANGED <<req, sta_cfg, acked, reboots, last>>
    BY <2>1 DEF TaskFrame
  <2> QED BY <2>1, <2>2, <2>3 DEF ReadInv, Applied, ReadYourWrites
<1>10. CASE save_returns
  <2>1. req' = NoRequest /\ scans' = {} /\ reboots' = reboots + 1 /\ reboots \in Nat
    BY <1>10 DEF save_returns, Reboot, TypeOK
  <2>2. ~Answered' /\ reboots' # 0
    BY <2>1 DEF Answered
  <2> QED BY <2>1, <2>2 DEF ReadInv, ReadYourWrites
<1> QED BY <1>5, <1>6, <1>7, <1>8, <1>9, <1>10 DEF Next, eventbus_task

\* Lemma: the invariant of what is read.
LEMMA ReadInvariant ==
    ASSUME BusKeepsUp, ScanKeepsUp
    PROVE  Spec => []ReadInv
<1>1. Init => ReadInv
  BY DEF Init, ReadInv, Answered, Applied, ReadYourWrites, Default
<1>2. Inv /\ PromptInv /\ ReadInv /\ [Next]_vars => ReadInv'
  BY ReadStep
<1> QED BY <1>1, <1>2, ApiInvariant, PromptInvariant, PTL DEF Spec

\* Theorem: under the same assumptions, and before the first reboot, a GET answered 200
\* shows exactly the last well-formed POST answered 200.
THEOREM ReadYourWritesCorrect ==
    ASSUME BusKeepsUp, ScanKeepsUp
    PROVE  Spec => []ReadYourWrites
<1>1. ReadInv => ReadYourWrites
  BY DEF ReadInv
<1> QED BY <1>1, ReadInvariant, PTL

-----------------------------------------------------------------------------
(* The service: each step is one of ApiService or leaves its variables alone. *)

\* Lemma: what the service sees of a request that is waited on.
LEMMA StagesOfRequest ==
    /\ req = NoRequest => CurrentRequest = Service!Idle
    /\ req # NoRequest /\ ~Answered =>
          CurrentRequest = [id |-> req.id, sort |-> SortOf(req.kind, req.valid),
                            stage |-> "waiting", shows |-> Default]
    /\ Answered =>
          CurrentRequest = [id |-> req.id, sort |-> SortOf(req.kind, req.valid),
                            stage |-> "served",
                            shows |-> IF SortOf(req.kind, req.valid) = "read"
                                      THEN Head(resp_queue[req.ctx]).shows ELSE Default]
BY DEF CurrentRequest, Answered, Service!Idle

\* Lemma: the same after a step.
LEMMA StagesOfNextRequest ==
    /\ req' = NoRequest => CurrentRequest' = Service!Idle
    /\ req' # NoRequest /\ ~Answered' =>
          CurrentRequest' = [id |-> req'.id, sort |-> SortOf(req'.kind, req'.valid),
                             stage |-> "waiting", shows |-> Default]
    /\ Answered' =>
          CurrentRequest' = [id |-> req'.id, sort |-> SortOf(req'.kind, req'.valid),
                             stage |-> "served",
                             shows |-> IF SortOf(req'.kind, req'.valid) = "read"
                                       THEN Head(resp_queue'[req'.ctx]).shows ELSE Default]
BY DEF CurrentRequest, Answered, Service!Idle

\* Lemma: a step that leaves these alone is none of the service.
LEMMA NotSeen ==
    ASSUME UNCHANGED <<req, resp_queue, sta_cfg, requests, last>>
    PROVE  UNCHANGED Service!vars
BY DEF Service!vars, CurrentRequest, LastResponse

\* Lemma: the answer of the request that is waited on is its instant.
LEMMA ServedInOneStep ==
    ASSUME Inv, req \in Requests, resp_queue[req.ctx] = << >>,
           NEW type \in AllKinds, NEW shown \in Int,
           Send(req.ctx, [type |-> type, id |-> req.id, shows |-> shown], CapacityAt(req.ctx)),
           UNCHANGED <<req, requests, last>>,
           sta_cfg' = IF req.kind = "sta_post" /\ req.valid THEN req.id ELSE sta_cfg,
           req.kind = "sta_get" => shown = sta_cfg
    PROVE  Service!Serve
<1> DEFINE answer == [type |-> type, id |-> req.id, shows |-> shown]
           sort == SortOf(req.kind, req.valid)
<1>1. req # NoRequest /\ answer \in Answers /\ answer.shows = shown
  BY KindsApart DEF Requests, Answers
<1>2. CapacityAt(req.ctx) \in {1, 2}
  BY CapacityInRange
<1>3. resp_queue'[req.ctx] # << >> /\ Head(resp_queue'[req.ctx]) = answer
  <2> HIDE DEF answer
  <2>1. Send(req.ctx, answer, CapacityAt(req.ctx))
    BY DEF answer
  <2> QED BY <1>1, <1>2, <2>1, FirstAnswerArrives DEF Inv
<1>4. ~Answered /\ Answered'
  BY <1>1, <1>3 DEF Answered
<1>5. /\ CurrentRequest = [id |-> req.id, sort |-> sort, stage |-> "waiting", shows |-> Default]
      /\ CurrentRequest' = [id |-> req.id, sort |-> sort, stage |-> "served",
                            shows |-> IF sort = "read" THEN shown ELSE Default]
  BY <1>1, <1>3, <1>4, StagesOfRequest, StagesOfNextRequest
<1>6. /\ sort = "read" <=> req.kind = "sta_get"
      /\ sort = "write" <=> req.kind = "sta_post" /\ req.valid
  BY DEF SortOf
<1>7. LastResponse' = LastResponse
  BY DEF LastResponse
<1>8. req.kind = "sta_get" => shown = sta_cfg
  OBVIOUS
<1> HIDE DEF sort
<1>9. CurrentRequest.stage = "waiting" /\ CurrentRequest.sort = sort /\ CurrentRequest.id = req.id
  BY <1>5
<1>10. sta_cfg' = IF CurrentRequest.sort = "write" THEN CurrentRequest.id ELSE sta_cfg
  BY <1>6, <1>9
<1>11. CurrentRequest' = [id |-> CurrentRequest.id, sort |-> CurrentRequest.sort,
                          stage |-> "served",
                          shows |-> IF CurrentRequest.sort = "read" THEN sta_cfg ELSE Default]
  BY <1>5, <1>6, <1>8, <1>9
<1> QED BY <1>7, <1>9, <1>10, <1>11 DEF Service!Serve

\* Lemma: while bus and scan keep up, every step of the API is one of the
\* service or is not seen by it.
LEMMA ServiceStep ==
    ASSUME Inv, PromptInv, ReadInv, [Next]_vars
    PROVE  Service!Next \/ UNCHANGED Service!vars
<1> USE DEF Inv
<1>1. ASSUME NEW kind \in AllKinds, NEW valid \in BOOLEAN, RequestWith(kind, valid)
      PROVE  \E sort \in Service!Sorts : Service!Arrive(sort)
  <2>1. PICK a \in Addr :
          /\ resp_queue' = [resp_queue EXCEPT ![a] = << >>]
          /\ req' = [kind |-> kind, id |-> requests', valid |-> valid, ctx |-> a]
    BY <1>1 DEF RequestWith
  <2>2. req = NoRequest /\ requests' = requests + 1 /\ UNCHANGED <<sta_cfg, last>>
    BY <1>1 DEF RequestWith
  <2>3. req' # NoRequest
    <3>1. req'.kind \in AllKinds
      BY <2>1
    <3> QED BY <3>1, KindsApart DEF IsRequest
  <2>4. ~Answered'
    BY <2>1 DEF Answered, TypeOK
  <2>5. CurrentRequest = Service!Idle
    BY <2>2, StagesOfRequest
  <2>6. CurrentRequest' = [id |-> requests', sort |-> SortOf(kind, valid),
                           stage |-> "waiting", shows |-> Default]
    BY <2>1, <2>3, <2>4, StagesOfNextRequest
  <2>7. SortOf(kind, valid) \in Service!Sorts
    BY DEF SortOf, Service!Sorts
  <2>8. LastResponse' = LastResponse
    BY <2>2 DEF LastResponse
  <2> QED BY <2>2, <2>5, <2>6, <2>7, <2>8 DEF Service!Arrive
<1>2. ASSUME handle_post_request_unread PROVE Service!Reject
  <2>1. PICK kind \in Posts :
          last' = [kind |-> kind, id |-> requests', status |-> "error", by |-> 0,
                   shows |-> Default, valid |-> FALSE]
    BY <1>2 DEF handle_post_request_unread
  <2>2. /\ req = NoRequest /\ requests' = requests + 1
        /\ UNCHANGED <<req, resp_queue, sta_cfg>>
    BY <1>2 DEF handle_post_request_unread, heap
  <2>3. SortOf(kind, FALSE) = "other"
    BY DEF SortOf, Posts
  <2>4. LastResponse' = Service!Silent(requests', "other")
    BY <2>1, <2>3 DEF LastResponse, Service!Silent
  <2>5. CurrentRequest = Service!Idle /\ CurrentRequest' = CurrentRequest
    BY <2>2, StagesOfRequest, StagesOfNextRequest
  <2> QED BY <2>2, <2>4, <2>5 DEF Service!Reject
<1>3. ASSUME ReceiveAnswer PROVE Service!Respond
  <2> DEFINE answer == Head(resp_queue[req.ctx])
             sort == SortOf(req.kind, req.valid)
  <2>1. PICK status \in {"ok", "error"} :
          /\ Respond(status, answer)
          /\ status = "ok" <=> answer.type = req.kind
    BY <1>3 DEF ReceiveAnswer
  <2>2. Answered
    BY <1>3 DEF ReceiveAnswer, Answered
  <2>3. answer.id = req.id
    BY <2>2 DEF Answered, PromptInv, AnswerIsOwn
  <2>4. sort # "other" => req.kind \in {"sta_get", "sta_post"}
    BY DEF SortOf
  <2>5. sort # "other" => status = "ok"
    BY <2>1, <2>2, <2>4 DEF ReadInv
  <2>6. /\ last' = [kind |-> req.kind, id |-> req.id, status |-> status, by |-> answer.id,
                    shows |-> answer.shows, valid |-> req.valid]
        /\ req' = NoRequest /\ UNCHANGED <<sta_cfg, requests>>
    BY <2>1 DEF Respond
  <2>7. CurrentRequest = [id |-> req.id, sort |-> sort, stage |-> "served",
                          shows |-> IF sort = "read" THEN answer.shows ELSE Default]
    BY <2>2, StagesOfRequest
  <2>8. LastResponse' = [id |-> req.id, sort |-> sort, status |-> status, by |-> req.id,
                         shows |-> IF sort = "read" THEN answer.shows ELSE Default]
    BY <2>3, <2>6 DEF LastResponse
  <2>9. CurrentRequest' = Service!Idle
    BY <2>6, StagesOfNextRequest
  <2> HIDE DEF answer, sort
  <2> QED BY <2>5, <2>6, <2>7, <2>8, <2>9 DEF Service!Respond
<1>4. ASSUME Timeout PROVE Service!GiveUp
  <2> DEFINE sort == SortOf(req.kind, req.valid)
  <2>1. req # NoRequest /\ ~Answered /\ Respond("error", Silence)
    BY <1>4 DEF Timeout, Answered
  <2>2. /\ last' = [kind |-> req.kind, id |-> req.id, status |-> "error", by |-> 0,
                    shows |-> Default, valid |-> req.valid]
        /\ req' = NoRequest /\ UNCHANGED <<sta_cfg, requests>>
    BY <2>1 DEF Respond, Silence
  <2>3. CurrentRequest = [id |-> req.id, sort |-> sort, stage |-> "waiting", shows |-> Default]
    BY <2>1, StagesOfRequest
  <2>4. LastResponse' = Service!Silent(req.id, sort)
    BY <2>2 DEF LastResponse, Service!Silent
  <2>5. CurrentRequest' = Service!Idle
    BY <2>2, StagesOfNextRequest
  <2> HIDE DEF sort
  <2> QED BY <2>2, <2>3, <2>4, <2>5 DEF Service!GiveUp
<1>5. CASE httpd
  <2>1. CASE emit_event_and_wait_response \/ handle_post_request
    BY <1>1, <2>1, ApiAssumption DEF emit_event_and_wait_response, handle_post_request, Service!Next
  <2> QED BY <1>2, <1>3, <1>4, <1>5, <2>1 DEF httpd, Service!Next
<1>6. ASSUME AnswerGet \/ PostSta \/ PostAp \/ PostMqtt PROVE Service!Serve
  <2>1. IsRequest(evt)
    BY <1>6 DEF AnswerGet, PostSta, PostAp, PostMqtt, IsRequest, AllKinds, Posts
  <2>2. evt = req
    BY <2>1 DEF PromptInv, OneInFlight
  <2>3. req \in Requests /\ req # NoRequest
    BY <2>1, <2>2, KindsApart DEF TypeOK
  <2>4. resp_queue[req.ctx] = << >>
    BY <2>1, <2>3 DEF PromptInv, AnswerIsOwn
  <2>5. UNCHANGED <<req, requests, last>>
    BY <1>6 DEF AnswerGet, PostSta, PostAp, PostMqtt, HandlerFrame
  <2>6. sta_cfg' = IF req.kind = "sta_post" /\ req.valid THEN req.id ELSE sta_cfg
    BY <1>6, <2>2 DEF AnswerGet, PostSta, PostAp, PostMqtt, Gets
  <2>7. sta_cfg' \in Int
    BY <2>3, <2>6 DEF TypeOK, Requests, Mangled
  <2>8. PICK type \in AllKinds : Answer(type)
    BY <1>6 DEF AnswerGet, PostSta, PostAp, PostMqtt, AllKinds, Gets, Posts
  <2>9. Send(req.ctx, [type |-> type, id |-> req.id, shows |-> sta_cfg'], CapacityAt(req.ctx))
    BY <2>2, <2>8 DEF Answer
  <2>10. req.kind = "sta_get" => sta_cfg' = sta_cfg
    BY <2>6
  <2> QED BY <2>3, <2>4, <2>5, <2>6, <2>7, <2>9, <2>10, ServedInOneStep
<1>7. ASSUME wifi_scan_task PROVE Service!Serve \/ UNCHANGED Service!vars
  <2>1. PICK s \in scans :
          /\ \/ UNCHANGED heap
             \/ Send(s.ctx, [type |-> "wifi_scan", id |-> s.id, shows |-> Default],
                     CapacityAt(s.ctx))
          /\ TaskFrame
    BY <1>7 DEF wifi_scan_task
  <2>2. s = req /\ req.kind = "wifi_scan"
    BY <2>1 DEF PromptInv, OneInFlight, ReadInv
  <2>3. req \in Requests /\ req # NoRequest /\ resp_queue[req.ctx] = << >>
    BY <2>1, <2>2, KindsApart DEF TypeOK, PromptInv, AnswerIsOwn
  <2>4. UNCHANGED <<req, sta_cfg, requests, last>>
    BY <2>1 DEF TaskFrame
  <2>5. CASE UNCHANGED heap
    BY <2>4, <2>5, NotSeen DEF heap
  <2>6. CASE Send(req.ctx, [type |-> "wifi_scan", id |-> req.id, shows |-> Default],
                  CapacityAt(req.ctx))
    BY <2>2, <2>3, <2>4, <2>6, ServedInOneStep DEF AllKinds, Default
  <2> QED BY <2>1, <2>2, <2>5, <2>6
<1>8. ASSUME save_returns PROVE Service!Restart
  <2>1. req' = NoRequest /\ sta_cfg' \in {Default, Mangled} /\ UNCHANGED <<requests, last>>
    BY <1>8 DEF save_returns, Reboot
  <2>2. CurrentRequest' = Service!Idle /\ LastResponse' = LastResponse
    BY <2>1, StagesOfNextRequest DEF LastResponse
  <2> QED BY <2>1, <2>2 DEF Service!Restart
<1>9. CASE Dispatch \/ StartScan \/ Ignore \/ save_struct \/ OtherEvent \/ UNCHANGED vars
  <2>1. UNCHANGED <<req, resp_queue, sta_cfg, requests, last>>
    BY <1>9 DEF Dispatch, StartScan, Ignore, save_struct, OtherEvent, vars, HandlerFrame,
                TaskFrame, heap
  <2> QED BY <2>1, NotSeen
<1> QED BY <1>5, <1>6, <1>7, <1>8, <1>9 DEF Next, eventbus_task, Service!Next

\* Theorem: if the bus answers within 200 ms and a scan ends within 5 s, the API
\* implements the service: each request takes effect and is answered in one
\* instant, or never does, though it goes through a bounded queue that drops, a bus
\* that other modules use, tasks and response queues whose memory is used again.
THEOREM ImplementsServiceCorrect ==
    ASSUME BusKeepsUp, ScanKeepsUp
    PROVE  Spec => ImplementsService
<1>1. Init => Service!Init
  BY DEF Init, Service!Init, Service!Idle, Service!Silent, CurrentRequest, LastResponse, SortOf
<1>2. Inv /\ PromptInv /\ ReadInv /\ [Next]_vars => [Service!Next]_(Service!vars)
  BY ServiceStep
<1> QED BY <1>1, <1>2, ApiInvariant, PromptInvariant, ReadInvariant, PTL
        DEF Spec, ImplementsService, Service!Spec

=============================================================================
