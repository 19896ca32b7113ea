--------------------------- MODULE EventBusProofs ---------------------------
(***************************************************************************)
(* Machine-checked proofs about EventBus for every QUEUE_LEN, every set of  *)
(* callbacks and every number of registrations and emit calls.              *)
(***************************************************************************)
EXTENDS EventBus, SequenceTheorems, TLAPS

\* The mutex belongs to the bus task exactly while it dispatches.
MutexHeldInDispatch == sub_mutex = IF pc = "dispatch" THEN "bus" ELSE "free"

\* The static Event in hand is the oldest accepted one not yet finished.
EvtInHand ==
    pc # "receive" => /\ finished < Len(accepted)
                      /\ evt = accepted[finished + 1]

\* The inductive invariant.
Inv ==
    /\ TypeOK
    /\ MutexHeldInDispatch
    /\ EvtInHand
    /\ QueueIsBacklog
    /\ DeliveredInOrder
    /\ Lockstep

-----------------------------------------------------------------------------
\* Lemma: appending keeps the earlier elements of a sequence where they are.
LEMMA AppendKeeps ==
    ASSUME NEW S, NEW s \in Seq(S), NEW e \in S
    PROVE  /\ Append(s, e) \in Seq(S)
           /\ Len(Append(s, e)) = Len(s) + 1
           /\ \A j \in 1 .. Len(s) : Append(s, e)[j] = s[j]
           /\ Append(s, e)[Len(s) + 1] = e
BY AppendProperties

\* Lemma: what emit leaves behind.  Only the back of the queue and of the log
\* of accepted events may change, and both by the same event or by none.
LEMMA EmitEffect ==
    ASSUME TypeOK, QueueIsBacklog, Emit, pc' = pc, finished' = finished
    PROVE  /\ evt_queue' \in Seq(Nat) /\ Len(evt_queue') <= QUEUE_LEN
           /\ emitted' \in Nat
           /\ accepted' \in Seq(Nat)
           /\ Len(accepted) <= Len(accepted')
           /\ \A j \in 1 .. Len(accepted) : accepted'[j] = accepted[j]
           /\ QueueIsBacklog'
<1> USE QueueLenAssumption, BusAssumption
<1>1. emitted' \in Nat
  BY DEF Emit, TypeOK
<1>2. CASE HasRoom(evt_queue)
  <2>1. evt_queue' = Append(evt_queue, emitted') /\ accepted' = Append(accepted, emitted')
    BY <1>2 DEF Emit, Offer
  <2> DEFINE q == Append(evt_queue, emitted')
             a == Append(accepted, emitted')
  <2>2. /\ q \in Seq(Nat) /\ Len(q) = Len(evt_queue) + 1
        /\ \A j \in 1 .. Len(evt_queue) : q[j] = evt_queue[j]
        /\ q[Len(evt_queue) + 1] = emitted'
    BY <1>1, AppendKeeps DEF TypeOK
  <2>3. /\ a \in Seq(Nat) /\ Len(a) = Len(accepted) + 1
        /\ \A j \in 1 .. Len(accepted) : a[j] = accepted[j]
        /\ a[Len(accepted) + 1] = emitted'
    BY <1>1, AppendKeeps DEF TypeOK
  <2>4. Taken' = Taken /\ Taken \in Nat /\ Len(evt_queue) \in Nat /\ Len(accepted) \in Nat
    BY LenProperties DEF Taken, TypeOK
  <2>5. Len(a) = Taken + Len(q) /\ \A j \in 1 .. Len(q) : q[j] = a[Taken + j]
    <3> HIDE DEF q, a, Taken
    <3>1. Len(a) = Taken + Len(q) /\ Len(accepted) = Taken + Len(evt_queue)
      BY <2>2, <2>3, <2>4 DEF QueueIsBacklog
    <3>2. ASSUME NEW j \in 1 .. Len(q) PROVE q[j] = a[Taken + j]
      <4>1. CASE j = Len(evt_queue) + 1
        <5>1. Taken + j = Len(accepted) + 1
          BY <3>1, <4>1, <2>4
        <5> QED BY <5>1, <4>1, <2>2, <2>3
      <4>2. CASE j # Len(evt_queue) + 1
        <5>1. j \in 1 .. Len(evt_queue) /\ Taken + j \in 1 .. Len(accepted)
          BY <3>1, <4>2, <2>2, <2>4
        <5>2. evt_queue[j] = accepted[Taken + j]
          BY <5>1 DEF QueueIsBacklog
        <5> QED BY <5>1, <5>2, <2>2, <2>3
      <4> QED BY <4>1, <4>2
    <3> QED BY <3>1, <3>2
  <2>6. Len(q) <= QUEUE_LEN
    <3> HIDE DEF q
    <3> QED BY <1>2, <2>2, <2>4 DEF HasRoom
  <2> HIDE DEF q, a
  <2>7. evt_queue' = q /\ accepted' = a
    BY <2>1 DEF q, a
  <2> QED
    BY <1>1, <2>2, <2>3, <2>4, <2>5, <2>6, <2>7 DEF QueueIsBacklog
<1>3. CASE ~HasRoom(evt_queue)
  BY <1>1, <1>3 DEF Emit, Offer, TypeOK, QueueIsBacklog, Taken
<1> QED BY <1>2, <1>3

\* Lemma: a longer log of accepted events leaves what it says of the earlier
\* ones, so what has been delivered and what is in hand stay explained.
LEMMA LongerLog ==
    ASSUME Inv, evt' = evt, pc' = pc, finished' = finished, seen' = seen, from' = from,
           cursor' = cursor,
           accepted' \in Seq(Nat), Len(accepted) <= Len(accepted'),
           \A j \in 1 .. Len(accepted) : accepted'[j] = accepted[j]
    PROVE  EvtInHand' /\ DeliveredInOrder' /\ Lockstep'
<1>1. EvtInHand'
  <2>1. Len(accepted) \in Nat /\ Len(accepted') \in Nat /\ finished \in Nat
    BY LenProperties DEF Inv, TypeOK
  <2> SUFFICES ASSUME pc # "receive"
               PROVE  finished < Len(accepted') /\ evt = accepted'[finished + 1]
    BY DEF EvtInHand
  <2>2. finished < Len(accepted) /\ evt = accepted[finished + 1]
    BY DEF Inv, EvtInHand
  <2>3. finished + 1 \in 1 .. Len(accepted)
    BY <2>1, <2>2
  <2> QED BY <2>1, <2>2, <2>3
<1>2. DeliveredInOrder'
  <2> SUFFICES ASSUME NEW k \in DOMAIN seen
               PROVE  /\ Reached(k) <= Len(accepted')
                      /\ \A j \in 1 .. Len(seen[k]) : seen[k][j] = accepted'[from[k] + j]
    BY DEF DeliveredInOrder, Reached
  <2>1. /\ Reached(k) <= Len(accepted)
        /\ \A j \in 1 .. Len(seen[k]) : seen[k][j] = accepted[from[k] + j]
    BY DEF Inv, DeliveredInOrder
  <2>2. from[k] \in Nat /\ Len(seen[k]) \in Nat /\ Len(accepted) \in Nat /\ Len(accepted') \in Nat
    BY LenProperties DEF Inv, TypeOK
  <2>3. Reached(k) <= Len(accepted')
    BY <2>1, <2>2 DEF Reached
  <2>4. ASSUME NEW j \in 1 .. Len(seen[k]) PROVE seen[k][j] = accepted'[from[k] + j]
    <3>1. from[k] + j \in 1 .. Len(accepted)
      BY <2>1, <2>2 DEF Reached
    <3> QED BY <2>1, <3>1
  <2> QED BY <2>3, <2>4
<1>3. Lockstep'
  BY DEF Inv, Lockstep, Reached
<1> QED BY <1>1, <1>2, <1>3

-----------------------------------------------------------------------------
\* Lemma: the bus starts in the invariant.
LEMMA InitInv == Init => Inv
<1> SUFFICES ASSUME Init PROVE Inv
  OBVIOUS
<1> USE QueueLenAssumption, EmptySeq DEF Init
<1>1. TypeOK
  BY DEF TypeOK
<1>2. MutexHeldInDispatch /\ EvtInHand /\ QueueIsBacklog
  BY DEF MutexHeldInDispatch, EvtInHand, QueueIsBacklog, Taken
<1>3. DeliveredInOrder /\ Lockstep
  BY DEF DeliveredInOrder, Lockstep
<1> QED BY <1>1, <1>2, <1>3 DEF Inv

\* Lemma: a registration opens an empty run at the first unfinished event.
LEMMA SubscribeInv ==
    ASSUME Inv, NEW c \in Callbacks, Subscribe(c)
    PROVE  Inv'
<1> USE DEF Inv
<1>1. /\ Len(subscribers) \in Nat /\ Len(accepted) \in Nat /\ finished \in Nat
      /\ Len(seen) = Len(subscribers) /\ Len(from) = Len(subscribers)
  BY LenProperties DEF TypeOK
<1>2. /\ subscribers' \in Seq(Callbacks) /\ Len(subscribers') = Len(subscribers) + 1
  BY AppendKeeps DEF Subscribe, TypeOK
<1>3. /\ seen' \in Seq(Seq(Nat)) /\ Len(seen') = Len(seen) + 1
      /\ \A k \in 1 .. Len(seen) : seen'[k] = seen[k]
      /\ seen'[Len(seen) + 1] = << >>
  BY AppendKeeps, EmptySeq DEF Subscribe, TypeOK
<1>4. /\ from' \in Seq(Nat) /\ Len(from') = Len(from) + 1
      /\ \A k \in 1 .. Len(from) : from'[k] = from[k]
      /\ from'[Len(from) + 1] = finished
  BY AppendKeeps DEF Subscribe, TypeOK
<1>5. TypeOK'
  BY <1>1, <1>2, <1>3, <1>4 DEF TypeOK, Subscribe
<1>6. MutexHeldInDispatch' /\ EvtInHand' /\ QueueIsBacklog'
  BY DEF Subscribe, MutexHeldInDispatch, EvtInHand, QueueIsBacklog, Taken
<1>7. pc # "dispatch" /\ finished <= Len(accepted)
  BY <1>1, LenProperties DEF Subscribe, MutexHeldInDispatch, QueueIsBacklog, Taken, TypeOK
<1>8. DOMAIN seen = 1 .. Len(seen) /\ DOMAIN seen' = 1 .. Len(seen) + 1
  BY <1>3, LenProperties DEF TypeOK
<1>9. ASSUME NEW k \in DOMAIN seen'
      PROVE  \/ k \in DOMAIN seen /\ seen'[k] = seen[k] /\ from'[k] = from[k]
             \/ seen'[k] = << >> /\ from'[k] = finished
  <2>1. CASE k = Len(seen) + 1
    BY <1>1, <1>3, <1>4, <2>1
  <2>2. CASE k # Len(seen) + 1
    <3>1. k \in 1 .. Len(seen) /\ k \in 1 .. Len(from)
      BY <1>1, <1>8, <2>2
    <3> QED BY <1>3, <1>4, <1>8, <3>1
  <2> QED BY <2>1, <2>2
<1>10. DeliveredInOrder'
  BY <1>1, <1>7, <1>9 DEF DeliveredInOrder, Reached, Subscribe
<1>11. Lockstep'
  BY <1>1, <1>7, <1>9 DEF Lockstep, Reached, Subscribe
<1> QED BY <1>5, <1>6, <1>10, <1>11

\* Lemma: an emit by a task touches the back of the queue only.
LEMMA TaskEmitInv == Inv /\ TaskEmit => Inv'
<1> SUFFICES ASSUME Inv, TaskEmit PROVE Inv'
  OBVIOUS
<1>1. /\ evt_queue' \in Seq(Nat) /\ Len(evt_queue') <= QUEUE_LEN
      /\ emitted' \in Nat
      /\ accepted' \in Seq(Nat)
      /\ Len(accepted) <= Len(accepted')
      /\ \A j \in 1 .. Len(accepted) : accepted'[j] = accepted[j]
      /\ QueueIsBacklog'
  BY EmitEffect DEF Inv, TaskEmit
<1>2. EvtInHand' /\ DeliveredInOrder' /\ Lockstep'
  BY <1>1, LongerLog DEF TaskEmit
<1>3. TypeOK' /\ MutexHeldInDispatch'
  BY <1>1 DEF TaskEmit, Inv, TypeOK, MutexHeldInDispatch
<1> QED BY <1>1, <1>2, <1>3 DEF Inv

\* Lemma: the event received is the oldest accepted one nobody has had.
LEMMA ReceiveInv == Inv /\ Receive => Inv'
<1> SUFFICES ASSUME Inv, Receive PROVE Inv'
  OBVIOUS
<1> USE DEF Inv, Receive
<1>1. /\ Len(evt_queue) \in Nat \ {0} /\ Len(accepted) \in Nat /\ finished \in Nat
      /\ Taken = finished /\ Taken' = finished + 1
  BY EmptySeq, LenProperties DEF TypeOK, Taken
<1>2. /\ evt' = evt_queue[1] /\ evt' \in Nat
      /\ evt_queue' \in Seq(Nat) /\ Len(evt_queue') = Len(evt_queue) - 1
      /\ \A j \in 1 .. Len(evt_queue') : evt_queue'[j] = evt_queue[j + 1]
  BY <1>1, HeadTailProperties DEF TypeOK
<1>3. evt' = accepted[finished + 1] /\ finished < Len(accepted)
  BY <1>1, <1>2 DEF QueueIsBacklog
<1>4. TypeOK'
  BY <1>1, <1>2, QueueLenAssumption DEF TypeOK
<1>5. QueueIsBacklog'
  <2>1. Len(accepted') = Taken' + Len(evt_queue')
    BY <1>1, <1>2 DEF QueueIsBacklog
  <2>2. ASSUME NEW j \in 1 .. Len(evt_queue') PROVE evt_queue'[j] = accepted'[Taken' + j]
    <3>1. j + 1 \in 1 .. Len(evt_queue) /\ Taken + (j + 1) = Taken' + j
      BY <1>1, <1>2
    <3>2. evt_queue[j + 1] = accepted[Taken + (j + 1)]
      BY <3>1 DEF QueueIsBacklog
    <3> QED BY <1>2, <3>1, <3>2
  <2> QED BY <2>1, <2>2 DEF QueueIsBacklog
<1>6. MutexHeldInDispatch' /\ EvtInHand'
  BY <1>3 DEF MutexHeldInDispatch, EvtInHand
<1>7. DeliveredInOrder' /\ Lockstep'
  BY DEF DeliveredInOrder, Lockstep, Reached
<1> QED BY <1>4, <1>5, <1>6, <1>7

\* Lemma: taking the mutex opens a dispatch that nobody has begun to hear.
LEMMA LockInv == Inv /\ Lock => Inv'
<1> SUFFICES ASSUME Inv, Lock PROVE Inv'
  OBVIOUS
<1> USE DEF Inv, Lock
<1>1. TypeOK'
  BY LenProperties DEF TypeOK
<1>2. MutexHeldInDispatch' /\ EvtInHand' /\ QueueIsBacklog' /\ DeliveredInOrder'
  BY DEF MutexHeldInDispatch, EvtInHand, QueueIsBacklog, DeliveredInOrder, Taken, Reached
<1>3. Lockstep'
  BY LenProperties DEF Lockstep, Reached, TypeOK
<1> QED BY <1>1, <1>2, <1>3

\* Lemma: a call extends the run of the registration under the cursor by the
\* event in hand, and what the callback emits goes behind everything accepted.
LEMMA CallbackInv == Inv /\ Callback => Inv'
<1> SUFFICES ASSUME Inv, Callback PROVE Inv'
  OBVIOUS
<1>1. /\ cursor \in 1 .. Len(seen) /\ Len(seen) \in Nat /\ Len(seen) = Len(from)
      /\ DOMAIN seen = 1 .. Len(seen) /\ finished \in Nat /\ Len(accepted) \in Nat
      /\ pc = "dispatch" /\ evt \in Nat
  BY LenProperties DEF Inv, TypeOK, Callback
<1>2. /\ evt_queue' \in Seq(Nat) /\ Len(evt_queue') <= QUEUE_LEN
      /\ emitted' \in Nat
      /\ accepted' \in Seq(Nat) /\ Len(accepted') \in Nat
      /\ Len(accepted) <= Len(accepted')
      /\ \A j \in 1 .. Len(accepted) : accepted'[j] = accepted[j]
      /\ QueueIsBacklog'
  <2>1. CASE UNCHANGED <<evt_queue, emitted, accepted>>
    BY <1>1, <2>1 DEF Inv, TypeOK, Callback, QueueIsBacklog, Taken
  <2>2. CASE Emit
    BY <2>2, EmitEffect, LenProperties DEF Inv, Callback
  <2> QED BY <2>1, <2>2 DEF Callback
<1>3. \A k \in 1 .. Len(seen) : from[k] \in Nat /\ Len(seen[k]) \in Nat /\ seen[k] \in Seq(Nat)
  BY <1>1, LenProperties DEF Inv, TypeOK
<1>4. /\ seen' \in Seq(Seq(Nat)) /\ Len(seen') = Len(seen) /\ DOMAIN seen' = DOMAIN seen
      /\ seen'[cursor] = Append(seen[cursor], evt)
      /\ \A k \in 1 .. Len(seen) : k # cursor => seen'[k] = seen[k]
  <2>1. Append(seen[cursor], evt) \in Seq(Nat)
    BY <1>1, <1>3, AppendKeeps
  <2>2. seen' = [seen EXCEPT ![cursor] = Append(seen[cursor], evt)]
    BY DEF Callback
  <2> HIDE DEF Callback
  <2> QED BY <1>1, <2>1, <2>2, ExceptSeq DEF Inv, TypeOK
<1>5. /\ Len(seen'[cursor]) = Len(seen[cursor]) + 1
      /\ seen'[cursor][Len(seen[cursor]) + 1] = evt
      /\ \A j \in 1 .. Len(seen[cursor]) : seen'[cursor][j] = seen[cursor][j]
  BY <1>1, <1>3, <1>4, AppendKeeps
<1>6. /\ from' = from /\ cursor' = cursor + 1 /\ pc' = pc /\ evt' = evt
      /\ finished' = finished /\ subscribers' = subscribers /\ sub_mutex' = sub_mutex
  BY DEF Callback
<1>7. /\ finished < Len(accepted) /\ evt = accepted[finished + 1]
      /\ evt = accepted'[finished + 1] /\ finished < Len(accepted')
  <2>1. finished < Len(accepted) /\ evt = accepted[finished + 1]
    BY <1>1 DEF Inv, EvtInHand
  <2>2. finished + 1 \in 1 .. Len(accepted)
    BY <1>1, <2>1
  <2> QED BY <1>1, <1>2, <2>1, <2>2
<1>8. from[cursor] + Len(seen[cursor]) = finished
  BY <1>1 DEF Inv, Lockstep, Reached
<1>9. TypeOK'
  BY <1>1, <1>2, <1>4, <1>6 DEF Inv, TypeOK
<1>10. MutexHeldInDispatch' /\ EvtInHand'
  BY <1>6, <1>7 DEF Inv, MutexHeldInDispatch, EvtInHand
<1>11. DeliveredInOrder'
  <2> SUFFICES ASSUME NEW k \in 1 .. Len(seen)
               PROVE  /\ from[k] + Len(seen'[k]) <= Len(accepted')
                      /\ \A j \in 1 .. Len(seen'[k]) : seen'[k][j] = accepted'[from[k] + j]
    BY <1>1, <1>4, <1>6 DEF DeliveredInOrder, Reached
  <2>1. /\ from[k] + Len(seen[k]) <= Len(accepted)
        /\ \A j \in 1 .. Len(seen[k]) : seen[k][j] = accepted[from[k] + j]
    BY <1>1 DEF Inv, DeliveredInOrder, Reached
  <2>2. from[k] \in Nat /\ Len(seen[k]) \in Nat
    BY <1>3
  <2>3. \A j \in 1 .. Len(seen[k]) : seen[k][j] = accepted'[from[k] + j]
    <3> SUFFICES ASSUME NEW j \in 1 .. Len(seen[k])
                 PROVE  seen[k][j] = accepted'[from[k] + j]
      OBVIOUS
    <3>1. from[k] + j \in 1 .. Len(accepted)
      BY <1>1, <2>1, <2>2
    <3> QED BY <1>2, <2>1, <3>1
  <2>4. CASE k = cursor
    <3>1. from[k] + (Len(seen[k]) + 1) = finished + 1
      BY <1>1, <1>8, <2>2, <2>4
    <3>2. from[k] + Len(seen'[k]) <= Len(accepted')
      BY <1>1, <1>2, <1>5, <1>7, <2>4, <3>1
    <3>3. ASSUME NEW j \in 1 .. Len(seen'[k]) PROVE seen'[k][j] = accepted'[from[k] + j]
      <4>1. CASE j = Len(seen[k]) + 1
        BY <1>5, <1>7, <2>4, <3>1, <4>1
      <4>2. CASE j # Len(seen[k]) + 1
        <5>1. j \in 1 .. Len(seen[k])
          BY <1>5, <2>2, <2>4, <4>2
        <5> QED BY <1>5, <2>3, <2>4, <5>1
      <4> QED BY <4>1, <4>2
    <3> QED BY <3>2, <3>3
  <2>5. CASE k # cursor
    <3>1. seen'[k] = seen[k]
      BY <1>4, <2>5
    <3>2. from[k] + Len(seen[k]) <= Len(accepted')
      BY <1>1, <1>2, <2>1, <2>2
    <3> QED BY <2>3, <3>1, <3>2
  <2> QED BY <2>4, <2>5
<1>12. Lockstep'
  <2> SUFFICES ASSUME NEW k \in 1 .. Len(seen)
               PROVE  from[k] + Len(seen'[k]) = IF k < cursor + 1 THEN finished + 1 ELSE finished
    BY <1>1, <1>4, <1>6 DEF Lockstep, Reached
  <2>1. from[k] + Len(seen[k]) = IF k < cursor THEN finished + 1 ELSE finished
    BY <1>1 DEF Inv, Lockstep, Reached
  <2>2. CASE k = cursor
    BY <1>1, <1>3, <1>5, <1>8, <2>2
  <2>3. CASE k # cursor
    BY <1>1, <1>4, <2>1, <2>3
  <2> QED BY <2>2, <2>3
<1> QED BY <1>2, <1>9, <1>10, <1>11, <1>12 DEF Inv

\* Lemma: the dispatch ends when everybody has had the event in hand.
LEMMA UnlockInv == Inv /\ Unlock => Inv'
<1> SUFFICES ASSUME Inv, Unlock PROVE Inv'
  OBVIOUS
<1> USE DEF Inv, Unlock
<1>1. /\ Len(seen) \in Nat /\ DOMAIN seen = 1 .. Len(seen) /\ cursor > Len(seen)
      /\ cursor \in Nat /\ finished \in Nat
  BY LenProperties DEF TypeOK
<1>2. TypeOK' /\ MutexHeldInDispatch' /\ EvtInHand'
  BY DEF TypeOK, MutexHeldInDispatch, EvtInHand
<1>3. QueueIsBacklog' /\ DeliveredInOrder'
  BY DEF QueueIsBacklog, Taken, DeliveredInOrder, Reached
<1>4. Lockstep'
  BY <1>1 DEF Lockstep, Reached
<1> QED BY <1>2, <1>3, <1>4

-----------------------------------------------------------------------------
\* Theorem: the invariant, and with it the type invariant, the order of
\* delivery and the lockstep of the subscribers, holds of every bus.
THEOREM BusInvariant == Spec => []Inv
<1>1. Init => Inv
  BY InitInv
<1>2. Inv /\ [Next]_vars => Inv'
  <2> SUFFICES ASSUME Inv, [Next]_vars PROVE Inv'
    OBVIOUS
  <2>1. ASSUME NEW c \in Callbacks, Subscribe(c) PROVE Inv'
    BY <2>1, SubscribeInv
  <2>2. CASE TaskEmit
    BY <2>2, TaskEmitInv
  <2>3. CASE Receive
    BY <2>3, ReceiveInv
  <2>4. CASE Lock
    BY <2>4, LockInv
  <2>5. CASE Callback
    BY <2>5, CallbackInv
  <2>6. CASE Unlock
    BY <2>6, UnlockInv
  <2>7. CASE UNCHANGED vars
    BY <2>7 DEF vars, Inv, TypeOK, MutexHeldInDispatch, EvtInHand, QueueIsBacklog,
                DeliveredInOrder, Lockstep, Taken, Reached
  <2> QED BY <2>1, <2>2, <2>3, <2>4, <2>5, <2>6, <2>7 DEF Next, eventbus_task
<1> QED BY <1>1, <1>2, PTL DEF Spec

\* Theorem: the variables of the bus stay in their types; in particular the
\* queue never holds more than QUEUE_LEN events.
THEOREM TypeCorrect == Spec => []TypeOK
<1>1. Inv => TypeOK
  BY DEF Inv
<1> QED BY <1>1, BusInvariant, PTL

\* Theorem: what the queue holds is the accepted events not yet received.
THEOREM BacklogCorrect == Spec => []QueueIsBacklog
<1>1. Inv => QueueIsBacklog
  BY DEF Inv
<1> QED BY <1>1, BusInvariant, PTL

\* Theorem: every registration hears a contiguous, ordered run of the events.
THEOREM DeliveryCorrect == Spec => []DeliveredInOrder
<1>1. Inv => DeliveredInOrder
  BY DEF Inv
<1> QED BY <1>1, BusInvariant, PTL

\* Theorem: no registration runs ahead of another by more than the event in
\* hand.
THEOREM LockstepCorrect == Spec => []Lockstep
<1>1. Inv => Lockstep
  BY DEF Inv
<1> QED BY <1>1, BusInvariant, PTL

\* Theorem: the vector of subscribers stands still while it is iterated over.
THEOREM ListStillCorrect == Spec => ListStillInDispatch
<1>1. Inv /\ [Next]_vars => (pc = "dispatch" => subscribers' = subscribers)
  <2> SUFFICES ASSUME Inv, [Next]_vars, pc = "dispatch"
               PROVE  subscribers' = subscribers
    OBVIOUS
  <2>1. sub_mutex = "bus"
    BY DEF Inv, MutexHeldInDispatch
  <2> QED
    BY <2>1 DEF Next, Subscribe, TaskEmit, eventbus_task, Receive, Lock, Callback, Unlock, vars
<1> QED BY <1>1, BusInvariant, PTL DEF Spec, ListStillInDispatch

-----------------------------------------------------------------------------
\* Theorem: queue, mutex and task together are a broadcast in lockstep; every
\* step of the bus is a step of Broadcast or leaves its variables alone.
THEOREM BusImplementsBroadcast == Spec => Abs!SafeSpec
<1>1. Init => Abs!Init
  BY DEF Init, Abs!Init
<1>2. Inv /\ [Next]_vars => [Abs!Next]_(Abs!vars)
  <2> SUFFICES ASSUME Inv, [Next]_vars PROVE Abs!Next \/ UNCHANGED Abs!vars
    BY DEF Abs!vars
  <2>1. /\ Len(seen) \in Nat /\ DOMAIN seen = 1 .. Len(seen) /\ finished \in Nat
        /\ Len(accepted) \in Nat /\ emitted \in Nat /\ Len(seen) = Len(subscribers)
    BY LenProperties DEF Inv, TypeOK
  <2>2. ASSUME Emit
        PROVE  accepted' = accepted \/ \E e \in 1 .. MaxEmits : accepted' = Append(accepted, e)
    <3>1. emitted' \in 1 .. MaxEmits
      BY <2>1, <2>2, BusAssumption DEF Emit
    <3> QED BY <2>2, <3>1 DEF Emit
  <2>3. ASSUME NEW c \in Callbacks, Subscribe(c) PROVE Abs!Join
    <3>1. pc # "dispatch"
      BY <2>3 DEF Subscribe, Inv, MutexHeldInDispatch
    <3>2. \A k \in DOMAIN seen : from[k] + Len(seen[k]) = finished
      BY <3>1 DEF Inv, Lockstep, Reached
    <3> QED BY <2>3, <3>2 DEF Subscribe, Abs!Join, Abs!Has, Abs!Subscriber
  <2>4. CASE TaskEmit
    BY <2>2, <2>4 DEF TaskEmit, Abs!Next, Abs!Accept, Abs!vars
  <2>5. CASE Receive \/ Lock
    BY <2>5 DEF Receive, Lock, Abs!vars
  <2>6. ASSUME Callback PROVE cursor \in Abs!Subscriber /\ Abs!Deliver(cursor)
    <3>1. pc = "dispatch" /\ cursor \in 1 .. Len(seen)
      BY <2>1, <2>6 DEF Callback, Inv, TypeOK
    <3>2. /\ from[cursor] + Len(seen[cursor]) = finished
          /\ \A j \in 1 .. cursor - 1 : from[j] + Len(seen[j]) = finished + 1
      BY <2>1, <3>1 DEF Inv, Lockstep, Reached
    <3>3. finished < Len(accepted) /\ evt = accepted[finished + 1]
      BY <3>1 DEF Inv, EvtInHand
    <3>4. accepted' = accepted \/ \E e \in 1 .. MaxEmits : accepted' = Append(accepted, e)
      BY <2>2, <2>6 DEF Callback
    <3>5. seen' = [seen EXCEPT ![cursor] = Append(@, accepted[finished + 1])]
      BY <2>6, <3>3 DEF Callback
    <3> QED
      BY <2>1, <2>6, <3>1, <3>2, <3>3, <3>4, <3>5
      DEF Callback, Abs!Deliver, Abs!Has, Abs!Subscriber
  <2>7. ASSUME Unlock PROVE Abs!Finish
    <3>1. pc = "dispatch" /\ cursor > Len(seen) /\ cursor \in Nat
      BY <2>1, <2>7 DEF Unlock, Inv, TypeOK
    <3>2. \A k \in DOMAIN seen : from[k] + Len(seen[k]) = finished + 1
      BY <2>1, <3>1 DEF Inv, Lockstep, Reached
    <3>3. finished < Len(accepted)
      BY <3>1 DEF Inv, EvtInHand
    <3> QED BY <2>7, <3>2, <3>3 DEF Unlock, Abs!Finish, Abs!Has, Abs!Subscriber
  <2>8. CASE UNCHANGED vars
    BY <2>8 DEF vars, Abs!vars
  <2> QED
    BY <2>3, <2>4, <2>5, <2>6, <2>7, <2>8
    DEF Next, eventbus_task, Abs!Next, Abs!Progress
<1> QED BY <1>1, <1>2, BusInvariant, PTL DEF Spec, Abs!SafeSpec
=============================================================================
