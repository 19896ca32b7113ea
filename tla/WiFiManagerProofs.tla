------------------------- MODULE WiFiManagerProofs -------------------------
(***************************************************************************)
(* Machine-checked proofs about WiFiManager for every set of lists, every   *)
(* limit of retries, and all numbers of losses and posted lists: it never   *)
(* stalls, every network gets its attempts, and attempts run out.           *)
(***************************************************************************)
EXTENDS WiFiManager, SequenceTheorems, TLAPS

\* What a configuration can name.
Ssids == STRING \union {Empty}

\* A list that is being replaced is a list of Configs once its rest is in.
ListInParts ==
    /\ sta_cfg \in Seq(Ssids) /\ posted \in Seq(Ssids)
    /\ sta_cfg \o posted \in Configs

\* The inductive invariant.
Inv == TypeOK /\ ListInParts /\ NoStall

-----------------------------------------------------------------------------
\* Lemma: moving the head of one list to the end of another keeps both together
\* the same.
LEMMA MoveHead ==
    ASSUME NEW S, NEW s \in Seq(S), NEW t \in Seq(S), t # << >>
    PROVE  /\ Append(s, Head(t)) \in Seq(S) /\ Tail(t) \in Seq(S)
           /\ Append(s, Head(t)) \o Tail(t) = s \o t
<1>1. /\ Head(t) \in S /\ Tail(t) \in Seq(S) /\ Len(Tail(t)) = Len(t) - 1
      /\ \A i \in 1 .. Len(Tail(t)) : Tail(t)[i] = t[i + 1]
      /\ Head(t) = t[1]
  BY HeadTailProperties
<1>2. /\ Append(s, Head(t)) \in Seq(S) /\ Len(Append(s, Head(t))) = Len(s) + 1
      /\ \A i \in 1 .. Len(s) : Append(s, Head(t))[i] = s[i]
      /\ Append(s, Head(t))[Len(s) + 1] = Head(t)
  BY <1>1, AppendProperties
<1> DEFINE a == Append(s, Head(t))
           b == Tail(t)
<1>3. /\ Len(s) \in Nat /\ Len(t) \in Nat /\ Len(t) > 0
  BY LenProperties, EmptySeq
<1> HIDE DEF a, b
<1>4. /\ a \o b \in Seq(S) /\ Len(a \o b) = Len(a) + Len(b)
      /\ \A i \in 1 .. Len(a) + Len(b) :
            (a \o b)[i] = IF i <= Len(a) THEN a[i] ELSE b[i - Len(a)]
  BY <1>1, <1>2, ConcatProperties DEF a, b
<1>5. /\ s \o t \in Seq(S) /\ Len(s \o t) = Len(s) + Len(t)
      /\ \A i \in 1 .. Len(s) + Len(t) :
            (s \o t)[i] = IF i <= Len(s) THEN s[i] ELSE t[i - Len(s)]
  BY ConcatProperties
<1>6. /\ Len(a) = Len(s) + 1 /\ Len(b) = Len(t) - 1
      /\ \A i \in 1 .. Len(s) : a[i] = s[i]
      /\ a[Len(s) + 1] = t[1]
      /\ \A i \in 1 .. Len(b) : b[i] = t[i + 1]
  BY <1>1, <1>2 DEF a, b
<1>7. Len(a \o b) = Len(s \o t)
  BY <1>3, <1>4, <1>5, <1>6
<1>8. ASSUME NEW i \in 1 .. Len(a \o b) PROVE (a \o b)[i] = (s \o t)[i]
  <2>1. CASE i <= Len(s)
    BY <1>3, <1>4, <1>5, <1>6, <2>1
  <2>2. CASE i = Len(s) + 1
    BY <1>3, <1>4, <1>5, <1>6, <2>2
  <2>3. CASE i > Len(s) + 1
    <3>1. /\ i - Len(a) \in 1 .. Len(b) /\ i - Len(s) = (i - Len(a)) + 1
      BY <1>3, <1>4, <1>6, <2>3
    <3>2. (a \o b)[i] = b[i - Len(a)] /\ (s \o t)[i] = t[i - Len(s)]
      BY <1>3, <1>4, <1>5, <1>6, <2>3
    <3> QED BY <1>6, <3>1, <3>2
  <2> QED BY <1>3, <1>4, <1>6, <2>1, <2>2, <2>3
<1>9. a \o b = s \o t
  BY <1>4, <1>5, <1>7, <1>8, SeqEqual
<1> QED BY <1>1, <1>2, <1>9 DEF a, b

\* Lemma: a list nothing is missing from.
LEMMA NothingToAppend ==
    ASSUME NEW S, NEW s \in Seq(S)
    PROVE  s \o << >> = s /\ << >> \o s = s
BY ConcatEmptySeq

\* Lemma: what is left of the event loop's queue, and that the loss of one of
\* its events can only matter for that event.
LEMMA PopEvent ==
    ASSUME events \in Seq(WiFiEvents), events # << >>, events' = Tail(events)
    PROVE  /\ events' \in Seq(WiFiEvents)
           /\ \A types : Pending(types) => Pending(types)' \/ Head(events) \in types
<1>1. /\ events' \in Seq(WiFiEvents) /\ Len(events') = Len(events) - 1
      /\ \A i \in 1 .. Len(events') : events'[i] = events[i + 1]
      /\ Head(events) = events[1] /\ Len(events) \in Nat
      /\ DOMAIN events = 1 .. Len(events) /\ DOMAIN events' = 1 .. Len(events')
  BY HeadTailProperties, LenProperties
<1>2. ASSUME NEW types, NEW j \in DOMAIN events, events[j] \in types, Head(events) \notin types
      PROVE  \E i \in DOMAIN events' : events'[i] \in types
  <2>1. j - 1 \in 1 .. Len(events') /\ (j - 1) + 1 = j
    BY <1>1, <1>2
  <2> QED BY <1>1, <1>2, <2>1
<1> QED BY <1>1, <1>2 DEF Pending

\* Lemma: an event at the back of the queue is pending, and so is what was.
LEMMA PushEvent ==
    ASSUME events \in Seq(WiFiEvents), NEW e \in WiFiEvents, events' = Append(events, e)
    PROVE  /\ events' \in Seq(WiFiEvents)
           /\ \A types : Pending(types) \/ e \in types => Pending(types)'
<1>1. /\ events' \in Seq(WiFiEvents) /\ Len(events') = Len(events) + 1
      /\ \A i \in 1 .. Len(events) : events'[i] = events[i]
      /\ events'[Len(events) + 1] = e
  BY AppendProperties
<1>2. /\ Len(events) \in Nat
      /\ DOMAIN events = 1 .. Len(events) /\ DOMAIN events' = 1 .. Len(events')
  BY <1>1, LenProperties
<1> QED BY <1>1, <1>2 DEF Pending

-----------------------------------------------------------------------------
\* Lemma: the invariant holds at the start.
LEMMA InitInv == Init => Inv
<1> SUFFICES ASSUME Init PROVE Inv
  OBVIOUS
<1>1. sta_cfg \in Seq(Ssids) /\ posted = << >> /\ sta_cfg \in Configs
  BY WiFiAssumption DEF Init, Ssids
<1>2. posted \in Seq(Ssids) /\ sta_cfg \o posted = sta_cfg
  BY <1>1, EmptySeq, NothingToAppend
<1>3. events \in Seq(WiFiEvents)
  <2>1. events = << >>
    BY DEF Init
  <2> QED BY <2>1, EmptySeq
<1>4. TypeOK
  <2>1. /\ g_status = "INIT" /\ driver = "off"
        /\ g_current_sta_index \in Nat /\ g_current_retry \in 0 .. MAX_RETRY_PER_NETWORK
        /\ losses \in Nat /\ posts \in Nat /\ since_address \in Nat
    BY WiFiAssumption DEF Init
  <2>2. g_all_sta_failed \in BOOLEAN /\ met_empty \in BOOLEAN
    BY Zenon DEF Init
  <2> QED BY <1>1, <1>3, <2>1, <2>2 DEF TypeOK
<1>5. NoStall
  BY DEF Init, NoStall, Stalled
<1> QED BY <1>1, <1>2, <1>4, <1>5 DEF Inv, ListInParts

\* Lemma: connect_next_sta starts an attempt, declares failure, or has met an
\* entry without SSID.
LEMMA ConnectsOrSaysSo ==
    ASSUME TypeOK, connect_next_sta
    PROVE  /\ driver' = "connecting" \/ g_all_sta_failed' \/ met_empty'
           /\ driver' \in {"off", "idle", "connecting", "up"}
           /\ g_status' \in {"INIT", "AP_STARTED", "STA_CONNECTING", "STA_CONNECTED", "ALL_STA_FAILED"}
           /\ g_all_sta_failed' \in BOOLEAN /\ met_empty' \in BOOLEAN /\ since_address' \in Nat
<1>1. CASE g_current_sta_index' >= Len(sta_cfg)
  BY <1>1 DEF connect_next_sta, TypeOK, history
<1>2. CASE ~(g_current_sta_index' >= Len(sta_cfg)) /\ sta_cfg[g_current_sta_index' + 1] = Empty
  BY <1>2 DEF connect_next_sta, TypeOK
<1>3. CASE ~(g_current_sta_index' >= Len(sta_cfg)) /\ sta_cfg[g_current_sta_index' + 1] # Empty
  BY <1>3 DEF connect_next_sta, esp_wifi_connect, TypeOK
<1> QED BY <1>1, <1>2, <1>3

\* Lemma: no event of the driver makes the station forget what it was about.
LEMMA EventInv ==
    ASSUME Inv, on_wifi_event
    PROVE  Inv'
<1> USE WiFiAssumption
<1>1. /\ events' \in Seq(WiFiEvents)
      /\ \A types : Pending(types) => Pending(types)' \/ Head(events) \in types
  BY PopEvent DEF on_wifi_event, Inv, TypeOK
<1>2. sta_cfg' = sta_cfg /\ posted' = posted /\ posts' = posts /\ losses' = losses
  BY DEF on_wifi_event, config
<1>3. ListInParts'
  BY <1>2 DEF Inv, ListInParts
<1>4. CASE on_ap_start
  <2>1. /\ UNCHANGED <<g_current_sta_index, g_all_sta_failed, g_current_retry, driver,
                        since_address, met_empty>>
        /\ g_status' = "AP_STARTED" /\ Head(events) \notin {"STA_START", "STA_DISCONNECTED"}
    BY <1>4 DEF on_ap_start, history
  <2>2. TypeOK'
    BY <1>1, <1>2, <2>1 DEF Inv, TypeOK
  <2>3. NoStall'
    BY <1>1, <2>1 DEF Inv, NoStall, Stalled
  <2> QED BY <1>3, <2>2, <2>3 DEF Inv
<1>5. CASE on_got_ip
  <2>1. /\ UNCHANGED <<g_current_sta_index, g_all_sta_failed, g_current_retry, driver, met_empty>>
        /\ g_status' = "STA_CONNECTED" /\ since_address' = 0
        /\ Head(events) \notin {"STA_START", "STA_DISCONNECTED"}
    BY <1>5 DEF on_got_ip
  <2>2. TypeOK'
    BY <1>1, <1>2, <2>1 DEF Inv, TypeOK
  <2>3. NoStall'
    BY <1>1, <2>1 DEF Inv, NoStall, Stalled
  <2> QED BY <1>3, <2>2, <2>3 DEF Inv
<1>6. CASE on_sta_disconnected_retry
  <2>1. /\ UNCHANGED <<g_status, g_current_sta_index, g_all_sta_failed, met_empty>>
        /\ g_current_retry' \in 0 .. MAX_RETRY_PER_NETWORK
        /\ driver' = "connecting" /\ since_address' = since_address + 1
    BY <1>6 DEF on_sta_disconnected_retry, esp_wifi_connect, Inv, TypeOK
  <2>2. TypeOK'
    BY <1>1, <1>2, <2>1 DEF Inv, TypeOK
  <2>3. NoStall'
    BY <2>1 DEF NoStall, Stalled
  <2> QED BY <1>3, <2>2, <2>3 DEF Inv
<1>7. CASE on_sta_start \/ on_sta_disconnected_next
  <2>1. /\ connect_next_sta
        /\ g_current_sta_index' \in Nat /\ g_current_retry' = 0
    BY <1>7 DEF on_sta_start, on_sta_disconnected_next, Inv, TypeOK
  <2>2. TypeOK'
    BY <1>1, <1>2, <2>1, ConnectsOrSaysSo DEF Inv, TypeOK
  <2>3. NoStall'
    BY <2>1, ConnectsOrSaysSo DEF Inv, NoStall, Stalled
  <2> QED BY <1>3, <2>2, <2>3 DEF Inv
<1> QED BY <1>4, <1>5, <1>6, <1>7 DEF on_wifi_event

\* Lemma: whatever the driver does is announced to the manager.
LEMMA DriverInv ==
    ASSUME Inv, start_apsta_async \/ Associate \/ Fail \/ Lose
    PROVE  Inv'
<1> USE DEF Inv
<1>1. ListInParts' /\ posts' = posts /\ (posted' = << >> => sta_cfg' \in Configs)
  BY DEF start_apsta_async, Associate, Fail, Lose, DriverFrame, config, ListInParts, TypeOK
<1>2. CASE start_apsta_async
  <2>1. events' \in Seq(WiFiEvents) /\ Pending({"STA_START", "STA_DISCONNECTED"})'
    <3>1. CASE events' = <<"STA_START", "AP_START">>
      <4>1. 1 \in DOMAIN events' /\ events'[1] = "STA_START"
        BY <3>1
      <4> QED BY <3>1, <4>1 DEF WiFiEvents, Pending
    <3>2. CASE events' = <<"AP_START", "STA_START">>
      <4>1. 2 \in DOMAIN events' /\ events'[2] = "STA_START"
        BY <3>2
      <4> QED BY <3>2, <4>1 DEF WiFiEvents, Pending
    <3> QED BY <1>2, <3>1, <3>2 DEF start_apsta_async
  <2> QED BY <1>1, <1>2, <2>1 DEF start_apsta_async, TypeOK, NoStall, Stalled, history
<1>3. CASE Associate
  <2>1. events' \in Seq(WiFiEvents)
    BY <1>3, PushEvent DEF Associate, WiFiEvents, TypeOK
  <2> QED BY <1>1, <1>3, <2>1 DEF Associate, DriverFrame, manager, history, TypeOK, NoStall, Stalled
<1>4. CASE Fail \/ Lose
  <2>1. events' \in Seq(WiFiEvents) /\ Pending({"STA_START", "STA_DISCONNECTED"})'
    <3>1. events' = Append(events, "STA_DISCONNECTED") /\ "STA_DISCONNECTED" \in WiFiEvents
      BY <1>4 DEF Fail, Lose, WiFiEvents
    <3> QED BY <3>1, PushEvent DEF TypeOK
  <2>2. NoStall'
    BY <2>1 DEF NoStall, Stalled
  <2> QED BY <1>1, <1>4, <2>1, <2>2 DEF Fail, Lose, DriverFrame, manager, history, TypeOK
<1> QED BY <1>2, <1>3, <1>4

\* Lemma: a list that is being replaced starts no connection and stops none.
LEMMA PostInv ==
    ASSUME Inv, sta_from_json
    PROVE  Inv'
<1> USE DEF Inv
<1>1. UNCHANGED <<manager, driver, driver_ssid, events, losses, history>> /\ posts' \in Nat
  BY DEF sta_from_json, PostBegins, PostEntry, TypeOK
<1>2. NoStall'
  BY <1>1 DEF NoStall, Stalled, Pending, manager, history
<1>3. CASE PostBegins
  <2>1. posted' \in Configs /\ posted' \in Seq(Ssids) /\ sta_cfg' = << >>
    BY <1>3, WiFiAssumption DEF PostBegins, Ssids
  <2>2. sta_cfg' \in Seq(Ssids) /\ sta_cfg' \o posted' = posted'
    BY <2>1, EmptySeq, NothingToAppend
  <2> QED BY <1>1, <1>2, <2>1, <2>2 DEF ListInParts, TypeOK, manager, history
<1>4. CASE PostEntry
  <2>1. /\ sta_cfg' \in Seq(Ssids) /\ posted' \in Seq(Ssids)
        /\ sta_cfg' \o posted' \in Configs
    BY <1>4, MoveHead DEF PostEntry, ListInParts
  <2>2. posted' = << >> => sta_cfg' \in Configs
    BY <2>1, NothingToAppend
  <2> QED BY <1>1, <1>2, <2>1, <2>2 DEF ListInParts, TypeOK, manager, history
<1> QED BY <1>3, <1>4 DEF sta_from_json

\* Theorem: the invariant holds in every reachable state.
THEOREM WiFiInvariant == Spec => []Inv
<1>1. Inv /\ UNCHANGED vars => Inv'
  BY DEF Inv, TypeOK, ListInParts, NoStall, Stalled, Pending, vars, config, manager, history
<1>2. Inv /\ [Next]_vars => Inv'
  BY <1>1, EventInv, DriverInv, PostInv DEF Next
<1> QED BY <1>2, InitInv, PTL DEF Spec

\* Theorem: the manager's variables stay in their types; in particular it never
\* retries more often than MAX_RETRY_PER_NETWORK.
THEOREM WiFiTypeCorrect == Spec => []TypeOK
<1>1. Inv => TypeOK
  BY DEF Inv
<1> QED BY <1>1, WiFiInvariant, PTL

\* Theorem: whatever fails, is lost or is posted, the station is never left
\* without a connection, an attempt, an event to come or a declared failure,
\* but by an entry without SSID.
THEOREM NoStallCorrect == Spec => []NoStall
<1>1. Inv => NoStall
  BY DEF Inv
<1> QED BY <1>1, WiFiInvariant, PTL

-----------------------------------------------------------------------------
(* Every network is tried, while no connection is lost and no list replaced.  *)

\* The events that make the manager connect.
Announcing == {"STA_START", "STA_DISCONNECTED"}

\* At most one of them is waiting.
OneAnnounced ==
    \A j, k \in DOMAIN events : events[j] \in Announcing /\ events[k] \in Announcing => j = k

\* While it tries, the manager has made one attempt more than it counts retries, at the
\* network it points at: all attempts at those before it, none at those after it.
AttemptsCounted ==
    LET i == g_current_sta_index + 1 IN
    /\ \A n \in 1 .. Len(sta_cfg) :
          /\ n < i => attempts[n] = 1 + MAX_RETRY_PER_NETWORK
          /\ n > i => attempts[n] = 0
          /\ n = i => attempts[n] <= 1 + MAX_RETRY_PER_NETWORK
    /\ driver = "off" \/ Pending({"STA_START"}) =>
          /\ i = 1 /\ ~g_all_sta_failed
          /\ i <= Len(sta_cfg) => attempts[i] = 0
    /\ driver \in {"connecting", "up"} \/ Pending({"STA_DISCONNECTED"}) =>
          i <= Len(sta_cfg) /\ attempts[i] = g_current_retry + 1

\* ... and it is doing one thing at a time.
OneThing ==
    /\ posted = << >>
    /\ OneAnnounced
    /\ driver \in {"off", "connecting", "up"} => ~Pending(Announcing)
    /\ g_all_sta_failed =>
          g_current_sta_index = Len(sta_cfg) /\ driver = "idle" /\ ~Pending(Announcing)

Tries == losses = 0 /\ posts = 0 => OneThing /\ AttemptsCounted

\* Every list fits the history, which counts for each of its positions.
TriesInv ==
    /\ attempts \in [1 .. WIFI_MAX_NETWORKS -> Nat]
    /\ posted = << >> => Len(sta_cfg) <= WIFI_MAX_NETWORKS
    /\ Tries

\* All attempts at the networks before the i-th, none at those from there on.
TriedBefore(i) ==
    \A n \in 1 .. Len(sta_cfg) :
        /\ n < i => attempts[n] = 1 + MAX_RETRY_PER_NETWORK
        /\ n >= i => attempts[n] = 0

\* Lemma: taking an event leaves fewer of every kind, and no other announcing one.
LEMMA PopAnnounced ==
    ASSUME events \in Seq(WiFiEvents), events # << >>, events' = Tail(events), OneAnnounced
    PROVE  /\ OneAnnounced'
           /\ \A types : Pending(types)' => Pending(types)
           /\ Head(events) \in Announcing => ~Pending(Announcing)'
           /\ \A types : Head(events) \in types => Pending(types)
<1>1. /\ Len(events') = Len(events) - 1 /\ Len(events) \in Nat \ {0}
      /\ \A i \in 1 .. Len(events') : events'[i] = events[i + 1]
      /\ Head(events) = events[1]
      /\ DOMAIN events = 1 .. Len(events) /\ DOMAIN events' = 1 .. Len(events')
  BY HeadTailProperties, LenProperties, EmptySeq
<1>2. \A i \in DOMAIN events' : i + 1 \in DOMAIN events /\ i + 1 # 1 /\ events'[i] = events[i + 1]
  BY <1>1
<1>3. 1 \in DOMAIN events
  BY <1>1
<1>4. \A j, k \in DOMAIN events' : j + 1 = k + 1 => j = k
  BY <1>1
<1>5. OneAnnounced'
  BY <1>2, <1>4 DEF OneAnnounced
<1>6. Head(events) \in Announcing => ~Pending(Announcing)'
  BY <1>1, <1>2, <1>3 DEF OneAnnounced, Pending
<1> QED BY <1>1, <1>2, <1>3, <1>5, <1>6 DEF Pending

\* Lemma: an event at the back is the only one that is new.
LEMMA PushAnnounced ==
    ASSUME events \in Seq(WiFiEvents), NEW e \in WiFiEvents, events' = Append(events, e),
           OneAnnounced, e \in Announcing => ~Pending(Announcing)
    PROVE  /\ OneAnnounced'
           /\ \A types : Pending(types)' => Pending(types) \/ e \in types
<1>1. /\ Len(events') = Len(events) + 1 /\ Len(events) \in Nat
      /\ \A i \in 1 .. Len(events) : events'[i] = events[i]
      /\ events'[Len(events) + 1] = e
      /\ DOMAIN events = 1 .. Len(events) /\ DOMAIN events' = 1 .. Len(events')
  BY AppendProperties, LenProperties
<1>2. \A i \in DOMAIN events' :
         \/ i \in DOMAIN events /\ events'[i] = events[i]
         \/ i = Len(events) + 1 /\ events'[i] = e
  BY <1>1
<1> QED BY <1>2 DEF OneAnnounced, Pending

\* Lemma: after a position before the last comes one of the list.
LEMMA NextIsWithin ==
    \A x, y, i \in Nat : x + 1 = i /\ x < y => 1 <= i /\ i <= y
OBVIOUS

\* Lemma: at the network the manager points at now, not tried yet, connect_next_sta makes
\* the first attempt, declares failure at the end of the list, or makes none.
LEMMA ConnectCounts ==
    ASSUME TypeOK, TriesInv, posted = << >>, connect_next_sta, driver = "idle", ~g_all_sta_failed,
           NEW i \in Nat, g_current_sta_index' + 1 = i, g_current_sta_index' \in Nat,
           g_current_sta_index' <= Len(sta_cfg), g_current_retry' = 0,
           sta_cfg' = sta_cfg, posted' = posted, OneAnnounced', ~Pending(Announcing)',
           TriedBefore(i)
    PROVE  /\ attempts' \in [1 .. WIFI_MAX_NETWORKS -> Nat]
           /\ OneThing' /\ AttemptsCounted'
<1>0. ~Pending({"STA_START"})' /\ ~Pending({"STA_DISCONNECTED"})'
  BY DEF Pending, Announcing
<1>1. MAX_RETRY_PER_NETWORK \in Nat
  BY WiFiAssumption
<1>2. Len(sta_cfg) \in Nat /\ Len(sta_cfg) <= WIFI_MAX_NETWORKS
  <2>1. sta_cfg \in Seq(STRING \union {Empty}) /\ Len(sta_cfg) <= WIFI_MAX_NETWORKS
    BY WiFiAssumption DEF TypeOK
  <2> QED BY <2>1, LenProperties
<1>3. \A n \in 1 .. Len(sta_cfg) :
         /\ n < i => attempts[n] = 1 + MAX_RETRY_PER_NETWORK
         /\ n > i => attempts[n] = 0
         /\ n = i => attempts[n] = 0 /\ attempts[n] <= 1 + MAX_RETRY_PER_NETWORK
  <2> SUFFICES ASSUME NEW n \in 1 .. Len(sta_cfg)
               PROVE  /\ n < i => attempts[n] = 1 + MAX_RETRY_PER_NETWORK
                      /\ n > i => attempts[n] = 0
                      /\ n = i => attempts[n] = 0 /\ attempts[n] <= 1 + MAX_RETRY_PER_NETWORK
    OBVIOUS
  <2>1. n \in Nat /\ (n > i => n >= i) /\ (n = i => n >= i)
    BY <1>2
  <2>2. 0 <= 1 + MAX_RETRY_PER_NETWORK
    BY <1>1
  <2> QED BY <2>1, <2>2 DEF TriedBefore
<1>4. attempts \in [1 .. WIFI_MAX_NETWORKS -> Nat]
  BY DEF TriesInv
<1>5. CASE g_current_sta_index' >= Len(sta_cfg)
  <2>1. /\ g_all_sta_failed' = TRUE /\ driver' = "idle" /\ attempts' = attempts
        /\ g_current_sta_index' = Len(sta_cfg)
    BY <1>2, <1>5 DEF connect_next_sta, history
  <2>2. OneThing'
    BY <2>1 DEF OneThing
  <2>3. AttemptsCounted'
    BY <1>0, <1>3, <2>1 DEF AttemptsCounted
  <2> QED BY <1>4, <2>1, <2>2, <2>3
<1>6. CASE ~(g_current_sta_index' >= Len(sta_cfg)) /\ sta_cfg[g_current_sta_index' + 1] = Empty
  <2>1. g_all_sta_failed' = g_all_sta_failed /\ driver' = "idle" /\ attempts' = attempts
    BY <1>6 DEF connect_next_sta
  <2>2. OneThing'
    BY <2>1 DEF OneThing
  <2>3. AttemptsCounted'
    BY <1>0, <1>3, <2>1 DEF AttemptsCounted
  <2> QED BY <1>4, <2>1, <2>2, <2>3
<1>7. CASE ~(g_current_sta_index' >= Len(sta_cfg)) /\ sta_cfg[g_current_sta_index' + 1] # Empty
  <2>1. /\ g_all_sta_failed' = g_all_sta_failed /\ driver' = "connecting"
        /\ attempts' = [attempts EXCEPT ![i] = @ + 1]
    BY <1>7 DEF connect_next_sta, esp_wifi_connect
  <2>2. i \in 1 .. Len(sta_cfg) /\ i \in 1 .. WIFI_MAX_NETWORKS
    <3>1. g_current_sta_index' < Len(sta_cfg)
      BY <1>2, <1>7
    <3>2. 1 <= i /\ i <= Len(sta_cfg)
      BY <1>2, <3>1, NextIsWithin
    <3> QED BY <1>2, <3>2 DEF WIFI_MAX_NETWORKS
  <2>3. attempts' \in [1 .. WIFI_MAX_NETWORKS -> Nat]
    BY <1>4, <2>1, <2>2
  <2>4. attempts[i] = 0
    BY <1>3, <2>2
  <2>5. attempts'[i] = 1 /\ \A n \in 1 .. WIFI_MAX_NETWORKS : n # i => attempts'[n] = attempts[n]
    BY <1>4, <2>1, <2>2, <2>4
  <2>6. \A n \in 1 .. Len(sta_cfg) : n \in 1 .. WIFI_MAX_NETWORKS
    BY <1>2 DEF WIFI_MAX_NETWORKS
  <2>7. OneThing'
    BY <2>1 DEF OneThing
  <2>8. \A n \in 1 .. Len(sta_cfg) :
           /\ n < i => attempts'[n] = 1 + MAX_RETRY_PER_NETWORK
           /\ n > i => attempts'[n] = 0
           /\ n = i => attempts'[n] <= 1 + MAX_RETRY_PER_NETWORK
    <3> SUFFICES ASSUME NEW n \in 1 .. Len(sta_cfg)
                 PROVE  /\ n < i => attempts'[n] = 1 + MAX_RETRY_PER_NETWORK
                        /\ n > i => attempts'[n] = 0
                        /\ n = i => attempts'[n] <= 1 + MAX_RETRY_PER_NETWORK
      OBVIOUS
    <3>1. n # i => attempts'[n] = attempts[n]
      BY <2>5, <2>6
    <3>2. n = i => attempts'[n] <= 1 + MAX_RETRY_PER_NETWORK
      BY <1>1, <2>5
    <3>3. (n < i => n # i) /\ (n > i => n # i)
      BY <1>2
    <3> QED BY <1>3, <3>1, <3>2, <3>3
  <2>9. i <= Len(sta_cfg) /\ attempts'[i] = g_current_retry' + 1
    BY <1>2, <2>2, <2>5
  <2>10. AttemptsCounted'
    BY <1>0, <1>3, <2>1, <2>8, <2>9 DEF AttemptsCounted
  <2> QED BY <2>3, <2>7, <2>10
<1> QED BY <1>5, <1>6, <1>7

\* Lemma: no event of the driver spoils the count.
LEMMA EventTries ==
    ASSUME Inv, TriesInv, on_wifi_event
    PROVE  TriesInv'
<1> USE DEF Inv
<1>1. UNCHANGED <<sta_cfg, posted, posts, losses>> /\ events # << >> /\ events' = Tail(events)
  BY DEF on_wifi_event, config
<1>2. CASE ~(losses = 0 /\ posts = 0)
  <2>1. attempts' \in [1 .. WIFI_MAX_NETWORKS -> Nat]
    BY DEF on_wifi_event, on_ap_start, on_sta_start, on_sta_disconnected_retry,
           on_sta_disconnected_next, on_got_ip, connect_next_sta, esp_wifi_connect, history, TriesInv
  <2> QED BY <1>1, <1>2, <2>1 DEF TriesInv, Tries
<1>3. CASE losses = 0 /\ posts = 0
  <2>1. OneThing /\ AttemptsCounted
    BY <1>3 DEF TriesInv, Tries
  <2>2. /\ OneAnnounced'
        /\ \A types : Pending(types)' => Pending(types)
        /\ Head(events) \in Announcing => ~Pending(Announcing)'
        /\ \A types : Head(events) \in types => Pending(types)
    BY <1>1, <2>1, PopAnnounced DEF TypeOK, OneThing
  <2>3. /\ Pending({"STA_START"}) => Pending(Announcing)
        /\ Pending({"STA_DISCONNECTED"}) => Pending(Announcing)
        /\ Pending({"STA_START"})' => Pending(Announcing)'
        /\ Pending({"STA_DISCONNECTED"})' => Pending(Announcing)'
    BY DEF Pending, Announcing
  <2>4. CASE on_ap_start \/ on_got_ip
    <3>1. UNCHANGED <<g_current_sta_index, g_all_sta_failed, g_current_retry, driver, attempts>>
      BY <2>4 DEF on_ap_start, on_got_ip, history
    <3>2. OneThing'
      BY <1>1, <2>1, <2>2, <3>1 DEF OneThing
    <3>3. AttemptsCounted'
      BY <1>1, <2>1, <2>2, <3>1 DEF AttemptsCounted
    <3> QED BY <1>1, <3>1, <3>2, <3>3 DEF TriesInv, Tries
  <2>5. CASE on_sta_start
    <3>1. Pending({"STA_START"}) /\ ~Pending(Announcing)'
      BY <2>2, <2>5 DEF on_sta_start, Announcing
    <3>2. driver = "idle" /\ ~g_all_sta_failed
      BY <2>1, <2>3, <3>1 DEF OneThing, AttemptsCounted, TypeOK
    <3>3. g_current_sta_index = 0 /\ g_current_sta_index' = 0 /\ g_current_retry' = 0 /\ connect_next_sta
      BY <2>1, <2>5, <3>1 DEF on_sta_start, AttemptsCounted, TypeOK
    <3>4. TriedBefore(1)
      BY <2>1, <3>1, <3>3 DEF AttemptsCounted, TriedBefore
    <3>5. Len(sta_cfg) \in Nat
      BY LenProperties DEF ListInParts
    <3>6. g_current_sta_index' + 1 = 1 /\ g_current_sta_index' \in Nat /\ g_current_sta_index' <= Len(sta_cfg)
      BY <3>3, <3>5
    <3>7. attempts' \in [1 .. WIFI_MAX_NETWORKS -> Nat] /\ OneThing' /\ AttemptsCounted'
      BY <1>1, <2>1, <2>2, <3>1, <3>2, <3>3, <3>4, <3>6, ConnectCounts DEF OneThing
    <3> QED BY <1>1, <3>7 DEF TriesInv, Tries
  <2>6. ASSUME Head(events) = "STA_DISCONNECTED"
        PROVE  /\ Pending({"STA_DISCONNECTED"}) /\ ~Pending(Announcing)'
               /\ driver = "idle" /\ ~g_all_sta_failed
               /\ g_current_sta_index + 1 \in 1 .. Len(sta_cfg)
               /\ attempts[g_current_sta_index + 1] = g_current_retry + 1
    <3>1. Pending({"STA_DISCONNECTED"}) /\ ~Pending(Announcing)'
      BY <2>2, <2>6 DEF Announcing
    <3>2. driver = "idle" /\ ~g_all_sta_failed
      BY <2>1, <2>3, <3>1 DEF OneThing, TypeOK
    <3>3. Len(sta_cfg) \in Nat
      BY LenProperties DEF ListInParts
    <3> QED BY <2>1, <3>1, <3>2, <3>3 DEF AttemptsCounted, TypeOK
  <2>7. CASE on_sta_disconnected_next
    <3>1. /\ Head(events) = "STA_DISCONNECTED" /\ g_current_retry = MAX_RETRY_PER_NETWORK
          /\ g_current_retry' = 0 /\ g_current_sta_index' = g_current_sta_index + 1
          /\ connect_next_sta
      BY <2>7, WiFiAssumption DEF on_sta_disconnected_next, TypeOK
    <3>2. g_current_sta_index' \in Nat /\ g_current_sta_index' <= Len(sta_cfg)
      BY <2>6, <3>1 DEF TypeOK
    <3> DEFINE i == g_current_sta_index + 2
    <3>3. TriedBefore(i)
      BY <2>1, <2>6, <3>1, WiFiAssumption DEF AttemptsCounted, TriedBefore, TypeOK
    <3>5. g_current_sta_index' + 1 = i /\ i \in Nat
      BY <3>1 DEF TypeOK
    <3>4. attempts' \in [1 .. WIFI_MAX_NETWORKS -> Nat] /\ OneThing' /\ AttemptsCounted'
      <4> HIDE DEF i
      <4> QED BY <1>1, <2>1, <2>2, <2>6, <3>1, <3>2, <3>3, <3>5, ConnectCounts DEF OneThing
    <3> QED BY <1>1, <3>4 DEF TriesInv, Tries
  <2>8. CASE on_sta_disconnected_retry
    <3> DEFINE i == g_current_sta_index + 1
    <3>1. /\ Head(events) = "STA_DISCONNECTED" /\ g_current_retry' = g_current_retry + 1
          /\ g_current_retry < MAX_RETRY_PER_NETWORK
          /\ UNCHANGED <<g_current_sta_index, g_all_sta_failed>> /\ driver' = "connecting"
          /\ attempts' = [attempts EXCEPT ![i] = @ + 1]
      BY <2>8 DEF on_sta_disconnected_retry, esp_wifi_connect
    <3>2. i \in 1 .. Len(sta_cfg) /\ i \in 1 .. WIFI_MAX_NETWORKS /\ Len(sta_cfg) <= WIFI_MAX_NETWORKS
      <4>1. Len(sta_cfg) \in Nat /\ Len(sta_cfg) <= WIFI_MAX_NETWORKS
        BY <2>1, LenProperties DEF ListInParts, TriesInv, OneThing
      <4> QED BY <2>6, <3>1, <4>1 DEF WIFI_MAX_NETWORKS
    <3>3. attempts' \in [1 .. WIFI_MAX_NETWORKS -> Nat]
      BY <3>1, <3>2 DEF TriesInv
    <3>4. /\ attempts'[i] = g_current_retry + 2
          /\ \A n \in 1 .. Len(sta_cfg) : n # i => attempts'[n] = attempts[n]
      BY <2>6, <3>1, <3>2 DEF TriesInv, WIFI_MAX_NETWORKS, TypeOK
    <3>5. OneThing'
      BY <1>1, <2>1, <2>2, <2>6, <3>1 DEF OneThing
    <3>6. AttemptsCounted'
      BY <1>1, <2>1, <2>3, <2>6, <3>1, <3>2, <3>4, WiFiAssumption DEF AttemptsCounted, TypeOK
    <3> QED BY <1>1, <3>3, <3>5, <3>6 DEF TriesInv, Tries
  <2> QED BY <2>4, <2>5, <2>7, <2>8 DEF on_wifi_event
<1> QED BY <1>2, <1>3

\* Lemma: an attempt ends with one event, and so does the start of the driver.
LEMMA DriverTries ==
    ASSUME Inv, TriesInv, start_apsta_async \/ Associate \/ Fail \/ Lose
    PROVE  TriesInv'
<1> USE DEF Inv
<1>1. UNCHANGED <<sta_cfg, posted, posts, attempts, g_current_retry>>
  BY DEF start_apsta_async, Associate, Fail, Lose, DriverFrame, config, manager, history
<1>2. CASE ~(losses' = 0 /\ posts' = 0)
  BY <1>1, <1>2 DEF TriesInv, Tries
<1>3. CASE Lose
  <2>1. losses' # 0
    BY <1>3 DEF Lose, TypeOK
  <2> QED BY <1>2, <2>1
<1>4. CASE losses' = 0 /\ posts' = 0 /\ ~Lose
  <2>1. losses = 0 /\ posts = 0
    BY <1>1, <1>4 DEF start_apsta_async, Associate, Fail
  <2>2. OneThing /\ AttemptsCounted
    BY <2>1 DEF TriesInv, Tries
  <2>3. CASE start_apsta_async
    <3>1. /\ driver = "off" /\ driver' = "idle" /\ g_current_sta_index' = 0 /\ g_all_sta_failed' = FALSE
          /\ events' \in {<<"STA_START", "AP_START">>, <<"AP_START", "STA_START">>}
      BY <2>3 DEF start_apsta_async
    <3>2. g_current_sta_index = 0 /\ (1 <= Len(sta_cfg) => attempts[1] = 0)
      BY <2>2, <3>1 DEF AttemptsCounted, TypeOK
    <3>3. OneAnnounced' /\ ~Pending({"STA_DISCONNECTED"})'
      <4>1. CASE events' = <<"STA_START", "AP_START">>
        BY <4>1 DEF OneAnnounced, Announcing, Pending
      <4>2. CASE events' = <<"AP_START", "STA_START">>
        BY <4>2 DEF OneAnnounced, Announcing, Pending
      <4> QED BY <3>1, <4>1, <4>2
    <3>4. OneThing'
      BY <1>1, <2>2, <3>1, <3>3 DEF OneThing
    <3>5. AttemptsCounted'
      BY <1>1, <2>2, <3>1, <3>2, <3>3 DEF AttemptsCounted
    <3> QED BY <1>1, <3>4, <3>5 DEF TriesInv, Tries
  <2>4. ASSUME NEW e \in {"GOT_IP", "STA_DISCONNECTED"}, driver = "connecting",
               events' = Append(events, e), UNCHANGED <<g_current_sta_index, g_all_sta_failed>>,
               (driver' = "up" /\ e = "GOT_IP") \/ (driver' = "idle" /\ e = "STA_DISCONNECTED")
        PROVE  TriesInv'
    <3>1. ~Pending(Announcing) /\ ~g_all_sta_failed
      BY <2>2, <2>4 DEF OneThing
    <3>2. /\ OneAnnounced'
          /\ \A types : Pending(types)' => Pending(types) \/ e \in types
      <4>1. e \in WiFiEvents /\ OneAnnounced /\ events \in Seq(WiFiEvents)
        BY <2>2 DEF WiFiEvents, OneThing, TypeOK
      <4> QED BY <2>4, <3>1, <4>1, PushAnnounced
    <3>3. ~Pending({"STA_START"})'
      <4>1. ~Pending({"STA_START"})
        BY <3>1 DEF Pending, Announcing
      <4> QED BY <3>2, <4>1
    <3>4. OneThing'
      BY <1>1, <2>2, <2>4, <3>1, <3>2 DEF OneThing, Announcing
    <3>5. AttemptsCounted'
      BY <1>1, <2>2, <2>4, <3>3 DEF AttemptsCounted
    <3> QED BY <1>1, <3>4, <3>5 DEF TriesInv, Tries
  <2>5. CASE Associate
    <3>1. /\ driver = "connecting" /\ driver' = "up" /\ events' = Append(events, "GOT_IP")
          /\ UNCHANGED <<g_current_sta_index, g_all_sta_failed>>
      BY <2>5 DEF Associate, DriverFrame, manager
    <3> QED BY <2>4, <3>1
  <2>6. CASE Fail
    <3>1. /\ driver = "connecting" /\ driver' = "idle"
          /\ events' = Append(events, "STA_DISCONNECTED")
          /\ UNCHANGED <<g_current_sta_index, g_all_sta_failed>>
      BY <2>6 DEF Fail, DriverFrame, manager
    <3> QED BY <2>4, <3>1
  <2> QED BY <1>4, <2>3, <2>5, <2>6
<1> QED BY <1>2, <1>3, <1>4

\* Lemma: a list that is being replaced fits again when it is complete.
LEMMA PostTries ==
    ASSUME Inv, Inv', TriesInv, sta_from_json
    PROVE  TriesInv'
<1>1. attempts' = attempts
  BY DEF sta_from_json, PostBegins, PostEntry, history
<1>2. ~(losses' = 0 /\ posts' = 0)
  <2>1. CASE PostBegins
    BY <2>1 DEF PostBegins, Inv, TypeOK
  <2>2. CASE PostEntry
    <3>1. posted # << >> /\ posts' = posts /\ losses' = losses
      BY <2>2 DEF PostEntry
    <3>2. CASE losses = 0
      BY <3>1, <3>2 DEF TriesInv, Tries, OneThing
    <3> QED BY <3>1, <3>2
  <2> QED BY <2>1, <2>2 DEF sta_from_json
<1>3. posted' = << >> => Len(sta_cfg') <= WIFI_MAX_NETWORKS
  BY WiFiAssumption DEF Inv, TypeOK
<1> QED BY <1>1, <1>2, <1>3 DEF TriesInv, Tries

\* Theorem: without losses and with the list as it was, every network of every list is
\* tried in turn, 1 + MAX_RETRY_PER_NETWORK times, before the manager gives up.
THEOREM EveryNetworkTriedCorrect == Spec => []EveryNetworkTried
<1>1. Init => TriesInv
  <2> SUFFICES ASSUME Init PROVE TriesInv
    OBVIOUS
  <2>1. attempts \in [1 .. WIFI_MAX_NETWORKS -> Nat] /\ \A n \in 1 .. WIFI_MAX_NETWORKS : attempts[n] = 0
    BY DEF Init
  <2>2. Len(sta_cfg) \in Nat /\ Len(sta_cfg) <= WIFI_MAX_NETWORKS
    BY WiFiAssumption, LenProperties DEF Init
  <2>3. \A types : ~Pending(types)
    BY DEF Init, Pending
  <2>4. OneThing
    BY <2>3 DEF Init, OneThing, OneAnnounced
  <2>5. \A n \in 1 .. Len(sta_cfg) : attempts[n] = 0 /\ ~(n < 1)
    BY <2>1, <2>2 DEF WIFI_MAX_NETWORKS
  <2>6. AttemptsCounted
    <3>1. MAX_RETRY_PER_NETWORK \in Nat /\ g_current_sta_index + 1 = 1 /\ ~g_all_sta_failed
          /\ driver = "off"
      BY WiFiAssumption DEF Init
    <3>2. 1 <= Len(sta_cfg) => attempts[1] = 0
      BY <2>2, <2>5
    <3>3. \A n \in 1 .. Len(sta_cfg) :
             attempts[n] = 0 /\ ~(n < 1) /\ attempts[n] <= 1 + MAX_RETRY_PER_NETWORK
      BY <2>5, <3>1
    <3> QED BY <2>3, <3>1, <3>2, <3>3 DEF AttemptsCounted
  <2> QED BY <2>1, <2>2, <2>4, <2>6 DEF TriesInv, Tries
<1>2. TriesInv /\ UNCHANGED vars => TriesInv'
  BY DEF TriesInv, Tries, OneThing, OneAnnounced, AttemptsCounted, Pending, vars, config, manager, history
<1>3. Inv /\ Inv' /\ TriesInv /\ [Next]_vars => TriesInv'
  BY <1>2, EventTries, DriverTries, PostTries DEF Next
<1>4. Inv /\ TriesInv => EveryNetworkTried
  <2> SUFFICES ASSUME Inv, TriesInv, losses = 0, posts = 0
               PROVE  /\ \A n \in 1 .. Len(sta_cfg) :
                            /\ attempts[n] <= 1 + MAX_RETRY_PER_NETWORK
                            /\ n < g_current_sta_index + 1 => attempts[n] = 1 + MAX_RETRY_PER_NETWORK
                            /\ n > g_current_sta_index + 1 => attempts[n] = 0
                      /\ g_all_sta_failed => g_current_sta_index = Len(sta_cfg)
    BY DEF EveryNetworkTried
  <2>1. OneThing /\ AttemptsCounted
    BY DEF TriesInv, Tries
  <2>2. g_current_sta_index \in Nat /\ MAX_RETRY_PER_NETWORK \in Nat
    BY WiFiAssumption DEF Inv, TypeOK
  <2>3. ASSUME NEW n \in 1 .. Len(sta_cfg)
        PROVE  attempts[n] <= 1 + MAX_RETRY_PER_NETWORK
    <3>1. n < g_current_sta_index + 1 \/ n = g_current_sta_index + 1 \/ n > g_current_sta_index + 1
      BY <2>2
    <3> QED BY <2>1, <2>2, <3>1 DEF AttemptsCounted
  <2> QED BY <2>1, <2>3 DEF OneThing, AttemptsCounted
<1> QED BY <1>1, <1>3, <1>4, WiFiInvariant, PTL DEF Spec

-----------------------------------------------------------------------------
(* Attempts run out, whatever is lost and posted: no success brings a retry    *)
(* back, and a list may be replaced, but never gets a second turn.             *)

\* All attempts the manager has made.
TotalAttempts == attempts[1] + attempts[2] + attempts[3] + attempts[4] + attempts[5]

\* A station that is trying or connected is so by its last attempt, every loss ended
\* an attempt of its own, and each position of the list has so many and no more.
Budget ==
    LET i == g_current_sta_index + 1 IN
    /\ attempts \in [1 .. WIFI_MAX_NETWORKS -> Nat]
    /\ OneAnnounced
    /\ driver \in {"off", "connecting", "up"} \/ g_all_sta_failed => ~Pending(Announcing)
    /\ g_all_sta_failed => driver = "idle"
    /\ driver = "off" \/ Pending({"STA_START"}) =>
          i = 1 /\ \A n \in 1 .. WIFI_MAX_NETWORKS : attempts[n] = 0
    /\ \A n \in 1 .. WIFI_MAX_NETWORKS :
          /\ attempts[n] <= 1 + MAX_RETRY_PER_NETWORK
          /\ n > i => attempts[n] = 0
    /\ driver \in {"connecting", "up"} \/ Pending({"STA_DISCONNECTED"}) =>
          i <= WIFI_MAX_NETWORKS /\ attempts[i] = g_current_retry + 1
    /\ losses + (IF driver \in {"connecting", "up"} THEN 1 ELSE 0) <= TotalAttempts

\* Between two starts of the device the manager makes at most so many attempts, and is
\* therefore connected, and loses the connection, at most so many times.
AttemptsRunOut ==
    /\ TotalAttempts <= WIFI_MAX_NETWORKS * (1 + MAX_RETRY_PER_NETWORK)
    /\ losses <= TotalAttempts

\* Once it has declared failure it makes no attempt again: not for a new list, not for a
\* late event.
FailureIsFinal == g_all_sta_failed => g_all_sta_failed' /\ attempts' = attempts

\* Lemma: a configuration has room for its entries, also while it is being rewritten.
LEMMA ListFits ==
    ASSUME Inv
    PROVE  Len(sta_cfg) \in Nat /\ Len(sta_cfg) <= WIFI_MAX_NETWORKS
<1>1. sta_cfg \in Seq(Ssids) /\ posted \in Seq(Ssids) /\ sta_cfg \o posted \in Configs
  BY DEF Inv, ListInParts
<1>2. Len(sta_cfg \o posted) = Len(sta_cfg) + Len(posted)
  BY <1>1, ConcatProperties
<1>3. Len(sta_cfg) \in Nat /\ Len(posted) \in Nat
  BY <1>1, LenProperties
<1>4. Len(sta_cfg \o posted) <= WIFI_MAX_NETWORKS
  BY <1>1, WiFiAssumption
<1> QED BY <1>2, <1>3, <1>4 DEF WIFI_MAX_NETWORKS

\* Lemma: one attempt more at one position is one attempt more.
LEMMA OneMore ==
    ASSUME attempts \in [1 .. WIFI_MAX_NETWORKS -> Nat], NEW i \in 1 .. WIFI_MAX_NETWORKS,
           attempts' = [attempts EXCEPT ![i] = @ + 1]
    PROVE  /\ attempts' \in [1 .. WIFI_MAX_NETWORKS -> Nat]
           /\ attempts'[i] = attempts[i] + 1
           /\ \A n \in 1 .. WIFI_MAX_NETWORKS : n # i => attempts'[n] = attempts[n]
           /\ TotalAttempts' = TotalAttempts + 1
<1> USE DEF WIFI_MAX_NETWORKS
<1>1. /\ attempts' \in [1 .. WIFI_MAX_NETWORKS -> Nat]
      /\ attempts'[i] = attempts[i] + 1
      /\ \A n \in 1 .. WIFI_MAX_NETWORKS : n # i => attempts'[n] = attempts[n]
  OBVIOUS
<1>2. \A n \in 1 .. WIFI_MAX_NETWORKS : attempts[n] \in Nat /\ attempts'[n] \in Nat
  BY <1>1
<1>3. /\ 1 \in 1 .. 5 /\ 2 \in 1 .. 5 /\ 3 \in 1 .. 5 /\ 4 \in 1 .. 5 /\ 5 \in 1 .. 5
      /\ i \in {1, 2, 3, 4, 5}
  OBVIOUS
<1>4. TotalAttempts' = TotalAttempts + 1
  <2>1. CASE i = 1
    BY <1>1, <1>2, <1>3, <2>1 DEF TotalAttempts
  <2>2. CASE i = 2
    BY <1>1, <1>2, <1>3, <2>2 DEF TotalAttempts
  <2>3. CASE i = 3
    BY <1>1, <1>2, <1>3, <2>3 DEF TotalAttempts
  <2>4. CASE i = 4
    BY <1>1, <1>2, <1>3, <2>4 DEF TotalAttempts
  <2>5. CASE i = 5
    BY <1>1, <1>2, <1>3, <2>5 DEF TotalAttempts
  <2> QED BY <1>3, <2>1, <2>2, <2>3, <2>4, <2>5
<1> QED BY <1>1, <1>4

\* Lemma: the attempts made so far are a number.
LEMMA TotalIsNat ==
    ASSUME attempts \in [1 .. WIFI_MAX_NETWORKS -> Nat]
    PROVE  TotalAttempts \in Nat
BY DEF WIFI_MAX_NETWORKS, TotalAttempts

\* Lemma: connect_next_sta makes one attempt, the first, at the position the manager has
\* come to, or none.
LEMMA ConnectSpends ==
    ASSUME Inv, Budget, connect_next_sta, driver = "idle", ~g_all_sta_failed,
           NEW i \in Nat, i >= 1, g_current_sta_index' + 1 = i, g_current_sta_index' \in Nat,
           g_current_retry' = 0, losses' = losses,
           OneAnnounced', ~Pending(Announcing)',
           \A n \in 1 .. WIFI_MAX_NETWORKS : n >= i => attempts[n] = 0
    PROVE  Budget'
<1>0. ~Pending({"STA_START"})' /\ ~Pending({"STA_DISCONNECTED"})'
  BY DEF Pending, Announcing
<1>1. MAX_RETRY_PER_NETWORK \in Nat /\ losses \in Nat /\ TotalAttempts \in Nat
  BY WiFiAssumption, TotalIsNat DEF Budget, Inv, TypeOK
<1>2. CASE driver' = "idle" /\ attempts' = attempts
  <2>1. TotalAttempts' = TotalAttempts /\ losses' + 0 <= TotalAttempts'
    BY <1>1, <1>2 DEF Budget, TotalAttempts
  <2>2. \A n \in 1 .. WIFI_MAX_NETWORKS : n > i => n >= i
    BY DEF WIFI_MAX_NETWORKS
  <2> QED BY <1>0, <1>2, <2>1, <2>2 DEF Budget
<1>3. CASE /\ driver' = "connecting" /\ g_all_sta_failed' = g_all_sta_failed
           /\ attempts' = [attempts EXCEPT ![i] = @ + 1]
           /\ i <= Len(sta_cfg)
  <2>1. i \in 1 .. WIFI_MAX_NETWORKS
    BY <1>3, ListFits DEF WIFI_MAX_NETWORKS
  <2>2. /\ attempts' \in [1 .. WIFI_MAX_NETWORKS -> Nat]
        /\ attempts'[i] = attempts[i] + 1
        /\ \A n \in 1 .. WIFI_MAX_NETWORKS : n # i => attempts'[n] = attempts[n]
        /\ TotalAttempts' = TotalAttempts + 1
    BY <1>3, <2>1, OneMore DEF Budget
  <2>3. attempts'[i] = 1 /\ attempts'[i] = g_current_retry' + 1 /\ i <= WIFI_MAX_NETWORKS
    BY <2>1, <2>2 DEF WIFI_MAX_NETWORKS
  <2>4. losses' + 1 <= TotalAttempts'
    BY <1>1, <2>2 DEF Budget
  <2>5. ASSUME NEW n \in 1 .. WIFI_MAX_NETWORKS
        PROVE  attempts'[n] <= 1 + MAX_RETRY_PER_NETWORK /\ (n > i => attempts'[n] = 0)
    <3>1. n > i => n >= i /\ n # i
      BY DEF WIFI_MAX_NETWORKS
    <3>2. CASE n = i
      BY <1>1, <2>3, <3>1, <3>2
    <3>3. CASE n # i
      BY <2>2, <3>1, <3>3 DEF Budget
    <3> QED BY <3>2, <3>3
  <2> QED BY <1>0, <1>3, <2>2, <2>3, <2>4, <2>5 DEF Budget
<1>4. CASE g_current_sta_index' >= Len(sta_cfg)
  BY <1>2, <1>4 DEF connect_next_sta, history
<1>5. CASE ~(g_current_sta_index' >= Len(sta_cfg)) /\ sta_cfg[g_current_sta_index' + 1] = Empty
  BY <1>2, <1>5 DEF connect_next_sta
<1>6. CASE ~(g_current_sta_index' >= Len(sta_cfg)) /\ sta_cfg[g_current_sta_index' + 1] # Empty
  <2>1. i <= Len(sta_cfg)
    <3>1. Len(sta_cfg) \in Nat /\ g_current_sta_index' < Len(sta_cfg)
      BY <1>6, ListFits
    <3> QED BY <3>1, NextIsWithin
  <2>2. /\ driver' = "connecting" /\ g_all_sta_failed' = g_all_sta_failed
        /\ attempts' = [attempts EXCEPT ![i] = @ + 1]
    BY <1>6 DEF connect_next_sta, esp_wifi_connect
  <2> QED BY <1>3, <2>1, <2>2
<1> QED BY <1>4, <1>5, <1>6

\* Lemma: what the manager knows and what is waiting, when it takes an announcing event.
LEMMA TakesTurn ==
    ASSUME Inv, Budget, on_wifi_event
    PROVE  /\ OneAnnounced'
           /\ \A types : Pending(types)' => Pending(types)
           /\ Head(events) \in Announcing =>
                 ~Pending(Announcing)' /\ driver = "idle" /\ ~g_all_sta_failed
           /\ Head(events) = "STA_START" => Pending({"STA_START"})
           /\ Head(events) = "STA_DISCONNECTED" => Pending({"STA_DISCONNECTED"})
<1>1. events \in Seq(WiFiEvents) /\ events # << >> /\ events' = Tail(events) /\ OneAnnounced
  BY DEF on_wifi_event, Inv, TypeOK, Budget
<1>2. /\ OneAnnounced'
      /\ \A types : Pending(types)' => Pending(types)
      /\ Head(events) \in Announcing => ~Pending(Announcing)'
      /\ \A types : Head(events) \in types => Pending(types)
  BY <1>1, PopAnnounced
<1>3. Head(events) \in Announcing => driver = "idle" /\ ~g_all_sta_failed
  BY <1>2 DEF Budget, Inv, TypeOK
<1> QED BY <1>2, <1>3

\* Lemma: no event of the driver spends more than there is.
LEMMA EventSpends ==
    ASSUME Inv, Budget, on_wifi_event
    PROVE  Budget' /\ FailureIsFinal
<1>1. losses' = losses /\ Len(sta_cfg) \in Nat
  BY ListFits DEF on_wifi_event
<1>2. /\ MAX_RETRY_PER_NETWORK \in Nat /\ g_current_sta_index \in Nat
      /\ g_current_retry \in 0 .. MAX_RETRY_PER_NETWORK /\ losses \in Nat
      /\ TotalAttempts \in Nat
  BY WiFiAssumption, TotalIsNat DEF Budget, Inv, TypeOK
<1>3. CASE on_ap_start \/ on_got_ip
  <2>1. UNCHANGED <<g_current_sta_index, g_all_sta_failed, g_current_retry, driver, attempts>>
    BY <1>3 DEF on_ap_start, on_got_ip, history
  <2>2. TotalAttempts' = TotalAttempts
    BY <2>1 DEF TotalAttempts
  <2> QED BY <1>1, <2>1, <2>2, TakesTurn DEF Budget, FailureIsFinal
<1>4. CASE on_sta_start
  <2>1. /\ Pending({"STA_START"}) /\ ~Pending(Announcing)' /\ OneAnnounced'
        /\ driver = "idle" /\ ~g_all_sta_failed
    BY <1>4, TakesTurn DEF on_sta_start, Announcing
  <2>2. /\ g_current_sta_index' = 0 /\ g_current_retry' = 0 /\ connect_next_sta
        /\ \A n \in 1 .. WIFI_MAX_NETWORKS : attempts[n] = 0
    BY <1>2, <1>4, <2>1 DEF on_sta_start, Budget
  <2>3. g_current_sta_index' + 1 = 1 /\ g_current_sta_index' \in Nat
    BY <2>2
  <2> QED BY <1>1, <2>1, <2>2, <2>3, ConnectSpends DEF FailureIsFinal
<1>5. ASSUME Head(events) = "STA_DISCONNECTED"
      PROVE  /\ ~Pending(Announcing)' /\ OneAnnounced' /\ driver = "idle" /\ ~g_all_sta_failed
             /\ g_current_sta_index + 1 \in 1 .. WIFI_MAX_NETWORKS
             /\ attempts[g_current_sta_index + 1] = g_current_retry + 1
  <2>1. /\ Pending({"STA_DISCONNECTED"}) /\ ~Pending(Announcing)' /\ OneAnnounced'
        /\ driver = "idle" /\ ~g_all_sta_failed
    BY <1>5, TakesTurn DEF Announcing
  <2>2. g_current_sta_index + 1 <= WIFI_MAX_NETWORKS /\ attempts[g_current_sta_index + 1] = g_current_retry + 1
    BY <2>1 DEF Budget
  <2> QED BY <1>2, <2>1, <2>2 DEF WIFI_MAX_NETWORKS
<1>6. CASE on_sta_disconnected_next
  <2> DEFINE i == g_current_sta_index + 2
  <2>1. /\ Head(events) = "STA_DISCONNECTED" /\ g_current_retry' = 0
        /\ g_current_sta_index' = g_current_sta_index + 1 /\ connect_next_sta
    BY <1>6 DEF on_sta_disconnected_next
  <2>2. g_current_sta_index' + 1 = i /\ g_current_sta_index' \in Nat /\ i \in Nat /\ i >= 1
    BY <1>2, <2>1
  <2>3. \A n \in 1 .. WIFI_MAX_NETWORKS : n >= i => attempts[n] = 0
    BY <1>2 DEF Budget, WIFI_MAX_NETWORKS
  <2> HIDE DEF i
  <2> QED BY <1>1, <1>5, <2>1, <2>2, <2>3, ConnectSpends DEF FailureIsFinal
<1>7. CASE on_sta_disconnected_retry
  <2> DEFINE i == g_current_sta_index + 1
  <2>1. /\ Head(events) = "STA_DISCONNECTED" /\ g_current_retry' = g_current_retry + 1
        /\ g_current_retry < MAX_RETRY_PER_NETWORK
        /\ UNCHANGED <<g_current_sta_index, g_all_sta_failed>> /\ driver' = "connecting"
        /\ attempts' = [attempts EXCEPT ![i] = @ + 1]
    BY <1>7 DEF on_sta_disconnected_retry, esp_wifi_connect
  <2>2. i \in 1 .. WIFI_MAX_NETWORKS /\ attempts[i] = g_current_retry + 1
    BY <1>5, <2>1
  <2>3. /\ attempts' \in [1 .. WIFI_MAX_NETWORKS -> Nat]
        /\ attempts'[i] = attempts[i] + 1
        /\ \A n \in 1 .. WIFI_MAX_NETWORKS : n # i => attempts'[n] = attempts[n]
        /\ TotalAttempts' = TotalAttempts + 1
    <3> HIDE DEF i
    <3> QED BY <2>1, <2>2, OneMore DEF Budget
  <2>4. attempts'[i] = g_current_retry' + 1 /\ i <= WIFI_MAX_NETWORKS
    BY <1>2, <2>1, <2>2, <2>3 DEF WIFI_MAX_NETWORKS
  <2>5. losses' + 1 <= TotalAttempts'
    BY <1>1, <1>2, <2>3 DEF Budget
  <2>6. ASSUME NEW n \in 1 .. WIFI_MAX_NETWORKS
        PROVE  attempts'[n] <= 1 + MAX_RETRY_PER_NETWORK /\ (n > i => attempts'[n] = 0)
    <3>1. n > i => n # i
      BY <1>2 DEF WIFI_MAX_NETWORKS
    <3>2. CASE n = i
      BY <1>2, <2>1, <2>4, <3>1, <3>2
    <3>3. CASE n # i
      BY <2>3, <3>3 DEF Budget
    <3> QED BY <3>2, <3>3
  <2>7. ~Pending({"STA_START"})'
    BY <1>5, <2>1 DEF Pending, Announcing
  <2>8. Budget'
    BY <1>5, <2>1, <2>3, <2>4, <2>5, <2>6, <2>7 DEF Budget
  <2> QED BY <1>5, <2>1, <2>8 DEF FailureIsFinal
<1> QED BY <1>3, <1>4, <1>6, <1>7 DEF on_wifi_event

\* Lemma: a loss uses up the attempt it ends; the driver makes none of its own.
LEMMA DriverSpends ==
    ASSUME Inv, Budget, start_apsta_async \/ Associate \/ Fail \/ Lose
    PROVE  Budget' /\ FailureIsFinal
<1>1. UNCHANGED <<attempts, g_current_retry>> /\ losses \in Nat /\ TotalAttempts \in Nat
      /\ TotalAttempts' = TotalAttempts
  BY TotalIsNat DEF start_apsta_async, Associate, Fail, Lose, DriverFrame, manager, history,
     Budget, Inv, TypeOK, TotalAttempts
<1>2. CASE start_apsta_async
  <2>1. /\ driver = "off" /\ driver' = "idle" /\ g_current_sta_index' = 0 /\ g_all_sta_failed' = FALSE
        /\ events' \in {<<"STA_START", "AP_START">>, <<"AP_START", "STA_START">>}
        /\ losses' = losses
    BY <1>2 DEF start_apsta_async
  <2>2. g_current_sta_index + 1 = 1 /\ \A n \in 1 .. WIFI_MAX_NETWORKS : attempts[n] = 0
    BY <2>1 DEF Budget
  <2>3. OneAnnounced' /\ ~Pending({"STA_DISCONNECTED"})'
    <3>1. CASE events' = <<"STA_START", "AP_START">>
      BY <3>1 DEF OneAnnounced, Announcing, Pending
    <3>2. CASE events' = <<"AP_START", "STA_START">>
      BY <3>2 DEF OneAnnounced, Announcing, Pending
    <3> QED BY <2>1, <3>1, <3>2
  <2>4. ~g_all_sta_failed
    BY <2>1 DEF Budget
  <2> QED BY <1>1, <2>1, <2>2, <2>3, <2>4 DEF Budget, FailureIsFinal
<1>3. ASSUME NEW e \in {"GOT_IP", "STA_DISCONNECTED"}, driver \in {"connecting", "up"},
             events' = Append(events, e), UNCHANGED <<g_current_sta_index, g_all_sta_failed>>,
             \/ driver' = "up" /\ e = "GOT_IP" /\ losses' = losses
             \/ driver' = "idle" /\ e = "STA_DISCONNECTED" /\ losses' \in {losses, losses + 1}
      PROVE  Budget' /\ FailureIsFinal
  <2>1. ~Pending(Announcing) /\ ~g_all_sta_failed /\ losses + 1 <= TotalAttempts
    BY <1>3 DEF Budget
  <2>2. /\ OneAnnounced'
        /\ \A types : Pending(types)' => Pending(types) \/ e \in types
    <3>1. e \in WiFiEvents /\ OneAnnounced /\ events \in Seq(WiFiEvents)
      BY DEF WiFiEvents, Budget, Inv, TypeOK
    <3> QED BY <1>3, <2>1, <3>1, PushAnnounced
  <2>3. ~Pending({"STA_START"})'
    <3>1. ~Pending({"STA_START"})
      BY <2>1 DEF Pending, Announcing
    <3> QED BY <2>2, <3>1
  <2>4. driver' = "up" => ~Pending(Announcing)'
    BY <1>3, <2>1, <2>2 DEF Announcing
  <2>5. losses' + (IF driver' \in {"connecting", "up"} THEN 1 ELSE 0) <= TotalAttempts'
    BY <1>1, <1>3, <2>1
  <2> QED BY <1>1, <1>3, <2>1, <2>2, <2>3, <2>4, <2>5 DEF Budget, FailureIsFinal
<1>4. CASE Associate
  <2>1. /\ driver = "connecting" /\ driver' = "up" /\ events' = Append(events, "GOT_IP")
        /\ UNCHANGED <<g_current_sta_index, g_all_sta_failed, losses>>
    BY <1>4 DEF Associate, DriverFrame, manager
  <2> QED BY <1>3, <2>1
<1>5. CASE Fail \/ Lose
  <2>1. /\ driver \in {"connecting", "up"} /\ driver' = "idle"
        /\ events' = Append(events, "STA_DISCONNECTED")
        /\ UNCHANGED <<g_current_sta_index, g_all_sta_failed>> /\ losses' \in {losses, losses + 1}
    BY <1>5 DEF Fail, Lose, DriverFrame, manager
  <2> QED BY <1>3, <2>1
<1> QED BY <1>2, <1>4, <1>5

\* Lemma: no list gives the manager an attempt back.
LEMMA PostSpends ==
    ASSUME Budget, sta_from_json \/ UNCHANGED vars
    PROVE  Budget' /\ FailureIsFinal
<1>1. UNCHANGED <<manager, driver, events, losses, attempts>>
  BY DEF sta_from_json, PostBegins, PostEntry, vars, history
<1> QED BY <1>1 DEF Budget, TotalAttempts, FailureIsFinal, OneAnnounced, Pending, manager

\* Lemma: the count of attempts starts at zero.
LEMMA InitBudget == Init => Budget
<1> SUFFICES ASSUME Init PROVE Budget
  OBVIOUS
<1>1. attempts \in [1 .. WIFI_MAX_NETWORKS -> Nat] /\ \A n \in 1 .. WIFI_MAX_NETWORKS : attempts[n] = 0
  BY DEF Init
<1>2. \A types : ~Pending(types)
  BY DEF Init, Pending
<1>3. OneAnnounced /\ g_current_sta_index + 1 = 1 /\ ~g_all_sta_failed /\ driver = "off"
  BY DEF Init, OneAnnounced
<1>4. \A n \in 1 .. WIFI_MAX_NETWORKS : attempts[n] <= 1 + MAX_RETRY_PER_NETWORK
  BY <1>1, WiFiAssumption
<1>5. losses + 0 <= TotalAttempts
  <2>1. losses = 0
    BY DEF Init
  <2>2. TotalAttempts \in Nat
    BY <1>1, TotalIsNat
  <2> QED BY <2>1, <2>2
<1> QED BY <1>1, <1>2, <1>3, <1>4, <1>5 DEF Budget

\* Lemma: five positions with so many attempts each.
LEMMA BudgetBounds ==
    ASSUME Inv, Budget
    PROVE  AttemptsRunOut
<1>1. MAX_RETRY_PER_NETWORK \in Nat /\ losses \in Nat /\ TotalAttempts \in Nat
  BY WiFiAssumption, TotalIsNat DEF Budget, Inv, TypeOK
<1>2. losses <= TotalAttempts
  BY <1>1 DEF Budget
<1>3. \A n \in 1 .. 5 : attempts[n] \in Nat /\ attempts[n] <= 1 + MAX_RETRY_PER_NETWORK
  BY DEF Budget, WIFI_MAX_NETWORKS
<1>4. TotalAttempts <= 5 * (1 + MAX_RETRY_PER_NETWORK)
  <2>1. 1 \in 1 .. 5 /\ 2 \in 1 .. 5 /\ 3 \in 1 .. 5 /\ 4 \in 1 .. 5 /\ 5 \in 1 .. 5
    OBVIOUS
  <2> QED BY <1>1, <1>3, <2>1 DEF TotalAttempts
<1> QED BY <1>2, <1>4 DEF AttemptsRunOut, WIFI_MAX_NETWORKS

\* Theorem: for all losses, failures and posted lists, the manager makes at most
\* 1 + MAX_RETRY_PER_NETWORK attempts at each of WIFI_MAX_NETWORKS positions in the life of the
\* device, and the station can be lost no more often than that: success gives no
\* retry back (on_wifi_event leaves g_current_retry alone in IP_EVENT_STA_GOT_IP).
THEOREM AttemptsRunOutCorrect == Spec => []AttemptsRunOut
<1>1. Inv /\ Budget /\ [Next]_vars => Budget'
  BY EventSpends, DriverSpends, PostSpends DEF Next
<1>2. Inv /\ Budget => AttemptsRunOut
  BY BudgetBounds
<1> QED BY <1>1, <1>2, InitBudget, WiFiInvariant, PTL DEF Spec

\* Theorem: ALL_STA_FAILED is for good: after it no attempt is made, whatever arrives
\* from the driver or is posted.
THEOREM FailureIsFinalCorrect == Spec => [][FailureIsFinal]_vars
<1>1. Inv /\ Budget /\ [Next]_vars => Budget'
  BY EventSpends, DriverSpends, PostSpends DEF Next
<1>2. Inv /\ Budget /\ [Next]_vars => [FailureIsFinal]_vars
  BY EventSpends, DriverSpends, PostSpends DEF Next
<1> QED BY <1>1, <1>2, InitBudget, WiFiInvariant, PTL DEF Spec
=============================================================================
