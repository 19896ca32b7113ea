---------------------------- MODULE WiFiManager ----------------------------
(***************************************************************************)
(* The station side of WiFiManager: the event loop's task calls             *)
(* on_wifi_event with the driver's events, one at a time and in order;      *)
(* meanwhile the driver connects, fails and loses connections, and the bus  *)
(* task may replace the list of networks that WiFiManager reads.            *)
(***************************************************************************)
EXTENDS Integers, Sequences

CONSTANTS
    Configs,                \* station configurations: sequences of SSIDs
    Empty,                  \* the SSID of length zero
    MAX_RETRY_PER_NETWORK,
    MaxLosses,              \* bound on the times a connection is lost
    MaxPosts                \* bound on the new configurations

\* The most networks a list can name.
WIFI_MAX_NETWORKS == 5

ASSUME WiFiAssumption ==
    /\ Configs # {}
    /\ \A config \in Configs :
          config \in Seq(STRING \union {Empty}) /\ Len(config) <= WIFI_MAX_NETWORKS
    /\ MAX_RETRY_PER_NETWORK \in Nat
    /\ MaxLosses \in Nat /\ MaxPosts \in Nat

WiFiEvents == {"AP_START", "STA_START", "STA_DISCONNECTED", "GOT_IP"}

VARIABLES
    sta_cfg,                \* WiFiConfig's list, read through a pointer
    posted,                 \* the list a POST is filling in; << >> when none is
    g_status, g_current_sta_index, g_all_sta_failed, g_current_retry,
    driver,                 \* "off", "idle", "connecting" or "up"
    driver_ssid,            \* the network esp_wifi_set_config chose
    events,                 \* the event loop's queue
    losses, posts,          \* counters
    attempts,               \* history: connection attempts per position of the list
    since_address,          \* history: attempts since the last address
    met_empty               \* history: connect_next_sta came to an empty SSID

manager == <<g_status, g_current_sta_index, g_all_sta_failed, g_current_retry>>
config == <<sta_cfg, posted, posts>>
history == <<attempts, since_address, met_empty>>
vars == <<config, manager, driver, driver_ssid, events, losses, history>>

Init ==
    /\ sta_cfg \in Configs /\ posted = << >>
    /\ g_status = "INIT" /\ g_current_sta_index = 0 /\ g_all_sta_failed = FALSE
    /\ g_current_retry = 0
    /\ driver = "off" /\ driver_ssid = Empty /\ events = << >>
    /\ losses = 0 /\ posts = 0
    /\ attempts = [n \in 1 .. WIFI_MAX_NETWORKS |-> 0] /\ since_address = 0 /\ met_empty = FALSE

-----------------------------------------------------------------------------
(* WiFiManager.                                                              *)

\* start_apsta_async: both interfaces start, in an order the driver chooses.
start_apsta_async ==
    /\ driver = "off"
    /\ g_current_sta_index' = 0
    /\ g_all_sta_failed' = FALSE
    /\ driver' = "idle"
    /\ events' \in {<<"STA_START", "AP_START">>, <<"AP_START", "STA_START">>}
    /\ UNCHANGED <<config, g_status, g_current_retry, driver_ssid, losses, history>>

esp_wifi_connect ==
    /\ driver' = "connecting"
    /\ since_address' = since_address + 1
    /\ attempts' = [attempts EXCEPT ![g_current_sta_index' + 1] = @ + 1]
    /\ UNCHANGED met_empty

\* The next network of the list, if there is one; nothing at all when its SSID
\* is empty.
connect_next_sta ==
    IF g_current_sta_index' >= Len(sta_cfg)
    THEN /\ g_status' = "ALL_STA_FAILED"
         /\ g_all_sta_failed' = TRUE
         /\ UNCHANGED <<driver, driver_ssid, history>>
    ELSE LET ssid == sta_cfg[g_current_sta_index' + 1] IN
         IF ssid = Empty
         THEN /\ met_empty' = TRUE
              /\ UNCHANGED <<g_status, g_all_sta_failed, driver, driver_ssid,
                             attempts, since_address>>
         ELSE /\ driver_ssid' = ssid
              /\ esp_wifi_connect
              /\ g_status' = "STA_CONNECTING"
              /\ UNCHANGED g_all_sta_failed

on_ap_start ==
    /\ Head(events) = "AP_START"
    /\ g_status' = "AP_STARTED"
    /\ UNCHANGED <<g_current_sta_index, g_all_sta_failed, g_current_retry, driver,
                   driver_ssid, history>>

on_sta_start ==
    /\ Head(events) = "STA_START"
    /\ g_current_retry' = 0
    /\ UNCHANGED g_current_sta_index
    /\ connect_next_sta

\* Counting a retry without connecting (faulty).
RetrySilently ==
    /\ Head(events) = "STA_DISCONNECTED"
    /\ g_current_retry < MAX_RETRY_PER_NETWORK
    /\ g_current_retry' = g_current_retry + 1
    /\ UNCHANGED <<g_status, g_current_sta_index, g_all_sta_failed, driver, driver_ssid, history>>

\* One retry too many (faulty).
RetryOnceMore ==
    /\ Head(events) = "STA_DISCONNECTED"
    /\ g_current_retry <= MAX_RETRY_PER_NETWORK
    /\ g_current_retry' = g_current_retry + 1
    /\ UNCHANGED <<g_status, g_current_sta_index, g_all_sta_failed, driver_ssid>>
    /\ esp_wifi_connect

\* The same network again.
on_sta_disconnected_retry ==
    /\ Head(events) = "STA_DISCONNECTED"
    /\ g_current_retry < MAX_RETRY_PER_NETWORK
    /\ g_current_retry' = g_current_retry + 1
    /\ UNCHANGED <<g_status, g_current_sta_index, g_all_sta_failed, driver_ssid>>
    /\ esp_wifi_connect

\* The next network without a fresh count of retries (faulty).
NextWithoutReset ==
    /\ Head(events) = "STA_DISCONNECTED"
    /\ g_current_retry >= MAX_RETRY_PER_NETWORK
    /\ g_current_sta_index' = g_current_sta_index + 1
    /\ UNCHANGED g_current_retry
    /\ connect_next_sta

on_sta_disconnected_next ==
    /\ Head(events) = "STA_DISCONNECTED"
    /\ g_current_retry >= MAX_RETRY_PER_NETWORK
    /\ g_current_retry' = 0
    /\ g_current_sta_index' = g_current_sta_index + 1
    /\ connect_next_sta

\* The address is announced on the bus; retries and index stay as they are.
on_got_ip ==
    /\ Head(events) = "GOT_IP"
    /\ g_status' = "STA_CONNECTED"
    /\ since_address' = 0
    /\ UNCHANGED <<g_current_sta_index, g_all_sta_failed, g_current_retry, driver,
                   driver_ssid, attempts, met_empty>>

on_wifi_event ==
    /\ events # << >>
    /\ events' = Tail(events)
    /\ \/ on_ap_start \/ on_sta_start
       \/ on_sta_disconnected_retry \/ on_sta_disconnected_next \/ on_got_ip
    /\ UNCHANGED <<config, losses>>

-----------------------------------------------------------------------------
(* The driver, and the list of networks.                                     *)

DriverFrame == UNCHANGED <<config, manager, driver_ssid, history>>

\* An attempt succeeds, and DHCP with it, or fails.
Associate ==
    /\ driver = "connecting"
    /\ driver' = "up"
    /\ events' = Append(events, "GOT_IP")
    /\ UNCHANGED losses
    /\ DriverFrame

Fail ==
    /\ driver = "connecting"
    /\ driver' = "idle"
    /\ events' = Append(events, "STA_DISCONNECTED")
    /\ UNCHANGED losses
    /\ DriverFrame

\* The access point goes away.
Lose ==
    /\ driver = "up"
    /\ losses < MaxLosses
    /\ losses' = losses + 1
    /\ driver' = "idle"
    /\ events' = Append(events, "STA_DISCONNECTED")
    /\ DriverFrame

\* sta_from_json, called by the bus task, writes the list in place: it sets the
\* count to zero first and lets it grow with the entries.
PostBegins ==
    /\ posted = << >>
    /\ posts < MaxPosts
    /\ posts' = posts + 1
    /\ posted' \in Configs
    /\ sta_cfg' = << >>
    /\ UNCHANGED <<manager, driver, driver_ssid, events, losses, history>>

PostEntry ==
    /\ posted # << >>
    /\ sta_cfg' = Append(sta_cfg, Head(posted))
    /\ posted' = Tail(posted)
    /\ UNCHANGED <<posts, manager, driver, driver_ssid, events, losses, history>>

sta_from_json == PostBegins \/ PostEntry

Next ==
    \/ start_apsta_async \/ on_wifi_event
    \/ Associate \/ Fail \/ Lose
    \/ sta_from_json

\* The event loop runs, an attempt ends one way or the other.
Fairness ==
    /\ WF_vars(start_apsta_async) /\ WF_vars(on_wifi_event)
    /\ WF_vars(Associate \/ Fail) /\ WF_vars(PostEntry)

Spec == Init /\ [][Next]_vars /\ Fairness

-----------------------------------------------------------------------------
TypeOK ==
    /\ posted = << >> => sta_cfg \in Configs
    /\ g_status \in {"INIT", "AP_STARTED", "STA_CONNECTING", "STA_CONNECTED", "ALL_STA_FAILED"}
    /\ g_current_sta_index \in Nat /\ g_current_retry \in 0 .. MAX_RETRY_PER_NETWORK
    /\ g_all_sta_failed \in BOOLEAN
    /\ driver \in {"off", "idle", "connecting", "up"}
    /\ events \in Seq(WiFiEvents)
    /\ losses \in Nat /\ posts \in Nat /\ since_address \in Nat /\ met_empty \in BOOLEAN

Pending(types) == \E j \in DOMAIN events : events[j] \in types

\* Nothing will ever make the station connect again, and nobody said so.
Stalled ==
    /\ driver = "idle"
    /\ ~Pending({"STA_START", "STA_DISCONNECTED"})
    /\ ~g_all_sta_failed

\* The station is trying, connected, or known to have failed: no chain of
\* failures, losses and new lists loses the thread.  The one exception is the
\* return of connect_next_sta for an empty SSID.
NoStall == Stalled => met_empty

\* Without losses, and with the list as it was: networks are tried in the order
\* of the list, with 1 + MAX_RETRY_PER_NETWORK attempts each, all of which were
\* made before the manager gives up.
EveryNetworkTried ==
    losses = 0 /\ posts = 0 =>
        /\ \A n \in 1 .. Len(sta_cfg) :
              /\ attempts[n] <= 1 + MAX_RETRY_PER_NETWORK
              /\ n < g_current_sta_index + 1 => attempts[n] = 1 + MAX_RETRY_PER_NETWORK
              /\ n > g_current_sta_index + 1 => attempts[n] = 0
        /\ g_all_sta_failed => g_current_sta_index = Len(sta_cfg)

\* The station ends up connected, or the access point alone remains: it does
\* not go on retrying for ever, and only an empty SSID leaves it neither way.
Settles ==
    <>[](driver = "up" \/ g_all_sta_failed \/ met_empty)

\* README "robust reconnection": a station that had an address does not give up
\* without one attempt to get it back.
TriesToReconnect ==
    g_all_sta_failed /\ losses > 0 /\ posts = 0 => since_address > 0
=============================================================================
