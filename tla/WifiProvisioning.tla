-------------------------- MODULE WifiProvisioning --------------------------
(***************************************************************************)
(* How a sensor gets on the Wi-Fi, RTOS-firmware/src/main/conn_config.c:   *)
(* three contexts that share an event group and a task handle.             *)
(*                                                                         *)
(*   event loop   runs on_wifi_start, on_wifi_disconnect and on_got_ip,    *)
(*                one posted event at a time;                              *)
(*   smartconfig  sc_callback, called as a phone sends credentials;        *)
(*   task         smartconfig_task, which waits on the event group.        *)
(*                                                                         *)
(* The node may lose power at any moment and keeps only its flash memory.  *)
(* smartconfig_task clears the event group in the step that starts the     *)
(* session: the radio takes far longer to hear a phone than the task to    *)
(* run from line 180 to line 182.                                          *)
(***************************************************************************)
EXTENDS Naturals, Sequences

CONSTANTS WIFI_RESTART_NUM,  \* attempts to reconnect before falling back
          Accounts,          \* access points, each with its SSID and password
          Absent             \* no such key in flash memory

ASSUME ProvisioningAssumption ==
  /\ WIFI_RESTART_NUM \in Nat
  /\ Absent \notin Accounts

VARIABLES
  nvs,                \* keys "ssid" and "password" in flash memory
  config,             \* wifi_config of the station
  station,            \* the station interface
  events,             \* posted to the default event loop, oldest first
  s_retry_num,
  smartconfig_handle, \* is it not NULL?
  task,               \* smartconfig_task
  bits,               \* wifi_event_group
  session             \* the smartconfig session

driver == <<config, station, events>>
provisioning == <<smartconfig_handle, task, bits, session>>
vars == <<nvs, driver, s_retry_num, provisioning>>

\* A SSID or password is that of an account.  Flash memory holds both, one of
\* them, or none; a pair of two accounts opens no access point.
Credentials == [ssid : Accounts \cup {Absent}, password : Accounts \cup {Absent}]
Nothing == [ssid |-> Absent, password |-> Absent]   \* also "configuration"
Usable(c) == c.ssid \in Accounts /\ c.password = c.ssid

StationStates == {"off", "idle", "connecting", "up"}
EventIds == {"start", "disconnected", "got_ip"}
TaskStates == {"none", "start", "wait", "deleted"}
Bits == {"CONNECTED", "DISCONNECTED", "ESPTOUCH_DONE"}
SessionStates == {"off", "listening", "storing", "linked", "over"}

\* The RAM of a node without power.
PowerOff ==
  /\ config' = Nothing /\ station' = "off" /\ events' = <<>>
  /\ s_retry_num' = WIFI_RESTART_NUM
  /\ smartconfig_handle' = FALSE /\ task' = "none" /\ bits' = {}
  /\ session' = "off"

Init ==
  /\ nvs = Nothing
  /\ config = Nothing /\ station = "off" /\ events = <<>>
  /\ s_retry_num = WIFI_RESTART_NUM
  /\ smartconfig_handle = FALSE /\ task = "none" /\ bits = {}
  /\ session = "off"

-----------------------------------------------------------------------------
initialise_wifi ==
  /\ station = "off"
  /\ station' = "idle"
  /\ events' = <<"start">>
  /\ IF Absent \notin {nvs.ssid, nvs.password}
       THEN config' = nvs /\ UNCHANGED s_retry_num
       ELSE config' = Nothing /\ s_retry_num' = 0
  /\ UNCHANGED <<nvs, provisioning>>

PowerCycle == station # "off" /\ PowerOff /\ UNCHANGED nvs

(* The driver. *)

Posts(e) == events' = Append(events, e)

esp_wifi_connect == station' = IF station = "up" THEN "up" ELSE "connecting"

JoinFails ==
  /\ station = "connecting"
  /\ station' = "idle"
  /\ Posts("disconnected")
  /\ UNCHANGED <<nvs, config, s_retry_num, provisioning>>

Joins ==
  /\ station = "connecting"
  /\ Usable(config)
  /\ station' = "up"
  /\ Posts("got_ip")
  /\ UNCHANGED <<nvs, config, s_retry_num, provisioning>>

LinkDrops ==
  /\ station = "up"
  /\ station' = "idle"
  /\ Posts("disconnected")
  /\ UNCHANGED <<nvs, config, s_retry_num, provisioning>>

-----------------------------------------------------------------------------
(* The event loop. *)

Handles(e) ==
  /\ events # <<>>
  /\ Head(events) = e
  /\ events' = Tail(events)

on_wifi_start ==
  /\ Handles("start")
  /\ esp_wifi_connect
  /\ UNCHANGED <<nvs, config, s_retry_num, provisioning>>

\* Mutant: the attempts are not limited, only counted.
CountsBelowZero ==
  /\ s_retry_num' = s_retry_num - 1
  /\ esp_wifi_connect
  /\ UNCHANGED provisioning

Reconnects ==
  /\ s_retry_num # 0
  /\ s_retry_num' = s_retry_num - 1
  /\ esp_wifi_connect
  /\ UNCHANGED provisioning

\* Mutant: no else before esp_wifi_connect.
FallsBackAndConnects ==
  /\ s_retry_num = 0
  /\ s_retry_num' = WIFI_RESTART_NUM
  /\ \/ /\ ~smartconfig_handle
        /\ smartconfig_handle' = TRUE
        /\ task' = "start"
        /\ UNCHANGED bits
     \/ /\ smartconfig_handle
        /\ bits' = bits \cup {"DISCONNECTED"}
        /\ UNCHANGED <<smartconfig_handle, task>>
  /\ esp_wifi_connect
  /\ UNCHANGED session

\* Mutant: a node with both keys in flash memory never asks for an account.
FallsBackWithoutKeys ==
  /\ s_retry_num = 0
  /\ s_retry_num' = WIFI_RESTART_NUM
  /\ \/ /\ ~smartconfig_handle /\ Absent \in {nvs.ssid, nvs.password}
        /\ smartconfig_handle' = TRUE
        /\ task' = "start"
        /\ UNCHANGED <<station, bits>>
     \/ /\ ~smartconfig_handle /\ Absent \notin {nvs.ssid, nvs.password}
        /\ esp_wifi_connect
        /\ UNCHANGED <<smartconfig_handle, task, bits>>
     \/ /\ smartconfig_handle
        /\ bits' = bits \cup {"DISCONNECTED"}
        /\ UNCHANGED <<station, smartconfig_handle, task>>
  /\ UNCHANGED session

FallsBack ==
  /\ s_retry_num = 0
  /\ s_retry_num' = WIFI_RESTART_NUM
  /\ \/ /\ ~smartconfig_handle
        /\ smartconfig_handle' = TRUE
        /\ task' = "start"
        /\ UNCHANGED bits
     \/ /\ smartconfig_handle
        /\ bits' = bits \cup {"DISCONNECTED"}
        /\ UNCHANGED <<smartconfig_handle, task>>
  /\ UNCHANGED <<station, session>>

on_wifi_disconnect ==
  /\ Handles("disconnected")
  /\ Reconnects \/ FallsBack
  /\ UNCHANGED <<nvs, config>>

on_got_ip ==
  /\ Handles("got_ip")
  /\ bits' = IF smartconfig_handle THEN bits \cup {"CONNECTED"} ELSE bits
  /\ UNCHANGED <<nvs, config, station, s_retry_num, smartconfig_handle, task,
                 session>>

-----------------------------------------------------------------------------
(* sc_callback. *)

\* SC_STATUS_LINK, up to the first of its two writes.
LinkStoresSsid(a) ==
  /\ session = "listening"
  /\ nvs' = [nvs EXCEPT !.ssid = a]
  /\ session' = "storing"
  /\ UNCHANGED <<driver, s_retry_num, smartconfig_handle, task, bits>>

\* Mutant: the password is not written to flash memory.
LinkConnectsUnstored ==
  /\ session = "storing"
  /\ config' = [nvs EXCEPT !.password = nvs.ssid]
  /\ station' = "connecting"
  /\ IF station = "idle" THEN UNCHANGED events ELSE Posts("disconnected")
  /\ session' = "linked"
  /\ UNCHANGED <<nvs, s_retry_num, smartconfig_handle, task, bits>>

\* The rest of it: the other write, and the station set to the new account.
LinkConnects ==
  /\ session = "storing"
  /\ nvs' = [nvs EXCEPT !.password = nvs.ssid]
  /\ config' = nvs'
  /\ station' = "connecting"
  /\ IF station = "idle" THEN UNCHANGED events ELSE Posts("disconnected")
  /\ session' = "linked"
  /\ UNCHANGED <<s_retry_num, smartconfig_handle, task, bits>>

\* SC_STATUS_LINK_OVER: the phone has the acknowledgement of a connected node.
LinkOver ==
  /\ session = "linked"
  /\ station = "up"
  /\ session' = "over"
  /\ bits' = bits \cup {"ESPTOUCH_DONE"}
  /\ UNCHANGED <<nvs, driver, s_retry_num, smartconfig_handle, task>>

-----------------------------------------------------------------------------
(* smartconfig_task. *)

start_smartconfig ==
  /\ task = "start"
  /\ task' = "wait"
  /\ session' = "listening"
  /\ bits' = {}
  /\ UNCHANGED <<nvs, driver, s_retry_num, smartconfig_handle>>

\* xEventGroupWaitBits and what the task does with the bits.
Configured ==
  /\ task = "wait"
  /\ "ESPTOUCH_DONE" \in bits
  /\ session' = "off"
  /\ task' = "deleted"

\* Mutant: the task waits on instead of going back to start_smartconfig.
WaitsOn ==
  /\ task = "wait"
  /\ "ESPTOUCH_DONE" \notin bits
  /\ "DISCONNECTED" \in bits
  /\ UNCHANGED <<task, session>>

Restarted ==
  /\ task = "wait"
  /\ "ESPTOUCH_DONE" \notin bits
  /\ "DISCONNECTED" \in bits
  /\ task' = "start"
  /\ UNCHANGED session

Logged ==
  /\ task = "wait"
  /\ bits = {"CONNECTED"}
  /\ UNCHANGED <<task, session>>

WaitBits ==
  /\ Configured \/ Restarted \/ Logged
  /\ bits' = {}
  /\ UNCHANGED <<nvs, driver, s_retry_num, smartconfig_handle>>

-----------------------------------------------------------------------------
Phone == \E a \in Accounts : LinkStoresSsid(a)

EventLoop == on_wifi_start \/ on_wifi_disconnect \/ on_got_ip
Driver == JoinFails \/ Joins

Next == \/ initialise_wifi \/ PowerCycle
        \/ Driver \/ LinkDrops \/ EventLoop
        \/ Phone \/ LinkConnects \/ LinkOver
        \/ start_smartconfig \/ WaitBits

Spec == Init /\ [][Next]_vars

\* The node boots when it has power, every task gets the processor, and the
\* driver answers every attempt to connect.  Nobody has to hold a phone.
Fairness == /\ WF_vars(initialise_wifi) /\ WF_vars(EventLoop) /\ WF_vars(Driver)
            /\ WF_vars(LinkConnects)
            /\ WF_vars(start_smartconfig) /\ WF_vars(WaitBits)

FairSpec == Spec /\ Fairness

-----------------------------------------------------------------------------
TypeOK ==
  /\ nvs \in Credentials
  /\ config \in Credentials
  /\ station \in StationStates
  /\ events \in Seq(EventIds)
  /\ s_retry_num \in 0..WIFI_RESTART_NUM
  /\ smartconfig_handle \in BOOLEAN
  /\ task \in TaskStates
  /\ bits \subseteq Bits
  /\ session \in SessionStates

Stranded == station = "idle" /\ events = <<>>

\* The task is about to delete itself: it looks at ESPTOUCH_DONE first, and
\* drops a DISCONNECTED that it wakes up with.
Finishing == task = "wait" /\ "ESPTOUCH_DONE" \in bits

\* A smartconfig session listens, or is about to be started.
Provisioning ==
  \/ session \in {"listening", "storing"}
  \/ task = "start"
  \/ task = "wait" /\ "DISCONNECTED" \in bits /\ "ESPTOUCH_DONE" \notin bits

\* While a session waits for credentials, or is about to, the station is out of
\* its way: no attempt to connect is under way and none will be made by an
\* event still posted.
SessionOwnsRadio ==
  session \in {"listening", "storing"} \/ task = "start" => Stranded

\* A node that has given up connecting can be given an account, unless its first
\* session is over: once the phone has had its answer, smartconfig_task is about
\* to delete itself or has done so, and a fallback is lost in either state.  The
\* excluded states are those that violate FallsBackToSmartconfig.
FallsBackUntilConfigured ==
  Stranded /\ task # "deleted" /\ ~Finishing => Provisioning

\* "WIFI_EVENT_STA_DISCONNECT s_retry_num times -> drop wifi_connect(), start
\* smartconfig" (conn_config.c:116): a node that has given up connecting can be
\* given an account.
FallsBackToSmartconfig == Stranded => Provisioning

\* A session that is over has left in flash memory one whole account, the one
\* the station uses, so that the next boot connects to it.
StoredAccountIsUsed ==
  session = "over" \/ task = "deleted" => Usable(nvs) /\ config = nvs

\* Power lost between the two writes of SC_STATUS_LINK leaves credentials of
\* two accounts: the node finds out and asks for an account again.
TornCredentialsAreReplaced ==
  station # "off" /\ ~Usable(nvs)
    ~> Usable(nvs) \/ session = "listening" \/ station = "off"

=============================================================================
