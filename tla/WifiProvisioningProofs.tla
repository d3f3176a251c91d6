----------------------- MODULE WifiProvisioningProofs -----------------------
(***************************************************************************)
(* Safety of WifiProvisioning for every number of retries and every set of *)
(* accounts.  The properties follow from one inductive invariant: DriverOK *)
(* says which events can be posted in each state of the station, TaskOK    *)
(* how smartconfig_task, its session and the event group go together.      *)
(***************************************************************************)
EXTENDS WifiProvisioning, SequenceTheorems, TLAPS

DriverOK ==
  /\ station = "off" => events = <<>> /\ task = "none"
  /\ station = "connecting" => events = <<>>
  /\ station = "up" => events = <<>> \/ events = <<"got_ip">>
  /\ station = "idle" => \/ events = <<>> \/ events = <<"start">>
                         \/ events = <<"disconnected">>
                         \/ events = <<"got_ip", "disconnected">>
  /\ events = <<"start">> => task = "none"

TaskOK ==
  /\ smartconfig_handle <=> task # "none"
  /\ task \in {"none", "deleted"} => session = "off"
  /\ task = "none" => bits = {}
  /\ task = "start" => session \in {"off", "linked"}
  /\ task = "wait" => session # "off" /\ (session = "over" <=> "ESPTOUCH_DONE" \in bits)
  /\ task = "wait" /\ "DISCONNECTED" \in bits
       => station = "idle" /\ events = <<>> /\ session \in {"linked", "over"}

AccountOK ==
  /\ session = "storing" => nvs.ssid \in Accounts
  /\ session \in {"linked", "over"} \/ task = "deleted" => Usable(nvs) /\ config = nvs

\* The safety properties and what they rest on.
Inv == /\ TypeOK /\ DriverOK /\ TaskOK /\ AccountOK
       /\ SessionOwnsRadio /\ FallsBackUntilConfigured

USE ProvisioningAssumption DEF ProvisioningAssumption

-----------------------------------------------------------------------------
(* The event queue. *)

LEMMA Queues ==
  /\ <<>> \in Seq(EventIds) /\ <<"start">> \in Seq(EventIds)
  /\ <<"disconnected">> \in Seq(EventIds) /\ <<"got_ip">> \in Seq(EventIds)
  /\ <<"got_ip", "disconnected">> \in Seq(EventIds)
BY DEF EventIds

LEMMA AppendToOne ==
  ASSUME NEW S, NEW q \in Seq(S), NEW e \in S, NEW r \in Seq(S)
  PROVE  Len(q) = 1 /\ Len(r) = 2 /\ r[1] = q[1] /\ r[2] = e => Append(q, e) = r
<1> DEFINE p == Append(q, e)
<1>1. /\ p \in Seq(S) /\ Len(p) = Len(q) + 1
      /\ \A i \in 1..Len(q) : p[i] = q[i]
      /\ p[Len(q) + 1] = e
  BY AppendProperties
<1> HIDE DEF p
<1> SUFFICES ASSUME Len(q) = 1, Len(r) = 2, r[1] = q[1], r[2] = e
             PROVE  p = r
  BY DEF p
<1>2. Len(q) + 1 = 2 /\ 1 \in 1..Len(q)
  OBVIOUS
<1>3. Len(p) = 2 /\ p[1] = r[1] /\ p[2] = r[2]
  BY <1>1, <1>2
<1>4. QED BY <1>1, <1>3, SeqEqual

LEMMA Appends ==
  ASSUME NEW q
  PROVE  /\ q = <<>> => /\ Append(q, "disconnected") = <<"disconnected">>
                        /\ Append(q, "got_ip") = <<"got_ip">>
         /\ q = <<"got_ip">> =>
              Append(q, "disconnected") = <<"got_ip", "disconnected">>
<1>1. ASSUME q = <<>>
      PROVE  /\ Append(q, "disconnected") = <<"disconnected">>
             /\ Append(q, "got_ip") = <<"got_ip">>
  BY <1>1
<1>2. ASSUME q = <<"got_ip">>
      PROVE  Append(q, "disconnected") = <<"got_ip", "disconnected">>
  <2> DEFINE r == <<"got_ip", "disconnected">>
  <2>1. q \in Seq(EventIds) /\ Len(q) = 1 /\ q[1] = "got_ip"
    BY <1>2, Queues
  <2>2. /\ r \in Seq(EventIds) /\ Len(r) = 2
        /\ r[1] = "got_ip" /\ r[2] = "disconnected"
    BY Queues
  <2>3. "disconnected" \in EventIds
    BY DEF EventIds
  <2> HIDE DEF r
  <2>4. Append(q, "disconnected") = r
    BY <2>1, <2>2, <2>3, AppendToOne
  <2>5. QED BY <2>4 DEF r
<1>3. QED BY <1>1, <1>2

LEMMA Heads ==
  /\ Head(<<"start">>) = "start" /\ Tail(<<"start">>) = <<>>
  /\ Head(<<"disconnected">>) = "disconnected" /\ Tail(<<"disconnected">>) = <<>>
  /\ Head(<<"got_ip">>) = "got_ip" /\ Tail(<<"got_ip">>) = <<>>
  /\ Head(<<"got_ip", "disconnected">>) = "got_ip"
  /\ Tail(<<"got_ip", "disconnected">>) = <<"disconnected">>
OBVIOUS

LEMMA QueuesDiffer ==
  /\ <<>> # <<"start">> /\ <<>> # <<"disconnected">> /\ <<>> # <<"got_ip">>
  /\ <<>> # <<"got_ip", "disconnected">>
  /\ <<"start">> # <<"disconnected">> /\ <<"start">> # <<"got_ip">>
  /\ <<"start">> # <<"got_ip", "disconnected">>
  /\ <<"disconnected">> # <<"got_ip">>
  /\ <<"disconnected">> # <<"got_ip", "disconnected">>
OBVIOUS

\* What each handler finds.
LEMMA Handled ==
  ASSUME TypeOK, DriverOK
  PROVE  /\ Handles("start") => station = "idle" /\ events' = <<>> /\ task = "none"
         /\ Handles("disconnected") =>
              station = "idle" /\ events' = <<>> /\ events = <<"disconnected">>
         /\ Handles("got_ip") =>
              \/ station = "up" /\ events' = <<>>
              \/ station = "idle" /\ events' = <<"disconnected">>
<1>1. \/ events = <<>> /\ station \in StationStates
      \/ events = <<"start">> /\ station = "idle" /\ task = "none"
      \/ events = <<"disconnected">> /\ station = "idle"
      \/ events = <<"got_ip">> /\ station = "up"
      \/ events = <<"got_ip", "disconnected">> /\ station = "idle"
  BY DEF TypeOK, StationStates, DriverOK
<1>2. CASE events = <<>>
  BY <1>2 DEF Handles
<1>3. CASE events = <<"start">> /\ station = "idle" /\ task = "none"
  BY <1>3, Heads DEF Handles
<1>4. CASE events = <<"disconnected">> /\ station = "idle"
  BY <1>4, Heads DEF Handles
<1>5. CASE events = <<"got_ip">> /\ station = "up"
  BY <1>5, Heads DEF Handles
<1>6. CASE events = <<"got_ip", "disconnected">> /\ station = "idle"
  BY <1>6, Heads DEF Handles
<1>7. QED BY <1>1, <1>2, <1>3, <1>4, <1>5, <1>6

-----------------------------------------------------------------------------
LEMMA InitInv == Init => Inv
<1> SUFFICES ASSUME Init PROVE Inv
  OBVIOUS
<1>1. TypeOK
  <2>1. nvs \in Credentials /\ config \in Credentials
    BY DEF Init, Credentials, Nothing
  <2>2. events \in Seq(EventIds) /\ s_retry_num \in 0..WIFI_RESTART_NUM
    BY Queues DEF Init
  <2>3. QED BY <2>1, <2>2
               DEF Init, TypeOK, StationStates, TaskStates, Bits, SessionStates
<1>2. QED BY <1>1, QueuesDiffer
             DEF Init, Inv, DriverOK, TaskOK, AccountOK, SessionOwnsRadio,
                 FallsBackUntilConfigured, Stranded, Finishing

LEMMA NextInv == Inv /\ [Next]_vars => Inv'
<1> SUFFICES ASSUME Inv, [Next]_vars PROVE Inv'
  OBVIOUS
<1> USE Queues, QueuesDiffer
<1> USE DEF Inv, TypeOK, DriverOK, TaskOK, AccountOK, SessionOwnsRadio,
            FallsBackUntilConfigured, Stranded, Finishing, Provisioning,
            StationStates, TaskStates, Bits, SessionStates,
            driver, provisioning, vars
<1>1. CASE initialise_wifi
  BY <1>1 DEF initialise_wifi, Credentials, Nothing
<1>2. CASE PowerCycle
  <2>1. config' \in Credentials
    BY <1>2 DEF PowerCycle, PowerOff, Credentials, Nothing
  <2>2. /\ UNCHANGED nvs /\ station' = "off" /\ events' = <<>>
        /\ s_retry_num' = WIFI_RESTART_NUM
        /\ smartconfig_handle' = FALSE /\ task' = "none" /\ bits' = {}
        /\ session' = "off"
    BY <1>2 DEF PowerCycle, PowerOff
  <2>9. events' \in Seq(EventIds) /\ s_retry_num' \in 0..WIFI_RESTART_NUM
    BY <2>2
  <2>3. TypeOK'
    BY <2>1, <2>2, <2>9
  <2>4. DriverOK'
    BY <2>2
  <2>8. AccountOK'
    BY <2>2
  <2>5. TaskOK'
    BY <2>2
  <2>6. SessionOwnsRadio' /\ FallsBackUntilConfigured'
    BY <2>1, <2>2
  <2>7. QED BY <2>3, <2>4, <2>5, <2>6, <2>8
<1>3. CASE JoinFails
  BY <1>3, Appends DEF JoinFails, Posts
<1>4. CASE Joins
  BY <1>4, Appends DEF Joins, Posts
<1>5. CASE LinkDrops
  BY <1>5, Appends DEF LinkDrops, Posts
<1>6. CASE on_wifi_start
  BY <1>6, Handled DEF on_wifi_start, esp_wifi_connect
<1>7. CASE on_wifi_disconnect
  <2>1. /\ station = "idle" /\ events' = <<>> /\ events = <<"disconnected">>
        /\ UNCHANGED <<nvs, config>>
    BY <1>7, Handled DEF on_wifi_disconnect
  <2>2. CASE Reconnects
    BY <2>1, <2>2 DEF Reconnects, esp_wifi_connect
  <2>3. CASE FallsBack
    <3>1. CASE ~smartconfig_handle
      <4>1. /\ smartconfig_handle' = TRUE /\ task' = "start" /\ UNCHANGED <<bits, session>>
            /\ station' = "idle" /\ s_retry_num' = WIFI_RESTART_NUM
        BY <2>1, <2>3, <3>1 DEF FallsBack
      <4>2. QED BY <2>1, <3>1, <4>1
    <3>2. CASE smartconfig_handle
      <4>1. /\ UNCHANGED <<smartconfig_handle, task, session>>
            /\ bits' = bits \cup {"DISCONNECTED"}
            /\ station' = "idle" /\ s_retry_num' = WIFI_RESTART_NUM
        BY <2>1, <2>3, <3>2 DEF FallsBack
      <4>2. QED BY <2>1, <3>2, <4>1
    <3>3. QED BY <3>1, <3>2
  <2>4. QED BY <1>7, <2>2, <2>3 DEF on_wifi_disconnect
<1>8. CASE on_got_ip
  <2>1. /\ UNCHANGED <<nvs, config, station, s_retry_num, smartconfig_handle, task,
                       session>>
        /\ bits' \in {bits, bits \cup {"CONNECTED"}}
        /\ ~smartconfig_handle => bits' = bits
    BY <1>8 DEF on_got_ip
  <2>2. CASE station = "up" /\ events' = <<>>
    BY <2>1, <2>2
  <2>3. CASE station = "idle" /\ events' = <<"disconnected">> /\ events # <<>>
    BY <2>1, <2>3
  <2>4. QED BY <1>8, <2>2, <2>3, Handled DEF on_got_ip, Handles
<1>9. ASSUME NEW a \in Accounts, LinkStoresSsid(a) PROVE Inv'
  BY <1>9 DEF LinkStoresSsid, Credentials
<1>10. CASE LinkConnects
  BY <1>10 DEF LinkConnects, Credentials, Usable
<1>11. CASE LinkOver
  BY <1>11 DEF LinkOver
<1>12. CASE start_smartconfig
  BY <1>12 DEF start_smartconfig
<1>13. CASE WaitBits
  <2>1. CASE Configured
    BY <1>13, <2>1 DEF WaitBits, Configured
  <2>2. CASE Restarted
    BY <1>13, <2>2 DEF WaitBits, Restarted
  <2>3. CASE Logged
    BY <1>13, <2>3 DEF WaitBits, Logged
  <2>4. QED BY <1>13, <2>1, <2>2, <2>3 DEF WaitBits
<1>14. CASE UNCHANGED vars
  BY <1>14 DEF Usable
<1>15. QED
  BY <1>1, <1>2, <1>3, <1>4, <1>5, <1>6, <1>7, <1>8, <1>9, <1>10, <1>11, <1>12,
     <1>13, <1>14 DEF Next, Driver, EventLoop, Phone

LEMMA Invariant == Spec => []Inv
BY InitInv, NextInv, PTL DEF Spec

\* The variables keep their types; s_retry_num never falls below zero.
THEOREM TypeCorrect == Spec => []TypeOK
<1>1. Inv => TypeOK
  BY DEF Inv
<1>2. QED BY <1>1, Invariant, PTL

\* No attempt to connect disturbs a smartconfig session that waits for
\* credentials (on_wifi_disconnect, smartconfig_task).
THEOREM SessionUndisturbed == Spec => []SessionOwnsRadio
<1>1. Inv => SessionOwnsRadio
  BY DEF Inv
<1>2. QED BY <1>1, Invariant, PTL

\* Until its first session is over, a node that stops connecting starts
\* smartconfig (on_wifi_disconnect).  A fallback that finds ESPTOUCH_DONE set, or
\* smartconfig_task deleted, is lost and is no part of this.
THEOREM FallsBackAtFirst == Spec => []FallsBackUntilConfigured
<1>1. Inv => FallsBackUntilConfigured
  BY DEF Inv
<1>2. QED BY <1>1, Invariant, PTL

\* A session that is over has stored the account the station uses
\* (sc_callback).
THEOREM SessionStoresItsAccount == Spec => []StoredAccountIsUsed
<1>1. Inv => StoredAccountIsUsed
  BY DEF Inv, AccountOK, StoredAccountIsUsed
<1>2. QED BY <1>1, Invariant, PTL

=============================================================================
