------------------------- MODULE RtosFirmwareProofs -------------------------
(***************************************************************************)
(* RtosFirmware's invariants, proved for every number of control blocks    *)
(* and every count.  The first three need each other and the tie between   *)
(* unseen and counter; what the client has been handed (LagIsUnseen) needs *)
(* what the report in flight says, and what prev_counter suppresses        *)
(* (WithheldOnlyByRace) needs where it can be ahead of the counter.  What  *)
(* the broker has of it (NewestIsOwed) rests on the outbox alone.          *)
(***************************************************************************)
EXTENDS RtosFirmware, TLAPS

\* The report in flight is short of the counter by the items since its sprintf,
\* and those are the ones that raced with it.
InFlight ==
  ~doubled => \A s \in Senders :
    /\ sender[s] = "publish" => counter = json_msg[s] + unseen
    /\ sender[s] \in {"publish", "mark"} => unseen = 0 \/ raced
    /\ sender[s] = "mark" /\ ~lost => handed # NoReport

\* prev_counter is ahead of the counter on the first pass of a run only.
PrevIsBehind ==
  received = "start" /\ ~doubled /\ sender[data_sender] = "loop"
    => prev_counter <= counter \/ (handed = NoReport /\ counter = unseen)

Control == TypeOK /\ unseen <= counter /\ HandleIsLive /\ OneSender

IInv ==
  Control /\ InFlight /\ LagIsUnseen /\ NewestIsOwed /\ PrevIsBehind /\ WithheldOnlyByRace

USE FirmwareAssumption DEF FirmwareAssumption, Counts

-----------------------------------------------------------------------------

\* A node without power satisfies all of it, whatever it did before.
LEMMA BootHolds == Reboot => IInv'
<1> SUFFICES ASSUME Reboot PROVE IInv'
  OBVIOUS
<1>1. TypeOK'
  <2>1. (counter \in Counts /\ prev_counter \in Counts /\ unseen \in Counts
           /\ handed \in Counts \cup {NoReport} /\ reported \in Counts \cup {NoReport}
           /\ outbox \subseteq Counts)'
    BY DEF Reboot
  <2>2. (sender \in [Senders -> {"none", "loop", "publish", "mark"}])'
    BY DEF Reboot
  <2>3. (json_msg \in [Senders -> Counts])'
    BY DEF Reboot
  <2>4. (connected \in BOOLEAN /\ isr \in BOOLEAN /\ doubled \in BOOLEAN
           /\ lost \in BOOLEAN /\ raced \in BOOLEAN /\ late \in BOOLEAN)'
    BY DEF Reboot
  <2>5. (app_main \in {"off", "setup", "client", "done"}
           /\ received \in {"none", "start", "end"}
           /\ data_sender \in Senders \cup {Null})'
    BY DEF Reboot
  <2> QED
    BY <2>1, <2>2, <2>3, <2>4, <2>5 DEF TypeOK
<1>2. (unseen <= counter)' /\ HandleIsLive' /\ OneSender'
  BY DEF Reboot, HandleIsLive, OneSender, Alive
<1>3. InFlight' /\ LagIsUnseen' /\ NewestIsOwed' /\ PrevIsBehind' /\ WithheldOnlyByRace'
  BY
     DEF Reboot, InFlight, LagIsUnseen, NewestIsOwed, PrevIsBehind,
         WithheldOnlyByRace
<1> QED
  BY <1>1, <1>2, <1>3 DEF IInv, Control

LEMMA InitHolds == Init => IInv
<1> SUFFICES ASSUME Init PROVE IInv
  OBVIOUS
<1>1. TypeOK
  <2>1. (counter \in Counts /\ prev_counter \in Counts /\ unseen \in Counts
           /\ handed \in Counts \cup {NoReport} /\ reported \in Counts \cup {NoReport}
           /\ outbox \subseteq Counts)
    BY DEF Init
  <2>2. (sender \in [Senders -> {"none", "loop", "publish", "mark"}])
    BY DEF Init
  <2>3. (json_msg \in [Senders -> Counts])
    BY DEF Init
  <2>4. (connected \in BOOLEAN /\ isr \in BOOLEAN /\ doubled \in BOOLEAN
           /\ lost \in BOOLEAN /\ raced \in BOOLEAN /\ late \in BOOLEAN)
    BY DEF Init
  <2>5. (app_main \in {"off", "setup", "client", "done"}
           /\ received \in {"none", "start", "end"}
           /\ data_sender \in Senders \cup {Null})
    BY DEF Init
  <2> QED
    BY <2>1, <2>2, <2>3, <2>4, <2>5 DEF TypeOK
<1>2. unseen <= counter /\ HandleIsLive /\ OneSender
  BY DEF Init, HandleIsLive, OneSender, Alive
<1>3. InFlight /\ LagIsUnseen /\ NewestIsOwed /\ PrevIsBehind /\ WithheldOnlyByRace
  BY DEF Init, InFlight, LagIsUnseen, NewestIsOwed, PrevIsBehind, WithheldOnlyByRace
<1> QED
  BY <1>1, <1>2, <1>3 DEF IInv, Control

\* Types, and the bound that keeps unseen in its type.
LEMMA TypesStay ==
  ASSUME TypeOK, unseen <= counter, [Next]_vars
  PROVE  (TypeOK /\ unseen <= counter)'
<1>1. CASE mqtt_setup
  BY <1>1 DEF mqtt_setup, TypeOK, boot, tasks, broker, history
<1>2. CASE ClientAssigned
  BY <1>2 DEF ClientAssigned, TypeOK, boot, tasks, broker, history
<1>3. CASE gpio_install_isr_service
  BY <1>3 DEF gpio_install_isr_service, TypeOK, boot, tasks, broker, history
<1>4. CASE Connects
  BY <1>4 DEF Connects, TypeOK, boot, tasks, broker, history
<1>5. CASE Disconnects
  <2>1. /\ connected' \in BOOLEAN
        /\ UNCHANGED <<app_main, isr, counter, prev_counter, tasks, broker, history>>
    BY <1>5 DEF Disconnects
  <2>2. unseen' <= counter'
    BY <2>1 DEF history
  <2> QED
    BY <2>1, <2>2 DEF TypeOK, tasks, broker, history
<1>6. ASSUME NEW s \in Senders, StartTask(s) PROVE (TypeOK /\ unseen <= counter)'
  <2>1. (counter \in Counts /\ prev_counter \in Counts /\ unseen \in Counts
           /\ handed \in Counts \cup {NoReport} /\ reported \in Counts \cup {NoReport}
           /\ outbox \subseteq Counts)'
    BY <1>6 DEF StartTask, IsrService, TypeOK, boot, tasks, broker, history
  <2>2. (sender \in [Senders -> {"none", "loop", "publish", "mark"}])'
    BY <1>6 DEF StartTask, IsrService, TypeOK, boot, tasks, broker, history
  <2>3. (json_msg \in [Senders -> Counts])'
    BY <1>6 DEF StartTask, IsrService, TypeOK, boot, tasks, broker, history
  <2>4. (connected \in BOOLEAN /\ isr \in BOOLEAN /\ doubled \in BOOLEAN
           /\ lost \in BOOLEAN /\ raced \in BOOLEAN /\ late \in BOOLEAN)'
    BY <1>6 DEF StartTask, IsrService, TypeOK, boot, tasks, broker, history
  <2>5. (app_main \in {"off", "setup", "client", "done"}
           /\ received \in {"none", "start", "end"}
           /\ data_sender \in Senders \cup {Null})'
    BY <1>6 DEF StartTask, IsrService, TypeOK, boot, tasks, broker, history
  <2>6. unseen' <= counter'
    BY <1>6 DEF StartTask
  <2> QED
    BY <2>6, <2>1, <2>2, <2>3, <2>4, <2>5 DEF TypeOK
<1>7. CASE StartAborts
  BY <1>7, BootHolds DEF StartAborts, IInv, Control
<1>8. CASE EndTask
  BY <1>8 DEF EndTask, TypeOK, boot, tasks, broker, history
<1>9. CASE EndDeletesFreed
  <2>1. CASE Reboot
    BY <2>1, BootHolds DEF IInv, Control
  <2>2. CASE ~Reboot
    BY <1>9, <2>2 DEF EndDeletesFreed, TypeOK, boot, tasks, broker, history
  <2> QED
    BY <2>1, <2>2
<1>10. CASE Interrupt
  BY <1>10 DEF Interrupt, TypeOK, boot, tasks, broker, history
<1>11. ASSUME NEW s \in Senders, Format(s) PROVE (TypeOK /\ unseen <= counter)'
  <2>1. (counter \in Counts /\ prev_counter \in Counts /\ unseen \in Counts
           /\ handed \in Counts \cup {NoReport} /\ reported \in Counts \cup {NoReport}
           /\ outbox \subseteq Counts)'
    BY <1>11 DEF Format, TypeOK, boot, tasks, broker, history
  <2>2. (sender \in [Senders -> {"none", "loop", "publish", "mark"}])'
    BY <1>11 DEF Format, TypeOK, boot, tasks, broker, history
  <2>3. (json_msg \in [Senders -> Counts])'
    BY <1>11 DEF Format, TypeOK, boot, tasks, broker, history
  <2>4. (connected \in BOOLEAN /\ isr \in BOOLEAN /\ doubled \in BOOLEAN
           /\ lost \in BOOLEAN /\ raced \in BOOLEAN /\ late \in BOOLEAN)'
    BY <1>11 DEF Format, TypeOK, boot, tasks, broker, history
  <2>5. (app_main \in {"off", "setup", "client", "done"}
           /\ received \in {"none", "start", "end"}
           /\ data_sender \in Senders \cup {Null})'
    BY <1>11 DEF Format, TypeOK, boot, tasks, broker, history
  <2>6. unseen' <= counter'
    BY <1>11 DEF Format, TypeOK
  <2> QED
    BY <2>6, <2>1, <2>2, <2>3, <2>4, <2>5 DEF TypeOK
<1>12. ASSUME NEW s \in Senders, PublishReport(s) PROVE (TypeOK /\ unseen <= counter)'
  <2>1. UNCHANGED <<app_main, connected, isr, counter, prev_counter, data_sender,
                    json_msg, reported, received, doubled, raced, unseen>>
    BY <1>12 DEF PublishReport, boot
  <2>2. sender' \in [Senders -> {"none", "loop", "publish", "mark"}]
    BY <1>12 DEF PublishReport, TypeOK
  <2>3. json_msg[s] \in Counts /\ handed \in Counts \cup {NoReport}
        /\ outbox \subseteq Counts /\ late \in BOOLEAN
    BY DEF TypeOK
  <2>4. handed' \in Counts \cup {NoReport} /\ outbox' \subseteq Counts
        /\ lost' \in BOOLEAN /\ late' \in BOOLEAN
    BY <1>12, <2>3 DEF PublishReport
  <2> QED
    BY <2>1, <2>2, <2>4 DEF TypeOK
<1>13. ASSUME NEW s \in Senders, Mark(s) PROVE (TypeOK /\ unseen <= counter)'
  <2>1. UNCHANGED <<app_main, connected, isr, counter, data_sender, json_msg, broker,
                    history>>
    BY <1>13 DEF Mark, boot
  <2>2. /\ sender' \in [Senders -> {"none", "loop", "publish", "mark"}]
        /\ prev_counter' \in Counts
    BY <1>13 DEF Mark, TypeOK
  <2> QED
    BY <2>1, <2>2 DEF TypeOK, broker, history
<1>14. CASE PowerCycle
  BY <1>14, BootHolds DEF PowerCycle, IInv, Control
<1>15. CASE UNCHANGED vars
  BY <1>15 DEF vars, boot, tasks, broker, history, TypeOK
<1>16. ASSUME NEW c \in Counts, Arrives(c) PROVE (TypeOK /\ unseen <= counter)'
  BY <1>16
     DEF Arrives, boot, tasks, broker, history, TypeOK
<1>17. ASSUME NEW c \in Counts, Expires(c) PROVE (TypeOK /\ unseen <= counter)'
  BY <1>17
     DEF Expires, boot, tasks, broker, history, TypeOK
<1> QED
  BY <1>1, <1>2, <1>3, <1>4, <1>5, <1>6, <1>7, <1>8, <1>9, <1>10, <1>11, <1>12,
     <1>13, <1>14, <1>15, <1>16, <1>17
     DEF Next, Main, Command, Sender

\* The handle follows the last command.
LEMMA HandleStays ==
  ASSUME TypeOK, HandleIsLive, [Next]_vars
  PROVE  HandleIsLive'
<1>1. CASE mqtt_setup
  BY <1>1 DEF mqtt_setup, TypeOK, HandleIsLive, Alive, boot, tasks, broker, history
<1>2. CASE ClientAssigned
  BY <1>2
     DEF ClientAssigned, TypeOK, HandleIsLive, Alive, boot, tasks, broker,
         history
<1>3. CASE gpio_install_isr_service
  BY <1>3
     DEF gpio_install_isr_service, TypeOK, HandleIsLive, Alive, boot, tasks,
         broker, history
<1>4. CASE Connects
  BY <1>4 DEF Connects, TypeOK, HandleIsLive, Alive, boot, tasks, broker, history
<1>5. CASE Disconnects
  BY <1>5 DEF Disconnects, TypeOK, HandleIsLive, Alive, boot, tasks, broker, history
<1>6. ASSUME NEW s \in Senders, StartTask(s) PROVE HandleIsLive'
  BY <1>6
     DEF StartTask, IsrService, TypeOK, HandleIsLive, Alive, boot, tasks,
         broker, history
<1>7. CASE StartAborts
  BY <1>7, BootHolds DEF StartAborts, IInv, Control
<1>8. CASE EndTask
  BY <1>8 DEF EndTask, TypeOK, HandleIsLive, Alive, boot, tasks, broker, history
<1>9. CASE EndDeletesFreed
  <2>1. CASE Reboot
    BY <2>1, BootHolds DEF IInv, Control
  <2>2. CASE ~Reboot
    BY <1>9, <2>2
       DEF EndDeletesFreed, TypeOK, HandleIsLive, Alive, boot, tasks,
           broker, history
  <2> QED
    BY <2>1, <2>2
<1>10. CASE Interrupt
  BY <1>10 DEF Interrupt, TypeOK, HandleIsLive, Alive, boot, tasks, broker, history
<1>11. ASSUME NEW s \in Senders, Format(s) PROVE HandleIsLive'
  BY <1>11 DEF Format, TypeOK, HandleIsLive, Alive, boot, tasks, broker, history
<1>12. ASSUME NEW s \in Senders, PublishReport(s) PROVE HandleIsLive'
  BY <1>12
     DEF PublishReport, TypeOK, HandleIsLive, Alive, boot, tasks, broker,
         history
<1>13. ASSUME NEW s \in Senders, Mark(s) PROVE HandleIsLive'
  BY <1>13 DEF Mark, TypeOK, HandleIsLive, Alive, boot, tasks, broker, history
<1>14. CASE PowerCycle
  BY <1>14, BootHolds DEF PowerCycle, IInv, Control
<1>15. CASE UNCHANGED vars
  BY <1>15 DEF vars, boot, tasks, broker, history, TypeOK, HandleIsLive, Alive
<1>16. ASSUME NEW c \in Counts, Arrives(c) PROVE HandleIsLive'
  BY <1>16
     DEF Arrives, boot, tasks, broker, history, TypeOK, HandleIsLive, Alive
<1>17. ASSUME NEW c \in Counts, Expires(c) PROVE HandleIsLive'
  BY <1>17
     DEF Expires, boot, tasks, broker, history, TypeOK, HandleIsLive, Alive
<1> QED
  BY <1>1, <1>2, <1>3, <1>4, <1>5, <1>6, <1>7, <1>8, <1>9, <1>10, <1>11, <1>12,
     <1>13, <1>14, <1>15, <1>16, <1>17
     DEF Next, Main, Command, Sender

\* The one sender is the one the handle is of.
LEMMA OneSenderStays ==
  ASSUME TypeOK, HandleIsLive, OneSender, [Next]_vars
  PROVE  OneSender'
<1>1. CASE mqtt_setup
  BY <1>1
     DEF mqtt_setup, TypeOK, HandleIsLive, OneSender, Alive, boot, tasks,
         broker, history
<1>2. CASE ClientAssigned
  BY <1>2
     DEF ClientAssigned, TypeOK, HandleIsLive, OneSender, Alive, boot, tasks,
         broker, history
<1>3. CASE gpio_install_isr_service
  BY <1>3
     DEF gpio_install_isr_service, TypeOK, HandleIsLive, OneSender, Alive, boot,
         tasks, broker, history
<1>4. CASE Connects
  BY <1>4
     DEF Connects, TypeOK, HandleIsLive, OneSender, Alive, boot, tasks,
         broker, history
<1>5. CASE Disconnects
  BY <1>5
     DEF Disconnects, TypeOK, HandleIsLive, OneSender, Alive, boot, tasks,
         broker, history
<1>6. ASSUME NEW s \in Senders, StartTask(s) PROVE OneSender'
  BY <1>6
     DEF StartTask, IsrService, TypeOK, HandleIsLive, OneSender, Alive, boot,
         tasks, broker, history
<1>7. CASE StartAborts
  BY <1>7, BootHolds DEF StartAborts, IInv, Control
<1>8. CASE EndTask
  BY <1>8
     DEF EndTask, TypeOK, HandleIsLive, OneSender, Alive, boot, tasks,
         broker, history
<1>9. CASE EndDeletesFreed
  <2>1. CASE Reboot
    BY <2>1, BootHolds DEF IInv, Control
  <2>2. CASE ~Reboot
    <3>1. doubled \/ Alive = {}
      BY <1>9 DEF EndDeletesFreed, Control, HandleIsLive, OneSender
    <3>2. doubled' = doubled /\ lost' = lost /\ sender' = sender
          /\ counter' = counter /\ unseen' = unseen /\ handed' = handed
          /\ json_msg' = json_msg /\ raced' = raced /\ received' = "end"
      BY <1>9, <2>2 DEF EndDeletesFreed, tasks, broker
    <3> QED
      BY <3>1, <3>2 DEF OneSender, Alive
  <2> QED
    BY <2>1, <2>2
<1>10. CASE Interrupt
  BY <1>10
     DEF Interrupt, TypeOK, HandleIsLive, OneSender, Alive, boot, tasks,
         broker, history
<1>11. ASSUME NEW s \in Senders, Format(s) PROVE OneSender'
  BY <1>11
     DEF Format, TypeOK, HandleIsLive, OneSender, Alive, boot, tasks,
         broker, history
<1>12. ASSUME NEW s \in Senders, PublishReport(s) PROVE OneSender'
  BY <1>12
     DEF PublishReport, TypeOK, HandleIsLive, OneSender, Alive, boot, tasks,
         broker, history
<1>13. ASSUME NEW s \in Senders, Mark(s) PROVE OneSender'
  BY <1>13
     DEF Mark, TypeOK, HandleIsLive, OneSender, Alive, boot, tasks, broker,
         history
<1>14. CASE PowerCycle
  BY <1>14, BootHolds DEF PowerCycle, IInv, Control
<1>15. CASE UNCHANGED vars
  BY <1>15
     DEF vars, boot, tasks, broker, history, TypeOK, HandleIsLive,
         OneSender, Alive
<1>16. ASSUME NEW c \in Counts, Arrives(c) PROVE OneSender'
  BY <1>16
     DEF Arrives, boot, tasks, broker, history, TypeOK, HandleIsLive, OneSender,
         Alive
<1>17. ASSUME NEW c \in Counts, Expires(c) PROVE OneSender'
  BY <1>17
     DEF Expires, boot, tasks, broker, history, TypeOK, HandleIsLive, OneSender,
         Alive
<1> QED
  BY <1>1, <1>2, <1>3, <1>4, <1>5, <1>6, <1>7, <1>8, <1>9, <1>10, <1>11, <1>12,
     <1>13, <1>14, <1>15, <1>16, <1>17
     DEF Next, Main, Command, Sender

\* Only an item changes what a report in flight is short of.
LEMMA InFlightStays ==
  ASSUME Control, InFlight, [Next]_vars
  PROVE  InFlight'
<1>1. CASE mqtt_setup
  BY <1>1
     DEF mqtt_setup, Control, TypeOK, HandleIsLive, OneSender, Alive, InFlight,
         boot, tasks, broker, history
<1>2. CASE ClientAssigned
  BY <1>2
     DEF ClientAssigned, Control, TypeOK, HandleIsLive, OneSender, Alive, InFlight,
         boot, tasks, broker, history
<1>3. CASE gpio_install_isr_service
  BY <1>3
     DEF gpio_install_isr_service, Control, TypeOK, HandleIsLive, OneSender, Alive,
         InFlight, boot, tasks, broker, history
<1>4. CASE Connects
  BY <1>4
     DEF Connects, Control, TypeOK, HandleIsLive, OneSender, Alive, InFlight, boot,
         tasks, broker, history
<1>5. CASE Disconnects
  BY <1>5
     DEF Disconnects, Control, TypeOK, HandleIsLive, OneSender, Alive, InFlight,
         boot, tasks, broker, history
<1>6. ASSUME NEW s \in Senders, StartTask(s) PROVE InFlight'
  BY <1>6
     DEF StartTask, IsrService, Control, TypeOK, HandleIsLive, OneSender, Alive,
         InFlight, boot, tasks, broker, history
<1>7. CASE StartAborts
  BY <1>7, BootHolds DEF StartAborts, IInv, Control
<1>8. CASE EndTask
  BY <1>8
     DEF EndTask, Control, TypeOK, HandleIsLive, OneSender, Alive, InFlight, boot,
         tasks, broker, history
<1>9. CASE EndDeletesFreed
  <2>1. CASE Reboot
    BY <2>1, BootHolds DEF IInv, Control
  <2>2. CASE ~Reboot
    <3>1. doubled \/ Alive = {}
      BY <1>9 DEF EndDeletesFreed, Control, HandleIsLive, OneSender
    <3>2. doubled' = doubled /\ lost' = lost /\ sender' = sender
          /\ counter' = counter /\ unseen' = unseen /\ handed' = handed
          /\ json_msg' = json_msg /\ raced' = raced /\ received' = "end"
      BY <1>9, <2>2 DEF EndDeletesFreed, tasks, broker
    <3> QED
      BY <3>1, <3>2 DEF InFlight, Alive
  <2> QED
    BY <2>1, <2>2
<1>10. CASE Interrupt
  <2>1. \A s \in Senders : sender[s] \in {"publish", "mark"} => raced'
    BY <1>10 DEF Interrupt
  <2> QED
    BY <1>10, <2>1 DEF Interrupt, Control, TypeOK, InFlight, tasks
<1>11. ASSUME NEW s \in Senders, Format(s) PROVE InFlight'
  BY <1>11
     DEF Format, Control, TypeOK, HandleIsLive, OneSender, Alive, InFlight, boot,
         tasks, broker, history
<1>12. ASSUME NEW s \in Senders, PublishReport(s) PROVE InFlight'
  BY <1>12
     DEF PublishReport, Control, TypeOK, HandleIsLive, OneSender, Alive, InFlight,
         boot, tasks, broker, history
<1>13. ASSUME NEW s \in Senders, Mark(s) PROVE InFlight'
  BY <1>13
     DEF Mark, Control, TypeOK, HandleIsLive, OneSender, Alive, InFlight, boot,
         tasks, broker, history
<1>14. CASE PowerCycle
  BY <1>14, BootHolds DEF PowerCycle, IInv, Control
<1>15. CASE UNCHANGED vars
  BY <1>15
    
        DEF vars, boot, tasks, broker, history, Control, TypeOK,
            HandleIsLive, OneSender,
         Alive, InFlight
<1>16. ASSUME NEW c \in Counts, Arrives(c) PROVE InFlight'
  BY <1>16
     DEF Arrives, boot, tasks, broker, history, Control, TypeOK, HandleIsLive,
         OneSender, Alive, InFlight
<1>17. ASSUME NEW c \in Counts, Expires(c) PROVE InFlight'
  BY <1>17
     DEF Expires, boot, tasks, broker, history, Control, TypeOK, HandleIsLive,
         OneSender, Alive, InFlight
<1> QED
  BY <1>1, <1>2, <1>3, <1>4, <1>5, <1>6, <1>7, <1>8, <1>9, <1>10, <1>11, <1>12,
     <1>13, <1>14, <1>15, <1>16, <1>17
     DEF Next, Main, Command, Sender

\* The client is handed what the report in flight says.
LEMMA LagStays ==
  ASSUME Control, InFlight, LagIsUnseen, [Next]_vars
  PROVE  LagIsUnseen'
<1>1. CASE mqtt_setup
  BY <1>1
     DEF mqtt_setup, Control, TypeOK, HandleIsLive, OneSender, Alive, InFlight,
         LagIsUnseen, boot, tasks, broker, history
<1>2. CASE ClientAssigned
  BY <1>2
     DEF ClientAssigned, Control, TypeOK, HandleIsLive, OneSender, Alive, InFlight,
         LagIsUnseen, boot, tasks, broker, history
<1>3. CASE gpio_install_isr_service
  BY <1>3
     DEF gpio_install_isr_service, Control, TypeOK, HandleIsLive, OneSender, Alive,
         InFlight, LagIsUnseen, boot, tasks, broker, history
<1>4. CASE Connects
  BY <1>4
     DEF Connects, Control, TypeOK, HandleIsLive, OneSender, Alive, InFlight,
         LagIsUnseen, boot, tasks, broker, history
<1>5. CASE Disconnects
  BY <1>5
     DEF Disconnects, Control, TypeOK, HandleIsLive, OneSender, Alive, InFlight,
         LagIsUnseen, boot, tasks, broker, history
<1>6. ASSUME NEW s \in Senders, StartTask(s) PROVE LagIsUnseen'
  BY <1>6
     DEF StartTask, IsrService, Control, TypeOK, HandleIsLive, OneSender, Alive,
         InFlight, LagIsUnseen, boot, tasks, broker, history
<1>7. CASE StartAborts
  BY <1>7, BootHolds DEF StartAborts, IInv, Control
<1>8. CASE EndTask
  BY <1>8
     DEF EndTask, Control, TypeOK, HandleIsLive, OneSender, Alive, InFlight,
         LagIsUnseen, boot, tasks, broker, history
<1>9. CASE EndDeletesFreed
  <2>1. CASE Reboot
    BY <2>1, BootHolds DEF IInv, Control
  <2>2. CASE ~Reboot
    <3>1. doubled \/ Alive = {}
      BY <1>9 DEF EndDeletesFreed, Control, HandleIsLive, OneSender
    <3>2. doubled' = doubled /\ lost' = lost /\ sender' = sender
          /\ counter' = counter /\ unseen' = unseen /\ handed' = handed
          /\ json_msg' = json_msg /\ raced' = raced /\ received' = "end"
      BY <1>9, <2>2 DEF EndDeletesFreed, tasks, broker
    <3> QED
      BY <3>1, <3>2 DEF LagIsUnseen, InFlight
  <2> QED
    BY <2>1, <2>2
<1>10. CASE Interrupt
  BY <1>10
     DEF Interrupt, Control, TypeOK, HandleIsLive, OneSender, Alive, InFlight,
         LagIsUnseen, boot, tasks, broker, history
<1>11. ASSUME NEW s \in Senders, Format(s) PROVE LagIsUnseen'
  BY <1>11
     DEF Format, Control, TypeOK, HandleIsLive, OneSender, Alive, InFlight,
         LagIsUnseen, boot, tasks, broker, history
<1>12. ASSUME NEW s \in Senders, PublishReport(s) PROVE LagIsUnseen'
  BY <1>12
     DEF PublishReport, Control, TypeOK, HandleIsLive, OneSender, Alive, InFlight,
         LagIsUnseen, boot, tasks, broker, history
<1>13. ASSUME NEW s \in Senders, Mark(s) PROVE LagIsUnseen'
  BY <1>13
     DEF Mark, Control, TypeOK, HandleIsLive, OneSender, Alive, InFlight,
         LagIsUnseen, boot, tasks, broker, history
<1>14. CASE PowerCycle
  BY <1>14, BootHolds DEF PowerCycle, IInv, Control
<1>15. CASE UNCHANGED vars
  BY <1>15
    
        DEF vars, boot, tasks, broker, history, Control, TypeOK,
            HandleIsLive, OneSender,
         Alive, InFlight, LagIsUnseen
<1>16. ASSUME NEW c \in Counts, Arrives(c) PROVE LagIsUnseen'
  BY <1>16
     DEF Arrives, boot, tasks, broker, history, Control, TypeOK, HandleIsLive,
         OneSender, Alive, InFlight, LagIsUnseen
<1>17. ASSUME NEW c \in Counts, Expires(c) PROVE LagIsUnseen'
  BY <1>17
     DEF Expires, boot, tasks, broker, history, Control, TypeOK, HandleIsLive,
         OneSender, Alive, InFlight, LagIsUnseen
<1> QED
  BY <1>1, <1>2, <1>3, <1>4, <1>5, <1>6, <1>7, <1>8, <1>9, <1>10, <1>11, <1>12,
     <1>13, <1>14, <1>15, <1>16, <1>17
     DEF Next, Main, Command, Sender

\* The outbox keeps what it took until it is acknowledged or given up.
LEMMA OwedStays ==
  ASSUME NewestIsOwed, [Next]_vars
  PROVE  NewestIsOwed'
<1>1. CASE mqtt_setup \/ ClientAssigned \/ gpio_install_isr_service
  BY <1>1
     DEF mqtt_setup, ClientAssigned, gpio_install_isr_service, NewestIsOwed, broker,
         history
<1>2. CASE Connects \/ Disconnects
  BY <1>2 DEF Connects, Disconnects, NewestIsOwed, broker, history
<1>3. ASSUME NEW s \in Senders, StartTask(s) PROVE NewestIsOwed'
  BY <1>3 DEF StartTask, NewestIsOwed
<1>4. CASE StartAborts \/ PowerCycle
  BY <1>4, BootHolds DEF StartAborts, PowerCycle, IInv
<1>5. CASE EndTask
  BY <1>5 DEF EndTask, NewestIsOwed, broker
<1>6. CASE EndDeletesFreed
  BY <1>6, BootHolds DEF EndDeletesFreed, IInv, NewestIsOwed, broker
<1>7. CASE Interrupt
  BY <1>7 DEF Interrupt, NewestIsOwed, broker
<1>8. ASSUME NEW s \in Senders, Format(s) \/ Mark(s) PROVE NewestIsOwed'
  BY <1>8 DEF Format, Mark, NewestIsOwed, broker, history
<1>9. ASSUME NEW s \in Senders, PublishReport(s) PROVE NewestIsOwed'
  BY <1>9 DEF PublishReport, NewestIsOwed
<1>10. ASSUME NEW c \in Counts, Arrives(c) PROVE NewestIsOwed'
  BY <1>10 DEF Arrives, NewestIsOwed, history
<1>11. ASSUME NEW c \in Counts, Expires(c) PROVE NewestIsOwed'
  <2>1. handed' = handed /\ reported' = reported /\ outbox' = outbox \ {c}
    BY <1>11 DEF Expires, history
  <2>2. late' = (late \/ (c = handed /\ reported # c))
    BY <1>11 DEF Expires
  <2> QED
    BY <2>1, <2>2 DEF NewestIsOwed
<1>12. CASE UNCHANGED vars
  BY <1>12 DEF vars, NewestIsOwed, broker, history
<1> QED
  BY <1>1, <1>2, <1>3, <1>4, <1>5, <1>6, <1>7, <1>8, <1>9, <1>10, <1>11, <1>12
     DEF Next, Main, Command, Sender

\* Every pass leaves prev_counter where the counter is.
LEMMA PrevStays ==
  ASSUME Control, InFlight, PrevIsBehind, [Next]_vars
  PROVE  PrevIsBehind'
<1>1. CASE mqtt_setup
  BY <1>1
     DEF mqtt_setup, Control, TypeOK, HandleIsLive, OneSender, Alive, InFlight,
         PrevIsBehind, boot, tasks, broker, history
<1>2. CASE ClientAssigned
  BY <1>2
     DEF ClientAssigned, Control, TypeOK, HandleIsLive, OneSender, Alive, InFlight,
         PrevIsBehind, boot, tasks, broker, history
<1>3. CASE gpio_install_isr_service
  BY <1>3
     DEF gpio_install_isr_service, Control, TypeOK, HandleIsLive, OneSender, Alive,
         InFlight, PrevIsBehind, boot, tasks, broker, history
<1>4. CASE Connects
  BY <1>4
     DEF Connects, Control, TypeOK, HandleIsLive, OneSender, Alive, InFlight,
         PrevIsBehind, boot, tasks, broker, history
<1>5. CASE Disconnects
  BY <1>5
     DEF Disconnects, Control, TypeOK, HandleIsLive, OneSender, Alive, InFlight,
         PrevIsBehind, boot, tasks, broker, history
<1>6. ASSUME NEW s \in Senders, StartTask(s) PROVE PrevIsBehind'
  BY <1>6
     DEF StartTask, IsrService, Control, TypeOK, HandleIsLive, OneSender, Alive,
         InFlight, PrevIsBehind, boot, tasks, broker, history
<1>7. CASE StartAborts
  BY <1>7, BootHolds DEF StartAborts, IInv, Control
<1>8. CASE EndTask
  BY <1>8
     DEF EndTask, Control, TypeOK, HandleIsLive, OneSender, Alive, InFlight,
         PrevIsBehind, boot, tasks, broker, history
<1>9. CASE EndDeletesFreed
  <2>1. CASE Reboot
    BY <2>1, BootHolds DEF IInv, Control
  <2>2. CASE ~Reboot
    BY <1>9, <2>2
       DEF EndDeletesFreed, Control, TypeOK, HandleIsLive, OneSender, Alive,
           InFlight, PrevIsBehind, boot, tasks, broker, history
  <2> QED
    BY <2>1, <2>2
<1>10. CASE Interrupt
  BY <1>10
     DEF Interrupt, Control, TypeOK, HandleIsLive, OneSender, Alive, InFlight,
         PrevIsBehind, boot, tasks, broker, history
<1>11. ASSUME NEW s \in Senders, Format(s) PROVE PrevIsBehind'
  BY <1>11
     DEF Format, Control, TypeOK, HandleIsLive, OneSender, Alive, InFlight,
         PrevIsBehind, boot, tasks, broker, history
<1>12. ASSUME NEW s \in Senders, PublishReport(s) PROVE PrevIsBehind'
  BY <1>12
     DEF PublishReport, Control, TypeOK, HandleIsLive, OneSender, Alive, InFlight,
         PrevIsBehind, boot, tasks, broker, history
<1>13. ASSUME NEW s \in Senders, Mark(s) PROVE PrevIsBehind'
  BY <1>13
     DEF Mark, Control, TypeOK, HandleIsLive, OneSender, Alive, InFlight,
         PrevIsBehind, boot, tasks, broker, history
<1>14. CASE PowerCycle
  BY <1>14, BootHolds DEF PowerCycle, IInv, Control
<1>15. CASE UNCHANGED vars
  BY <1>15
    
        DEF vars, boot, tasks, broker, history, Control, TypeOK,
            HandleIsLive, OneSender,
         Alive, InFlight, PrevIsBehind
<1>16. ASSUME NEW c \in Counts, Arrives(c) PROVE PrevIsBehind'
  BY <1>16
     DEF Arrives, boot, tasks, broker, history, Control, TypeOK, HandleIsLive,
         OneSender, Alive, InFlight, PrevIsBehind
<1>17. ASSUME NEW c \in Counts, Expires(c) PROVE PrevIsBehind'
  BY <1>17
     DEF Expires, boot, tasks, broker, history, Control, TypeOK, HandleIsLive,
         OneSender, Alive, InFlight, PrevIsBehind
<1> QED
  BY <1>1, <1>2, <1>3, <1>4, <1>5, <1>6, <1>7, <1>8, <1>9, <1>10, <1>11, <1>12,
     <1>13, <1>14, <1>15, <1>16, <1>17
     DEF Next, Main, Command, Sender

\* The counter meets prev_counter in a pass or, on the way up, on the first one.
LEMMA WithheldStays ==
  ASSUME IInv, [Next]_vars
  PROVE  WithheldOnlyByRace'
<1>1. CASE mqtt_setup
  BY <1>1
     DEF mqtt_setup, IInv, Control, TypeOK, HandleIsLive, OneSender, Alive,
         InFlight, LagIsUnseen, PrevIsBehind, WithheldOnlyByRace, boot, tasks,
         broker, history
<1>2. CASE ClientAssigned
  BY <1>2
     DEF ClientAssigned, IInv, Control, TypeOK, HandleIsLive, OneSender, Alive,
         InFlight, LagIsUnseen, PrevIsBehind, WithheldOnlyByRace, boot, tasks,
         broker, history
<1>3. CASE gpio_install_isr_service
  BY <1>3
     DEF gpio_install_isr_service, IInv, Control, TypeOK, HandleIsLive, OneSender,
         Alive, InFlight, LagIsUnseen, PrevIsBehind, WithheldOnlyByRace, boot,
         tasks, broker, history
<1>4. CASE Connects
  BY <1>4
     DEF Connects, IInv, Control, TypeOK, HandleIsLive, OneSender, Alive, InFlight,
         LagIsUnseen, PrevIsBehind, WithheldOnlyByRace, boot, tasks, broker, history
<1>5. CASE Disconnects
  BY <1>5
     DEF Disconnects, IInv, Control, TypeOK, HandleIsLive, OneSender, Alive,
         InFlight, LagIsUnseen, PrevIsBehind, WithheldOnlyByRace, boot, tasks,
         broker, history
<1>6. ASSUME NEW s \in Senders, StartTask(s) PROVE WithheldOnlyByRace'
  BY <1>6
     DEF StartTask, IsrService, IInv, Control, TypeOK, HandleIsLive, OneSender,
         Alive, InFlight, LagIsUnseen, PrevIsBehind, WithheldOnlyByRace, boot,
         tasks, broker, history
<1>7. CASE StartAborts
  BY <1>7, BootHolds DEF StartAborts, IInv, Control
<1>8. CASE EndTask
  BY <1>8
     DEF EndTask, IInv, Control, TypeOK, HandleIsLive, OneSender, Alive, InFlight,
         LagIsUnseen, PrevIsBehind, WithheldOnlyByRace, boot, tasks, broker, history
<1>9. CASE EndDeletesFreed
  <2>1. CASE Reboot
    BY <2>1, BootHolds DEF IInv, Control
  <2>2. CASE ~Reboot
    BY <1>9, <2>2
       DEF EndDeletesFreed, IInv, Control, TypeOK, HandleIsLive, OneSender, Alive,
           InFlight, LagIsUnseen, PrevIsBehind, WithheldOnlyByRace, boot, tasks,
           broker, history
  <2> QED
    BY <2>1, <2>2
<1>10. CASE Interrupt
  BY <1>10
     DEF Interrupt, IInv, Control, TypeOK, HandleIsLive, OneSender, Alive,
         InFlight, LagIsUnseen, PrevIsBehind, WithheldOnlyByRace, boot, tasks,
         broker, history
<1>11. ASSUME NEW s \in Senders, Format(s) PROVE WithheldOnlyByRace'
  BY <1>11
     DEF Format, IInv, Control, TypeOK, HandleIsLive, OneSender, Alive, InFlight,
         LagIsUnseen, PrevIsBehind, WithheldOnlyByRace, boot, tasks, broker, history
<1>12. ASSUME NEW s \in Senders, PublishReport(s) PROVE WithheldOnlyByRace'
  BY <1>12
     DEF PublishReport, IInv, Control, TypeOK, HandleIsLive, OneSender, Alive,
         InFlight, LagIsUnseen, PrevIsBehind, WithheldOnlyByRace, boot, tasks,
         broker, history
<1>13. ASSUME NEW s \in Senders, Mark(s) PROVE WithheldOnlyByRace'
  BY <1>13
     DEF Mark, IInv, Control, TypeOK, HandleIsLive, OneSender, Alive, InFlight,
         LagIsUnseen, PrevIsBehind, WithheldOnlyByRace, boot, tasks, broker, history
<1>14. CASE PowerCycle
  BY <1>14, BootHolds DEF PowerCycle, IInv, Control
<1>15. CASE UNCHANGED vars
  BY <1>15
     DEF vars, boot, tasks, broker, history, IInv, Control, TypeOK, HandleIsLive,
         OneSender, Alive, InFlight, LagIsUnseen, PrevIsBehind, WithheldOnlyByRace
<1>16. ASSUME NEW c \in Counts, Arrives(c) PROVE WithheldOnlyByRace'
  BY <1>16
     DEF Arrives, boot, tasks, broker, history, IInv, Control, TypeOK,
         HandleIsLive, OneSender, Alive, InFlight, LagIsUnseen, PrevIsBehind,
         WithheldOnlyByRace
<1>17. ASSUME NEW c \in Counts, Expires(c) PROVE WithheldOnlyByRace'
  BY <1>17
     DEF Expires, boot, tasks, broker, history, IInv, Control, TypeOK,
         HandleIsLive, OneSender, Alive, InFlight, LagIsUnseen, PrevIsBehind,
         WithheldOnlyByRace
<1> QED
  BY <1>1, <1>2, <1>3, <1>4, <1>5, <1>6, <1>7, <1>8, <1>9, <1>10, <1>11, <1>12,
     <1>13, <1>14, <1>15, <1>16, <1>17
     DEF Next, Main, Command, Sender

-----------------------------------------------------------------------------

\* All that RtosFirmware's invariants rest on is inductive.
THEOREM FirmwareInvariant == Spec => []IInv
<1>1. ASSUME IInv, [Next]_vars PROVE IInv'
  <2>1. Control'
    BY <1>1, TypesStay, HandleStays, OneSenderStays DEF IInv, Control
  <2> QED
    BY <1>1, <2>1, InFlightStays, LagStays, OwedStays, PrevStays, WithheldStays
       DEF IInv
<1> QED
  BY <1>1, InitHolds, PTL DEF Spec

\* Type correctness of main.c's variables for every bound.
THEOREM FirmwareTypes == Spec => []TypeOK
<1>1. IInv => TypeOK
  BY DEF IInv, Control
<1> QED
  BY <1>1, FirmwareInvariant, PTL

\* main.c's handle is that of a running sender, and the interrupt handler is
\* installed, exactly while the last command handled is tasks/start.
THEOREM HandleFollowsCommand == Spec => []HandleIsLive
<1>1. IInv => HandleIsLive
  BY DEF IInv, Control
<1> QED
  BY <1>1, FirmwareInvariant, PTL

\* Without a tasks/start that finds a sender running, one sender runs between
\* tasks/start and tasks/end and none outside.
THEOREM NoSecondSender == Spec => []OneSender
<1>1. IInv => OneSender
  BY DEF IInv, Control
<1> QED
  BY <1>1, FirmwareInvariant, PTL

\* What mqtt_data_sender has handed to its client is short of the counter by the
\* items that passed since it last read it.
THEOREM HandedLagsByUnseen == Spec => []LagIsUnseen
<1>1. IInv => LagIsUnseen
  BY DEF IInv
<1> QED
  BY <1>1, FirmwareInvariant, PTL

\* With esp-mqtt's outbox between the node and the broker: the newest report
\* handed over is the last the broker has, or is still owed to it, unless an
\* older one was sent again after it or it was given up.
THEOREM NewestReportIsOwed == Spec => []NewestIsOwed
<1>1. IInv => NewestIsOwed
  BY DEF IInv
<1> QED
  BY <1>1, FirmwareInvariant, PTL

\* prev_counter keeps a count from the client in the two named cases only.
THEOREM SuppressedOnlyByRace == Spec => []WithheldOnlyByRace
<1>1. IInv => WithheldOnlyByRace
  BY DEF IInv
<1> QED
  BY <1>1, FirmwareInvariant, PTL

=============================================================================
