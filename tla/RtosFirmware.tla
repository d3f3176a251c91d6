---------------------------- MODULE RtosFirmware ----------------------------
(***************************************************************************)
(* How a sensor counts and reports, RTOS-firmware/src/main/main.c with     *)
(* mqtt_setup of conn_config.c.  Four contexts, in order of priority:      *)
(*                                                                         *)
(*   interrupt  sensor_data_reader, which preempts everything;             *)
(*   mqtt       the client's task, which runs mqtt_event_handler and sends *)
(*              what the others have handed to the client;                 *)
(*   app_main   once after a boot;                                         *)
(*   senders    mqtt_data_sender at the idle priority: preempted anywhere, *)
(*              and deleted wherever it happens to be.                     *)
(*                                                                         *)
(* mqtt_event_handler is one step: only the interrupt preempts it, and an  *)
(* interrupt after its `counter = 0' may as well come after the handler.   *)
(* Answering nodes/discover changes nothing here and is a stuttering step. *)
(***************************************************************************)
EXTENDS Integers

CONSTANTS Senders,    \* task control blocks for mqtt_data_sender
          Null,       \* no task
          NoReport,   \* no report yet
          MaxCount    \* bound: items that pass between two tasks/start

ASSUME FirmwareAssumption ==
  /\ Null \notin Senders
  /\ MaxCount \in Nat
  /\ NoReport \notin Nat

VARIABLES
  app_main,      \* where app_main is; "off" without power
  connected,     \* the MQTT session is up, its topics subscribed
  isr,           \* sensor_data_reader is installed
  counter,
  prev_counter,
  data_sender,
  sender,        \* where each mqtt_data_sender is
  json_msg,      \* the count in each sender's json_msg
  outbox         \* the client's: counts published and not acknowledged

\* History, since the last boot.
VARIABLES
  received,      \* the last command handled
  doubled,       \* some tasks/start found a sender running
  handed,        \* last count of this run that the client took
  lost,          \* a later report of this run was refused or deleted
  reported,      \* last count that reached the broker, of any run
  late,          \* ... which was another than handed, or handed was given up
  raced,         \* an item passed while the last report was being sent
  unseen         \* items since a sender last read the counter for a report

boot == <<app_main, connected>>
tasks == <<data_sender, sender, json_msg>>
broker == <<outbox, reported, late>>
history == <<received, doubled, handed, lost, raced, unseen>>
vars == <<boot, isr, counter, prev_counter, tasks, broker, history>>

Alive == {s \in Senders : sender[s] # "none"}

Init ==
  /\ app_main = "off" /\ connected = FALSE /\ isr = FALSE
  /\ counter = 0 /\ prev_counter = 0 /\ data_sender = Null
  /\ sender = [s \in Senders |-> "none"] /\ json_msg = [s \in Senders |-> 0]
  /\ outbox = {} /\ reported = NoReport /\ late = FALSE
  /\ received = "none" /\ doubled = FALSE /\ handed = NoReport
  /\ lost = FALSE /\ raced = FALSE /\ unseen = 0

\* Nothing survives it: the node keeps no count, and no report, in flash memory.
Reboot ==
  /\ app_main' = "off" /\ connected' = FALSE /\ isr' = FALSE
  /\ counter' = 0 /\ prev_counter' = 0 /\ data_sender' = Null
  /\ sender' = [s \in Senders |-> "none"] /\ json_msg' = [s \in Senders |-> 0]
  /\ outbox' = {} /\ reported' = NoReport /\ late' = FALSE
  /\ received' = "none" /\ doubled' = FALSE /\ handed' = NoReport
  /\ lost' = FALSE /\ raced' = FALSE /\ unseen' = 0

PowerCycle == app_main # "off" /\ Reboot

-----------------------------------------------------------------------------
(* app_main, and the link of the client that mqtt_setup starts. *)

\* Up to esp_mqtt_client_start.
mqtt_setup ==
  /\ app_main = "off"
  /\ app_main' = "setup"
  /\ UNCHANGED <<connected, isr, counter, prev_counter, tasks, broker, history>>

\* mqtt_setup returns: the global client is assigned.
ClientAssigned ==
  /\ app_main = "setup"
  /\ app_main' = "client"
  /\ UNCHANGED <<connected, isr, counter, prev_counter, tasks, broker, history>>

gpio_install_isr_service ==
  /\ app_main = "client"
  /\ app_main' = "done"
  /\ UNCHANGED <<connected, isr, counter, prev_counter, tasks, broker, history>>

Connects ==
  /\ app_main # "off" /\ ~connected
  /\ connected' = TRUE
  /\ UNCHANGED <<app_main, isr, counter, prev_counter, tasks, broker, history>>

Disconnects ==
  /\ connected
  /\ connected' = FALSE
  /\ UNCHANGED <<app_main, isr, counter, prev_counter, tasks, broker, history>>

-----------------------------------------------------------------------------
(* mqtt_event_handler, MQTT_EVENT_DATA. *)

\* gpio_isr_handler_add finds the interrupt service installed.
IsrService == app_main = "done"

\* Mutant: xTaskCreate does not store the handle.
StartsWithoutHandle(s) ==
  /\ connected /\ IsrService
  /\ s \notin Alive
  /\ counter' = 0
  /\ isr' = TRUE
  /\ sender' = [sender EXCEPT ![s] = "loop"]
  /\ received' = "start"
  /\ doubled' = (doubled \/ Alive # {})
  /\ handed' = NoReport /\ lost' = FALSE /\ raced' = FALSE /\ unseen' = 0
  /\ UNCHANGED <<boot, prev_counter, data_sender, json_msg, broker>>

\* Mutant: tasks/start creates a sender only when there is no handle.
StartsOnce(s) ==
  /\ connected /\ IsrService
  /\ s \notin Alive
  /\ counter' = 0
  /\ isr' = TRUE
  /\ IF data_sender = Null
       THEN data_sender' = s /\ sender' = [sender EXCEPT ![s] = "loop"]
       ELSE UNCHANGED <<data_sender, sender>>
  /\ received' = "start"
  /\ doubled' = (doubled \/ Alive # {})
  /\ handed' = NoReport /\ lost' = FALSE /\ raced' = FALSE /\ unseen' = 0
  /\ UNCHANGED <<boot, prev_counter, json_msg, broker>>

\* tasks/start.  gpio_isr_handler_add replaces the handler, if there is one.
StartTask(s) ==
  /\ connected /\ IsrService
  /\ s \notin Alive
  /\ counter' = 0
  /\ isr' = TRUE
  /\ data_sender' = s
  /\ sender' = [sender EXCEPT ![s] = "loop"]
  /\ received' = "start"
  /\ doubled' = (doubled \/ Alive # {})
  /\ handed' = NoReport /\ lost' = FALSE /\ raced' = FALSE /\ unseen' = 0
  /\ UNCHANGED <<boot, prev_counter, json_msg, broker>>

\* gpio_isr_handler_add fails: ESP_ERROR_CHECK aborts and the node reboots.
StartAborts == connected /\ ~IsrService /\ Reboot

\* Mutant: tasks/end leaves the sender running.
EndsInterruptsOnly ==
  /\ connected
  /\ data_sender \in Alive
  /\ isr' = FALSE
  /\ received' = "end"
  /\ UNCHANGED <<boot, counter, prev_counter, tasks, broker, doubled, handed,
                 lost, raced, unseen>>

\* tasks/end: vTaskDelete, with the report it was about to publish.  What the
\* client has taken stays in the outbox.
EndTask ==
  /\ connected
  /\ data_sender \in Alive
  /\ isr' = FALSE
  /\ sender' = [sender EXCEPT ![data_sender] = "none"]
  /\ received' = "end"
  /\ lost' = (lost \/ sender[data_sender] = "publish")
  /\ UNCHANGED <<boot, counter, prev_counter, data_sender, json_msg, broker,
                 doubled, handed, raced, unseen>>

\* vTaskDelete of a handle whose task is gone: the kernel unlinks a control
\* block that it has freed, which goes unnoticed or brings the node down.
EndDeletesFreed ==
  /\ connected
  /\ data_sender # Null /\ data_sender \notin Alive
  /\ \/ Reboot
     \/ /\ isr' = FALSE
        /\ received' = "end"
        /\ UNCHANGED <<boot, counter, prev_counter, tasks, broker, doubled,
                       handed, lost, raced, unseen>>

-----------------------------------------------------------------------------
\* sensor_data_reader: an item passes.
Interrupt ==
  /\ isr
  /\ counter < MaxCount
  /\ counter' = counter + 1
  /\ unseen' = unseen + 1
  /\ raced' = (raced \/ \E s \in Senders : sender[s] \in {"publish", "mark"})
  /\ UNCHANGED <<boot, isr, prev_counter, tasks, broker, received, doubled,
                 handed, lost>>

-----------------------------------------------------------------------------
(* mqtt_data_sender. *)

\* Mutant: the report is formatted from prev_counter.
FormatsPrevious(s) ==
  /\ sender[s] = "loop"
  /\ counter # prev_counter
  /\ json_msg' = [json_msg EXCEPT ![s] = prev_counter]
  /\ sender' = [sender EXCEPT ![s] = "publish"]
  /\ raced' = FALSE /\ unseen' = 0
  /\ UNCHANGED <<boot, isr, counter, prev_counter, data_sender, broker, received,
                 doubled, handed, lost>>

\* Mutant: the report is of the items since the last one.
FormatsDifference(s) ==
  /\ sender[s] = "loop"
  /\ counter # prev_counter
  /\ json_msg' = [json_msg EXCEPT ![s] = counter - prev_counter]
  /\ sender' = [sender EXCEPT ![s] = "publish"]
  /\ raced' = FALSE /\ unseen' = 0
  /\ UNCHANGED <<boot, isr, counter, prev_counter, data_sender, broker, received,
                 doubled, handed, lost>>

\* The comparison and the sprintf; a pass that finds nothing new is a stutter.
Format(s) ==
  /\ sender[s] = "loop"
  /\ counter # prev_counter
  /\ json_msg' = [json_msg EXCEPT ![s] = counter]
  /\ sender' = [sender EXCEPT ![s] = "publish"]
  /\ raced' = FALSE /\ unseen' = 0
  /\ UNCHANGED <<boot, isr, counter, prev_counter, data_sender, broker, received,
                 doubled, handed, lost>>

\* Mutant: the sender does not publish while the client is offline.
SkipsOffline(s) ==
  /\ sender[s] = "publish"
  /\ sender' = [sender EXCEPT ![s] = "mark"]
  /\ IF connected
       THEN /\ outbox' = outbox \cup {json_msg[s]}
            /\ handed' = json_msg[s] /\ lost' = FALSE /\ late' = FALSE
       ELSE UNCHANGED <<outbox, handed, lost, late>>
  /\ UNCHANGED <<boot, isr, counter, prev_counter, data_sender, json_msg,
                 reported, received, doubled, raced, unseen>>

\* Mutant: the report is published at QoS 0.
PublishesQos0(s) ==
  /\ sender[s] = "publish"
  /\ sender' = [sender EXCEPT ![s] = "mark"]
  /\ handed' = json_msg[s] /\ lost' = FALSE /\ late' = FALSE
  /\ reported' = IF connected THEN json_msg[s] ELSE reported
  /\ UNCHANGED <<boot, isr, counter, prev_counter, data_sender, json_msg,
                 outbox, received, doubled, raced, unseen>>

\* esp_mqtt_client_publish at QoS 1: the client keeps the report, or refuses it
\* for want of memory or of a connection; its result is not looked at.
PublishReport(s) ==
  /\ sender[s] = "publish"
  /\ sender' = [sender EXCEPT ![s] = "mark"]
  /\ \/ /\ outbox' = outbox \cup {json_msg[s]}
        /\ handed' = json_msg[s] /\ lost' = FALSE /\ late' = FALSE
     \/ lost' = TRUE /\ UNCHANGED <<outbox, handed, late>>
  /\ UNCHANGED <<boot, isr, counter, prev_counter, data_sender, json_msg,
                 reported, received, doubled, raced, unseen>>

Mark(s) ==
  /\ sender[s] = "mark"
  /\ prev_counter' = counter
  /\ sender' = [sender EXCEPT ![s] = "loop"]
  /\ UNCHANGED <<boot, isr, counter, data_sender, json_msg, broker, history>>

-----------------------------------------------------------------------------
(* The client's outbox, for QoS 1. *)

\* A report reaches the broker.  The client drops it if the acknowledgement
\* comes back and may send it again if not: twice, after a newer report, or in
\* a later run.
Arrives(c) ==
  /\ connected /\ c \in outbox
  /\ outbox' \in {outbox, outbox \ {c}}
  /\ reported' = c
  /\ late' = (c # handed)
  /\ UNCHANGED <<boot, isr, counter, prev_counter, tasks, history>>

\* The client gives a report up that was not acknowledged for too long.
Expires(c) ==
  /\ c \in outbox
  /\ outbox' = outbox \ {c}
  /\ late' = (late \/ (c = handed /\ reported # c))
  /\ UNCHANGED <<boot, isr, counter, prev_counter, tasks, reported, history>>

-----------------------------------------------------------------------------
Main == mqtt_setup \/ ClientAssigned \/ gpio_install_isr_service

Command == \/ \E s \in Senders : StartTask(s)
           \/ StartAborts \/ EndTask \/ EndDeletesFreed

Sender(s) == Format(s) \/ PublishReport(s) \/ Mark(s)

Counts == 0..MaxCount

Next == \/ Main \/ Connects \/ Disconnects \/ Command
        \/ Interrupt
        \/ \E s \in Senders : Sender(s)
        \/ \E c \in Counts : Arrives(c) \/ Expires(c)
        \/ PowerCycle

Spec == Init /\ [][Next]_vars

\* A sender wakes every 100 ticks and gets the processor when nothing else
\* wants it.  Nobody has to send a command or put an item on the belt.
FairSpec == Spec /\ \A s \in Senders : WF_vars(Sender(s))

-----------------------------------------------------------------------------
TypeOK ==
  /\ app_main \in {"off", "setup", "client", "done"}
  /\ connected \in BOOLEAN
  /\ isr \in BOOLEAN
  /\ counter \in Counts /\ prev_counter \in Counts
  /\ data_sender \in Senders \cup {Null}
  /\ sender \in [Senders -> {"none", "loop", "publish", "mark"}]
  /\ json_msg \in [Senders -> Counts]
  /\ received \in {"none", "start", "end"}
  /\ outbox \subseteq Counts
  /\ doubled \in BOOLEAN /\ lost \in BOOLEAN /\ raced \in BOOLEAN
  /\ late \in BOOLEAN
  /\ handed \in Counts \cup {NoReport} /\ reported \in Counts \cup {NoReport}
  /\ unseen \in Counts

\* The node counts, and its handle is that of a running sender, exactly while
\* the last command it handled is tasks/start.  So vTaskDelete gets a freed
\* task only from a second tasks/end without a tasks/start in between, and the
\* last command decides whatever the ones before it were.
HandleIsLive ==
  /\ received = "start" <=> data_sender \in Alive
  /\ received = "start" <=> isr

\* Unless some tasks/start found a sender running, there is one sender while
\* the node counts and none that goes on publishing after tasks/end.
OneSender ==
  ~doubled => Alive = IF received = "start" THEN {data_sender} ELSE {}

\* What the node has handed to its client is the count when the sender last read
\* it, however interrupts fall between reading, publishing and marking: a run
\* that tasks/end cuts short loses the items since then, no more, unless its
\* last report was refused or deleted with its sender.
LagIsUnseen ==
  ~doubled /\ ~lost /\ handed # NoReport
    /\ (\A s \in Senders : sender[s] # "publish")
    => counter = handed + unseen

\* A report the client took is not forgotten, offline, after tasks/end or over
\* the next reconnection: it is the last the broker has, or the client still
\* owes it.  QoS 1 leaves two other cases: an older one is sent again after it,
\* so that the broker's count goes back, and it is given up.
NewestIsOwed == handed # NoReport => reported = handed \/ handed \in outbox \/ late

\* prev_counter withholds a count that was not handed over only in two cases:
\* items passed while the last report was being published, or the first pass of
\* a run finds the very count that prev_counter is left with.  What was handed
\* over is never published again: NewestIsOwed says what the broker has of it.
WithheldOnlyByRace ==
  received = "start" /\ ~doubled /\ ~lost /\ sender[data_sender] = "loop"
    /\ counter = prev_counter
    => handed = counter \/ raced \/ (handed = NoReport /\ counter = unseen)

\* The sender catches up with the belt, in every run and whatever happened to
\* the runs before: with WithheldOnlyByRace, the client is handed every count at
\* which the belt stops, but for the cases named there and refused reports.
SenderCatchesUp ==
  received = "start" ~> counter = prev_counter \/ received # "start"

=============================================================================
