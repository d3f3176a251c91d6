--------------------------- MODULE SensorsSystem ---------------------------
(***************************************************************************)
(* The three programs together: the backend of Program.cs, the IoT server  *)
(* of receiver.py and the node that Program.cs asks for (dummy-firmware.py *)
(* has it), with RabbitMQ between them.  Requests wait in two queues, from *)
(* which the server is sent them in any order; commands travel in order,   *)
(* at QoS 0.  Connections, messages and the memory of the two Python       *)
(* programs may be lost, at most MaxFaults times in a behaviour.           *)
(*                                                                         *)
(* This is about requests and commands.  Reports do not influence them     *)
(* and are left out, with the publisher of the server, which Program.cs    *)
(* never makes it use otherwise (it sends no nodesStatus).                 *)
(***************************************************************************)
EXTENDS Sequences, FiniteSets, Naturals

CONSTANTS NodeIds, TaskIds, NoTask, NoNode, Counters,
          Node, Task,     \* nodeId and taskId of every TaskRequest
          MaxQueued,
          MaxInFlight,    \* bound: commands on their way to the node
          MaxFaults       \* bound: faults in a behaviour

ASSUME SystemAssumption ==
  /\ NoTask \notin TaskIds
  /\ NoNode \notin NodeIds
  /\ 0 \in Counters
  /\ Node \in NodeIds
  /\ Task \in TaskIds
  /\ MaxQueued \in Nat \ {0} /\ MaxInFlight \in Nat \ {0} /\ MaxFaults \in Nat

VARIABLES main, fw_ready, node_map, task_id, counter, tasks_map, amqp, mqtt,
          amqp_pub, discover, subscribed, exchange,
          issued, view, undelivered, overlap

Service == INSTANCE SensorsService

VARIABLES backend, numberOfRetries, startTask, endTask

Backend == INSTANCE DotnetBackend

VARIABLES
  online,      \* the node is connected and subscribed
  do_run,      \* whether its fw_loop goes on
  commands,    \* tasks/start and tasks/end on their way to the node
  lost,        \* history: the node will not see the last command, or forgot it
  faults

network == <<discover, subscribed, exchange>>
history == <<issued, view, undelivered, overlap>>
service == <<main, fw_ready, node_map, task_id, counter, tasks_map, amqp, mqtt,
             amqp_pub, network, history>>
backendVars == <<backend, numberOfRetries, startTask, endTask>>
node == <<online, do_run>>
bus == <<commands, lost>>
vars == <<service, backendVars, node, bus, faults>>

Init ==
  /\ Service!Init
  /\ Backend!Init
  /\ online = FALSE
  /\ do_run = FALSE
  /\ commands = <<>>
  /\ lost = FALSE
  /\ faults = 0

-----------------------------------------------------------------------------
(* The backend. *)

\* MassTransit declares the exchanges of the receive endpoints.
BackendStarts ==
  /\ Backend!StartAsync
  /\ exchange' = TRUE
  /\ UNCHANGED <<main, fw_ready, node_map, task_id, counter, tasks_map, amqp, mqtt,
                 amqp_pub, discover, subscribed, history, node, bus, faults>>

BackendRetries ==
  /\ Backend!StartAsyncThrows
  /\ UNCHANGED <<service, node, bus, faults>>

BackendSends ==
  /\ Backend!SendStart \/ Backend!SendEnd
  /\ UNCHANGED <<service, node, bus, faults>>

-----------------------------------------------------------------------------
(* The server. *)

ServiceStep ==
  /\ \/ Service!MainStep \/ Service!MainAsks
     \/ Service!ConsumerConnects
     \/ Service!MqttConnects \/ Service!Register
  /\ UNCHANGED <<backendVars, node, bus, faults>>

\* start_task_callback, its first half.
TakeStart ==
  /\ startTask > 0
  /\ startTask' = startTask - 1
  /\ Service!StartTask(Node, Task) \/ Service!AskUnknown(Node)
  /\ UNCHANGED <<backend, numberOfRetries, endTask, node, bus, faults>>

\* end_task_callback of a task that is not in tasks_map.
IgnoreEnd ==
  /\ Service!AmqpIdle
  /\ tasks_map[Task] = NoNode
  /\ UNCHANGED service

\* Mutant: a request is handled twice.
TakeEndTwice ==
  /\ endTask > 0
  /\ endTask' = endTask - 2
  /\ Service!EndTask(Task) \/ Service!EndTaskRaises(Task) \/ IgnoreEnd
  /\ UNCHANGED <<backend, numberOfRetries, startTask, node, bus, faults>>

\* end_task_callback, its first half.
TakeEnd ==
  /\ endTask > 0
  /\ endTask' = endTask - 1
  /\ Service!EndTask(Task) \/ Service!EndTaskRaises(Task) \/ IgnoreEnd
  /\ UNCHANGED <<backend, numberOfRetries, startTask, node, bus, faults>>

\* MQTTConn.publish: without a connection paho drops what it sends at QoS 0.
Publish(command) ==
  \/ /\ subscribed
     /\ Len(commands) < MaxInFlight
     /\ commands' = Append(commands, command)
     /\ lost' = FALSE
  \/ /\ ~subscribed
     /\ lost' = TRUE
     /\ UNCHANGED commands

TellStart ==
  /\ Service!FinishStart
  /\ Publish("start")
  /\ UNCHANGED <<backendVars, node, faults>>

TellEnd ==
  /\ Service!FinishEnd
  /\ Publish("end")
  /\ UNCHANGED <<backendVars, node, faults>>

-----------------------------------------------------------------------------
(* The node. *)

mqtt_connection_handler ==
  /\ ~online
  /\ online' = TRUE
  /\ UNCHANGED <<service, backendVars, do_run, bus, faults>>

\* Mutant: the two topics are not told apart.
RunsOnAnyTopic ==
  /\ online
  /\ commands # <<>>
  /\ do_run' = TRUE
  /\ commands' = Tail(commands)
  /\ UNCHANGED <<service, backendVars, online, lost, faults>>

\* mqtt_message_handler, tasks/start and tasks/end.
HandleCommand ==
  /\ online
  /\ commands # <<>>
  /\ do_run' = (Head(commands) = "start")
  /\ commands' = Tail(commands)
  /\ UNCHANGED <<service, backendVars, online, lost, faults>>

\* mqtt_message_handler, nodes/discover.
HandleDiscover ==
  /\ online
  /\ Service!NodeAnswers(Node)
  /\ UNCHANGED <<backendVars, node, bus, faults>>

-----------------------------------------------------------------------------
(* Faults. *)

Fault == faults < MaxFaults /\ faults' = faults + 1

CommandLost ==
  /\ commands # <<>>
  /\ commands' = Tail(commands)
  /\ lost' = (lost \/ Len(commands) = 1)
  /\ UNCHANGED <<service, backendVars, node>>

\* A clean session: the broker keeps nothing for the node.
NodeLosesConnection ==
  /\ online
  /\ online' = FALSE
  /\ commands' = <<>>
  /\ lost' = (lost \/ commands # <<>>)
  /\ UNCHANGED <<service, backendVars, do_run>>

NodeRestarts ==
  /\ online' = FALSE
  /\ do_run' = FALSE
  /\ commands' = <<>>
  /\ lost' = TRUE
  /\ UNCHANGED <<service, backendVars>>

ServerLosesMessages ==
  /\ Service!MqttLosesConnection \/ Service!AnswerLost(Node)
  /\ UNCHANGED <<backendVars, node, bus>>

\* auto_ack: the broker forgets a request when it sends it, and it sends all
\* that it has.
DropPrefetched ==
  /\ startTask' \in 0..startTask
  /\ endTask' \in 0..endTask

ConsumerLosesConnection ==
  /\ Service!ConsumerLosesConnection
  /\ DropPrefetched
  /\ UNCHANGED <<backend, numberOfRetries, node, bus>>

\* The process is started again, with empty maps.
ServiceRestarts ==
  /\ main' = "dialing"
  /\ fw_ready' = FALSE
  /\ node_map' = {}
  /\ task_id' = [n \in NodeIds |-> NoTask]
  /\ counter' = [n \in NodeIds |-> 0]
  /\ tasks_map' = [t \in TaskIds |-> NoNode]
  /\ amqp' = Service!AmqpAt("off")
  /\ mqtt' = Service!MqttIdle
  /\ amqp_pub' = "undefined"
  /\ discover' = {}
  /\ subscribed' = FALSE
  /\ lost' = TRUE
  /\ DropPrefetched
  /\ UNCHANGED <<exchange, history, backend, numberOfRetries, node,
                 commands>>

BackendThrows ==
  /\ Backend!Throws
  /\ UNCHANGED <<service, node, bus>>

Faults == /\ Fault
          /\ \/ CommandLost \/ NodeLosesConnection \/ NodeRestarts
             \/ ServerLosesMessages \/ ConsumerLosesConnection
             \/ ServiceRestarts \/ BackendThrows

\* The backend has given up, and there is nothing to do without it.
Abandoned == backend = "failed" /\ UNCHANGED vars

-----------------------------------------------------------------------------
Next == \/ BackendStarts \/ BackendRetries \/ BackendSends
        \/ ServiceStep \/ TakeStart \/ TakeEnd \/ TellStart \/ TellEnd
        \/ mqtt_connection_handler \/ HandleCommand \/ HandleDiscover
        \/ Faults \/ Abandoned

Spec == Init /\ [][Next]_vars

\* Every program runs; the broker delivers what it has; both queues are served.
Fairness ==
  /\ WF_vars(BackendStarts) /\ WF_vars(BackendSends)
  /\ WF_vars(ServiceStep) /\ WF_vars(TellStart) /\ WF_vars(TellEnd)
  /\ SF_vars(TakeStart) /\ SF_vars(TakeEnd)
  /\ WF_vars(mqtt_connection_handler)
  /\ WF_vars(HandleCommand) /\ SF_vars(HandleDiscover)

FairSpec == Spec /\ Fairness

-----------------------------------------------------------------------------
TypeOK ==
  /\ Service!TypeOK
  /\ backend \in {"connecting", "start", "end", "failed"}
  /\ numberOfRetries \in 0..4
  /\ startTask \in 0..MaxQueued
  /\ endTask \in 0..MaxQueued
  /\ online \in BOOLEAN
  /\ do_run \in BOOLEAN
  /\ commands \in Seq({"start", "end"})
  /\ lost \in BOOLEAN
  /\ faults \in 0..MaxFaults

\* The cycle of Program.cs for its one node and task, with requests repeated,
\* dropped and overtaken by one another and programs restarted, meets the
\* premise of the server's RegistryBijective, and none of its requests ends the
\* consumer thread.  Of a backend with several nodes it says nothing.
ConsumerSurvives == ~overlap /\ amqp.pc \notin Service!Dead

\* A node that has seen the last command, and has not restarted since, runs
\* exactly while the server has a task for it.
NodeObeysRegistry ==
  commands = <<>> /\ ~lost /\ ~Service!Switching(Node)
    => (do_run <=> task_id[Node] # NoTask)

\* Whatever was lost on the way, a node does not count for ever: also a run that
\* a restarted server knows nothing of, or whose end request was overtaken by
\* its start request, is ended by a later cycle of the backend.
RunsEnd == do_run ~> ~do_run

=============================================================================
