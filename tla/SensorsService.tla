--------------------------- MODULE SensorsService ---------------------------
(***************************************************************************)
(* The Python IoT server, sensors-service/src: the node and task maps of   *)
(* receiver.py and the three threads that share them.                      *)
(*                                                                         *)
(*   main   dials MQTT, asks for nodes until one answers, opens the AMQP   *)
(*          publisher, starts the AMQP consumer thread and joins it;       *)
(*   amqp   runs start_task_callback, end_task_callback and                *)
(*          nodes_status_callback, one request at a time;                  *)
(*   mqtt   paho's network loop: runs mqtt_on_connect, mqtt_on_message.    *)
(*                                                                         *)
(* A step of the model is the code between two accesses that another       *)
(* thread can observe.  Requests, sensor messages and connection losses    *)
(* are the environment's and may arrive in any order.  A handler that      *)
(* returns without touching anything (a body that is not JSON, an end of   *)
(* an unknown task, a message of an unknown node) is a stuttering step.    *)
(***************************************************************************)
EXTENDS Naturals

CONSTANTS NodeIds,     \* what nodes call themselves
          TaskIds,     \* task ids the backend hands out
          NoTask,      \* the code's -1
          NoNode,      \* no Node object: a key that a map does not hold
          Counters     \* counter values a node may report

ASSUME ServiceAssumption ==
  /\ NoTask \notin TaskIds
  /\ NoNode \notin NodeIds
  /\ 0 \in Counters

VARIABLES
  main,         \* where the main thread is
  fw_ready,     \* fw_ready["loaded"]
  node_map,     \* keys of node_map; a Node object is never removed
  task_id,      \* task_id and counter attributes of each Node object
  counter,
  tasks_map,    \* task id -> Node object, NoNode for an absent key
  amqp,         \* consumer thread: position and local variables
  mqtt,         \* paho thread: position and local variables
  amqp_pub      \* connection and channel behind the global amqp_pub

\* The broker and the nodes, as far as the service depends on them.
VARIABLES
  discover,     \* nodes with a nodes/discover request to answer
  subscribed,   \* the MQTT session is up and both topics are subscribed
  exchange      \* the backend has declared its exchanges on the broker

\* History: what the outside has been told, and what the backend asked.
VARIABLES
  issued,       \* last command published for each node
  view,         \* last updateTask message of each node that reached the exchange
  undelivered,  \* nodes whose most recent updateTask message did not
  overlap       \* some start request reused a busy node or a running task

service == <<main, fw_ready, node_map, task_id, counter, tasks_map, amqp, mqtt,
             amqp_pub>>
network == <<discover, subscribed, exchange>>
history == <<issued, view, undelivered, overlap>>
vars == <<service, network, history>>

objects == <<task_id, counter>>        \* attributes of the Node objects

-----------------------------------------------------------------------------
MainPcs == {"dialing", "discovering", "opening", "starting", "joining", "exited"}

\* The exceptions that end the consumer thread are its final positions.
Dead == {"KeyError", "RuntimeError", "AMQPChannelError"}
Handling == {"start", "end", "listing", "publish", "reconnect"}
AmqpPcs == {"off", "connecting", "idle"} \cup Handling \cup Dead

MqttPcs == {"idle", "register", "store", "copy", "publish", "reconnect"}

PubStates == {"undefined", "open", "lost", "closed"}

\* What the service publishes: an entry of updateStatus, the body of updateTask.
StatusEntry == [nodeId : NodeIds, isActive : BOOLEAN]
Update == [task : TaskIds \cup {NoTask}, counter : Counters]

AmqpThread == [pc : AmqpPcs, node : NodeIds \cup {NoNode},
               listed : SUBSET NodeIds, res_arr : SUBSET StatusEntry]
MqttThread == [pc : MqttPcs, node : NodeIds \cup {NoNode},
               task : TaskIds \cup {NoTask}, counter : Counters]

AmqpAt(pc) == [pc |-> pc, node |-> NoNode, listed |-> {}, res_arr |-> {}]
MqttIdle   == [pc |-> "idle", node |-> NoNode, task |-> NoTask, counter |-> 0]

Init ==
  /\ main = "dialing"
  /\ fw_ready = FALSE
  /\ node_map = {}
  /\ task_id = [n \in NodeIds |-> NoTask]
  /\ counter = [n \in NodeIds |-> 0]
  /\ tasks_map = [t \in TaskIds |-> NoNode]
  /\ amqp = AmqpAt("off")
  /\ mqtt = MqttIdle
  /\ amqp_pub = "undefined"
  /\ discover = {}
  /\ subscribed = FALSE
  /\ exchange \in BOOLEAN
  /\ issued = [n \in NodeIds |-> "none"]
  /\ view = [n \in NodeIds |-> [task |-> NoTask, counter |-> 0]]
  /\ undelivered = {}
  /\ overlap = FALSE

Running == main # "exited"
AmqpIdle == Running /\ amqp.pc = "idle"

-----------------------------------------------------------------------------
(* AMQPPublisher.publish: the one publisher both threads share.  A publish *)
(* on a closed channel, or before the global exists, raises an exception   *)
(* the except clause does not name; a lost connection is noticed by one    *)
(* publish, which drops its message and dials again, or by none yet.       *)

Outcomes == {"sent", "vanished", "reconnect", "raised"}

Publish(out) ==
  \/ /\ out = "sent"
     /\ amqp_pub = "open" /\ exchange
     /\ UNCHANGED amqp_pub
  \/ /\ out \in {"vanished", "raised"}       \* no such exchange: channel closed
     /\ amqp_pub = "open" /\ ~exchange
     /\ amqp_pub' = "closed"
  \/ /\ out = "vanished"                     \* written to a dead socket
     /\ amqp_pub = "lost"
     /\ UNCHANGED amqp_pub
  \/ /\ out = "reconnect"
     /\ amqp_pub = "lost"
     /\ amqp_pub' = "closed"
  \/ /\ out = "reconnect"                    \* both were writing when it broke
     /\ amqp_pub = "closed"
     /\ "reconnect" \in {amqp.pc, mqtt.pc}
     /\ UNCHANGED amqp_pub
  \/ /\ out = "raised"
     /\ amqp_pub \in {"undefined", "closed"}
     /\ UNCHANGED amqp_pub

\* A publish of the nodes/discover topic: every node is to answer.
AskNodes == discover' = IF subscribed THEN NodeIds ELSE discover

-----------------------------------------------------------------------------
(* Main thread. *)

OpenMqtt ==
  /\ main = "dialing"
  /\ main' = "discovering"
  /\ UNCHANGED <<fw_ready, node_map, objects, tasks_map, amqp, mqtt, amqp_pub,
                 network, history>>

MainAsks ==
  /\ main = "discovering"
  /\ ~fw_ready
  /\ AskNodes
  /\ UNCHANGED <<service, subscribed, exchange, history>>

\* Mutant: main goes on without waiting for an answer.
LeavesUnasked ==
  /\ main = "discovering"
  /\ main' = "opening"
  /\ UNCHANGED <<fw_ready, node_map, objects, tasks_map, amqp, mqtt, amqp_pub,
                 network, history>>

LeaveDiscovery ==
  /\ main = "discovering"
  /\ fw_ready
  /\ main' = "opening"
  /\ UNCHANGED <<fw_ready, node_map, objects, tasks_map, amqp, mqtt, amqp_pub,
                 network, history>>

OpenPublisher ==
  /\ main = "opening"
  /\ main' = "starting"
  /\ amqp_pub' = "open"
  /\ UNCHANGED <<fw_ready, node_map, objects, tasks_map, amqp, mqtt,
                 network, history>>

StartConsumer ==
  /\ main = "starting"
  /\ main' = "joining"
  /\ amqp' = AmqpAt("connecting")
  /\ UNCHANGED <<fw_ready, node_map, objects, tasks_map, mqtt, amqp_pub,
                 network, history>>

\* The join returns and the interpreter exits; paho's thread is a daemon.
Exit ==
  /\ main = "joining"
  /\ amqp.pc \in Dead
  /\ main' = "exited"
  /\ UNCHANGED <<fw_ready, node_map, objects, tasks_map, amqp, mqtt, amqp_pub,
                 network, history>>

-----------------------------------------------------------------------------
(* Consumer thread. *)

ConsumerConnects ==
  /\ amqp.pc = "connecting"
  /\ amqp' = AmqpAt("idle")
  /\ UNCHANGED <<main, fw_ready, node_map, objects, tasks_map, mqtt, amqp_pub,
                 network, history>>

ConsumerLosesConnection ==
  /\ AmqpIdle
  /\ amqp' = AmqpAt("connecting")
  /\ UNCHANGED <<main, fw_ready, node_map, objects, tasks_map, mqtt, amqp_pub,
                 network, history>>

\* start_task_callback for a node that is not in node_map.
AskUnknown(n) ==
  /\ AmqpIdle
  /\ n \notin node_map
  /\ AskNodes
  /\ UNCHANGED <<service, subscribed, exchange, history>>

\* A start request that a backend which runs one task per node, and one node
\* per task, would not send.
Overlapping(n, t) ==
  /\ ~(task_id[n] = NoTask /\ tasks_map[t] = NoNode)
  /\ ~(task_id[n] = t /\ tasks_map[t] = n)

\* A request that has a taskId: without one receiver.py:46 raises a KeyError,
\* which ends the consumer thread as any exception in a callback does.
StartTask(n, t) ==
  /\ AmqpIdle
  /\ n \in node_map
  /\ task_id' = [task_id EXCEPT ![n] = t]
  /\ overlap' = (overlap \/ Overlapping(n, t))
  /\ amqp' = [AmqpAt("start") EXCEPT !.node = n]
  /\ UNCHANGED <<main, fw_ready, node_map, counter, tasks_map, mqtt, amqp_pub,
                 network, issued, view, undelivered>>

\* Mutant: switch_task keeps the counter of the node's last task.
StartsWithOldCounter ==
  /\ amqp.pc = "start"
  /\ tasks_map' = [tasks_map EXCEPT ![task_id[amqp.node]] = amqp.node]
  /\ issued' = [issued EXCEPT ![amqp.node] = "start"]
  /\ amqp' = AmqpAt("idle")
  /\ UNCHANGED <<main, fw_ready, node_map, objects, mqtt, amqp_pub,
                 network, view, undelivered, overlap>>

\* The rest of switch_task, the entry in tasks_map, the tasks/start command.
FinishStart ==
  /\ amqp.pc = "start"
  /\ counter' = [counter EXCEPT ![amqp.node] = 0]
  /\ tasks_map' = [tasks_map EXCEPT ![task_id[amqp.node]] = amqp.node]
  /\ issued' = [issued EXCEPT ![amqp.node] = "start"]
  /\ amqp' = AmqpAt("idle")
  /\ UNCHANGED <<main, fw_ready, node_map, task_id, mqtt, amqp_pub,
                 network, view, undelivered, overlap>>

\* Mutant: the key is read after switch_task(-1).
PopsAfterSwitch(t) == NoTask \in TaskIds /\ tasks_map[NoTask] # NoNode

\* The key that end_task_callback pops: the task of the node it looked up.
InTasksMap(t) == t \in TaskIds /\ tasks_map[t] # NoNode

\* Mutant: the task stays in tasks_map.
EndsWithoutPop(t) ==
  /\ AmqpIdle
  /\ tasks_map[t] # NoNode
  /\ task_id' = [task_id EXCEPT ![tasks_map[t]] = NoTask]
  /\ amqp' = [AmqpAt("end") EXCEPT !.node = tasks_map[t]]
  /\ UNCHANGED <<main, fw_ready, node_map, counter, tasks_map, mqtt, amqp_pub,
                 network, history>>

EndTask(t) ==
  /\ AmqpIdle
  /\ tasks_map[t] # NoNode
  /\ LET n == tasks_map[t] IN
       /\ InTasksMap(task_id[n])
       /\ tasks_map' = [tasks_map EXCEPT ![task_id[n]] = NoNode]
       /\ task_id' = [task_id EXCEPT ![n] = NoTask]
       /\ amqp' = [AmqpAt("end") EXCEPT !.node = n]
  /\ UNCHANGED <<main, fw_ready, node_map, counter, mqtt, amqp_pub,
                 network, history>>

EndTaskRaises(t) ==
  /\ AmqpIdle
  /\ tasks_map[t] # NoNode
  /\ ~InTasksMap(task_id[tasks_map[t]])
  /\ amqp' = AmqpAt("KeyError")
  /\ UNCHANGED <<main, fw_ready, node_map, objects, tasks_map, mqtt, amqp_pub,
                 network, history>>

\* Mutant: switch_task(-1) assigns its argument to the counter as well.
EndsWithNoCounter ==
  /\ amqp.pc = "end"
  /\ counter' = [counter EXCEPT ![amqp.node] = NoTask]
  /\ issued' = [issued EXCEPT ![amqp.node] = "end"]
  /\ amqp' = AmqpAt("idle")
  /\ UNCHANGED <<main, fw_ready, node_map, task_id, tasks_map, mqtt, amqp_pub,
                 network, view, undelivered, overlap>>

\* Mutant: the node is not told.
EndsSilently ==
  /\ amqp.pc = "end"
  /\ counter' = [counter EXCEPT ![amqp.node] = 0]
  /\ amqp' = AmqpAt("idle")
  /\ UNCHANGED <<main, fw_ready, node_map, task_id, tasks_map, mqtt, amqp_pub,
                 network, history>>

FinishEnd ==
  /\ amqp.pc = "end"
  /\ counter' = [counter EXCEPT ![amqp.node] = 0]
  /\ issued' = [issued EXCEPT ![amqp.node] = "end"]
  /\ amqp' = AmqpAt("idle")
  /\ UNCHANGED <<main, fw_ready, node_map, task_id, tasks_map, mqtt, amqp_pub,
                 network, view, undelivered, overlap>>

NodesStatus ==
  /\ AmqpIdle
  /\ amqp' = [AmqpAt("listing") EXCEPT !.listed = node_map]
  /\ UNCHANGED <<main, fw_ready, node_map, objects, tasks_map, mqtt, amqp_pub,
                 network, history>>

Listed == {r.nodeId : r \in amqp.res_arr}

\* Mutant: a node counts as active from its first report on.
ListsReporting(n) ==
  /\ amqp.pc = "listing"
  /\ node_map = amqp.listed
  /\ n \in amqp.listed \ Listed
  /\ amqp' = [amqp EXCEPT !.res_arr =
                @ \cup {[nodeId |-> n, isActive |-> counter[n] # 0]}]
  /\ UNCHANGED <<main, fw_ready, node_map, objects, tasks_map, mqtt, amqp_pub,
                 network, history>>

ListNode(n) ==
  /\ amqp.pc = "listing"
  /\ node_map = amqp.listed
  /\ n \in amqp.listed \ Listed
  /\ amqp' = [amqp EXCEPT !.res_arr =
                @ \cup {[nodeId |-> n, isActive |-> task_id[n] # NoTask]}]
  /\ UNCHANGED <<main, fw_ready, node_map, objects, tasks_map, mqtt, amqp_pub,
                 network, history>>

ListEnds ==
  /\ amqp.pc = "listing"
  /\ node_map = amqp.listed
  /\ amqp.listed \subseteq Listed
  /\ amqp' = [amqp EXCEPT !.pc = "publish"]
  /\ UNCHANGED <<main, fw_ready, node_map, objects, tasks_map, mqtt, amqp_pub,
                 network, history>>

\* dictionary changed size during iteration
ListRaises ==
  /\ amqp.pc = "listing"
  /\ node_map # amqp.listed
  /\ amqp' = AmqpAt("RuntimeError")
  /\ UNCHANGED <<main, fw_ready, node_map, objects, tasks_map, mqtt, amqp_pub,
                 network, history>>

PublishStatus ==
  /\ amqp.pc = "publish"
  /\ \E out \in Outcomes :
       /\ Publish(out)
       /\ amqp' = AmqpAt(CASE out = "reconnect" -> "reconnect"
                           [] out = "raised"    -> "AMQPChannelError"
                           [] OTHER             -> "idle")
  /\ UNCHANGED <<main, fw_ready, node_map, objects, tasks_map, mqtt,
                 network, history>>

\* Mutant: connect also waits for the exchanges.
ReconnectsForExchange ==
  /\ amqp.pc = "reconnect"
  /\ exchange
  /\ amqp_pub' = "open"
  /\ amqp' = AmqpAt("idle")
  /\ UNCHANGED <<main, fw_ready, node_map, objects, tasks_map, mqtt,
                 network, history>>

AmqpReconnects ==
  /\ amqp.pc = "reconnect"
  /\ amqp_pub' = "open"
  /\ amqp' = AmqpAt("idle")
  /\ UNCHANGED <<main, fw_ready, node_map, objects, tasks_map, mqtt,
                 network, history>>

-----------------------------------------------------------------------------
(* Paho's thread. *)

MqttReady == Running /\ main # "dialing" /\ mqtt.pc = "idle"

MqttConnects ==
  /\ MqttReady
  /\ ~subscribed
  /\ subscribed' = TRUE
  /\ UNCHANGED <<service, discover, exchange, history>>

\* A clean session: what nodes publish until the next mqtt_on_connect is lost.
MqttLosesConnection ==
  /\ MqttReady
  /\ subscribed
  /\ subscribed' = FALSE
  /\ discover' = {}
  /\ UNCHANGED <<service, exchange, history>>

\* Mutant: "loaded" is not set.
StoresOnly(n) ==
  /\ MqttReady /\ subscribed
  /\ \/ n \in node_map /\ UNCHANGED mqtt
     \/ n \notin node_map /\ mqtt' = [MqttIdle EXCEPT !.pc = "register", !.node = n]
  /\ UNCHANGED <<main, fw_ready, node_map, objects, tasks_map, amqp, amqp_pub,
                 subscribed, exchange, history>>

\* Mutant: answers count only until the first node is known.
StoresFirst(n) ==
  /\ MqttReady /\ subscribed
  /\ \/ /\ n \in node_map \/ fw_ready
        /\ UNCHANGED <<fw_ready, mqtt>>
     \/ /\ n \notin node_map /\ ~fw_ready
        /\ fw_ready' = TRUE
        /\ mqtt' = [MqttIdle EXCEPT !.pc = "register", !.node = n]
  /\ UNCHANGED <<main, node_map, objects, tasks_map, amqp, amqp_pub,
                 subscribed, exchange, history>>

\* mqtt_on_message, topic nodes/discover/response.
OnDiscoverResponse(n) ==
  /\ MqttReady /\ subscribed
  /\ \/ /\ n \in node_map
        /\ UNCHANGED <<fw_ready, mqtt>>
     \/ /\ n \notin node_map
        /\ fw_ready' = TRUE
        /\ mqtt' = [MqttIdle EXCEPT !.pc = "register", !.node = n]
  /\ UNCHANGED <<main, node_map, objects, tasks_map, amqp, amqp_pub,
                 subscribed, exchange, history>>

NodeAnswers(n) ==
  /\ n \in discover
  /\ discover' = discover \ {n}
  /\ OnDiscoverResponse(n)

\* A node of the RTOS firmware also answers unasked, when it connects.
NodeAnnounces(n) == OnDiscoverResponse(n) /\ UNCHANGED discover

\* QoS 0: the request or its answer may get lost.
AnswerLost(n) ==
  /\ MqttReady
  /\ n \in discover
  /\ discover' = discover \ {n}
  /\ UNCHANGED <<service, subscribed, exchange, history>>

Register ==
  /\ Running /\ mqtt.pc = "register"
  /\ node_map' = node_map \cup {mqtt.node}
  /\ task_id' = [task_id EXCEPT ![mqtt.node] = NoTask]
  /\ counter' = [counter EXCEPT ![mqtt.node] = 0]
  /\ mqtt' = MqttIdle
  /\ UNCHANGED <<main, fw_ready, tasks_map, amqp, amqp_pub, network, history>>

\* mqtt_on_message, topic nodes/status: a counter the service did not have.
OnStatus(n, c) ==
  /\ MqttReady /\ subscribed
  /\ n \in node_map
  /\ counter[n] # c
  /\ mqtt' = [MqttIdle EXCEPT !.pc = "store", !.node = n, !.counter = c]
  /\ UNCHANGED <<main, fw_ready, node_map, objects, tasks_map, amqp, amqp_pub,
                 network, history>>

StoreCounter ==
  /\ Running /\ mqtt.pc = "store"
  /\ counter' = [counter EXCEPT ![mqtt.node] = mqtt.counter]
  /\ mqtt' = [mqtt EXCEPT !.pc = "copy"]
  /\ UNCHANGED <<main, fw_ready, node_map, task_id, tasks_map, amqp, amqp_pub,
                 network, history>>

\* Mutant: the update carries the counter of the message, not of the Node.
CopiesMessage ==
  /\ Running /\ mqtt.pc = "copy"
  /\ mqtt' = [mqtt EXCEPT !.pc = "publish", !.task = task_id[mqtt.node]]
  /\ UNCHANGED <<main, fw_ready, node_map, objects, tasks_map, amqp, amqp_pub,
                 network, history>>

CopyNode ==
  /\ Running /\ mqtt.pc = "copy"
  /\ mqtt' = [mqtt EXCEPT !.pc = "publish", !.task = task_id[mqtt.node],
                          !.counter = counter[mqtt.node]]
  /\ UNCHANGED <<main, fw_ready, node_map, objects, tasks_map, amqp, amqp_pub,
                 network, history>>

\* Mutant: the except clause does not dial again.
UpdatesOnce ==
  /\ Running /\ mqtt.pc = "publish"
  /\ \E out \in Outcomes :
       /\ Publish(out)
       /\ mqtt' = MqttIdle
       /\ \/ /\ out = "sent"
             /\ view' = [view EXCEPT ![mqtt.node] =
                           [task |-> mqtt.task, counter |-> mqtt.counter]]
             /\ undelivered' = undelivered \ {mqtt.node}
          \/ /\ out # "sent"
             /\ undelivered' = undelivered \cup {mqtt.node}
             /\ UNCHANGED view
  /\ UNCHANGED <<main, fw_ready, node_map, objects, tasks_map, amqp,
                 network, issued, overlap>>

\* Paho 1.5.0 logs an exception raised in on_message and carries on.
PublishUpdate ==
  /\ Running /\ mqtt.pc = "publish"
  /\ \E out \in Outcomes :
       /\ Publish(out)
       /\ mqtt' = IF out = "reconnect" THEN [mqtt EXCEPT !.pc = "reconnect"]
                                       ELSE MqttIdle
       /\ \/ /\ out = "sent"
             /\ view' = [view EXCEPT ![mqtt.node] =
                           [task |-> mqtt.task, counter |-> mqtt.counter]]
             /\ undelivered' = undelivered \ {mqtt.node}
          \/ /\ out # "sent"
             /\ undelivered' = undelivered \cup {mqtt.node}
             /\ UNCHANGED view
  /\ UNCHANGED <<main, fw_ready, node_map, objects, tasks_map, amqp,
                 network, issued, overlap>>

MqttReconnects ==
  /\ Running /\ mqtt.pc = "reconnect"
  /\ amqp_pub' = "open"
  /\ mqtt' = MqttIdle
  /\ UNCHANGED <<main, fw_ready, node_map, objects, tasks_map, amqp,
                 network, history>>

-----------------------------------------------------------------------------
(* Broker and backend. *)

PublisherLosesConnection ==
  /\ Running
  /\ amqp_pub = "open"
  /\ amqp_pub' = "lost"
  /\ UNCHANGED <<main, fw_ready, node_map, objects, tasks_map, amqp, mqtt,
                 network, history>>

BackendDeclares ==
  /\ Running
  /\ ~exchange
  /\ exchange' = TRUE
  /\ UNCHANGED <<service, discover, subscribed, history>>

\* The broker's container is recreated without its exchanges.
BrokerRecreated ==
  /\ Running
  /\ exchange
  /\ exchange' = FALSE
  /\ amqp_pub' = IF amqp_pub = "open" THEN "lost" ELSE amqp_pub
  /\ UNCHANGED <<main, fw_ready, node_map, objects, tasks_map, amqp, mqtt,
                 discover, subscribed, history>>

-----------------------------------------------------------------------------
MainStep == OpenMqtt \/ LeaveDiscovery \/ OpenPublisher \/ StartConsumer \/ Exit

Request == \/ NodesStatus
           \/ \E n \in NodeIds : AskUnknown(n)
           \/ \E n \in NodeIds, t \in TaskIds : StartTask(n, t)
           \/ \E t \in TaskIds : EndTask(t) \/ EndTaskRaises(t)

AmqpStep == \/ ConsumerConnects \/ FinishStart \/ FinishEnd
            \/ ListEnds \/ ListRaises \/ \E n \in NodeIds : ListNode(n)
            \/ PublishStatus \/ AmqpReconnects

Message == \E n \in NodeIds : \/ NodeAnswers(n) \/ NodeAnnounces(n)
                              \/ \E c \in Counters : OnStatus(n, c)

MqttStep == \/ Register \/ StoreCounter \/ CopyNode \/ PublishUpdate
            \/ MqttReconnects

Failure == \/ ConsumerLosesConnection \/ MqttLosesConnection
           \/ PublisherLosesConnection \/ BrokerRecreated
           \/ \E n \in NodeIds : AnswerLost(n)

\* The process has ended and nothing restarts it.
Terminated == main = "exited" /\ UNCHANGED vars

Next == \/ MainStep \/ MainAsks
        \/ Request \/ AmqpStep
        \/ MqttConnects \/ Message \/ MqttStep
        \/ BackendDeclares \/ Failure
        \/ Terminated

Spec == Init /\ [][Next]_vars

\* The scheduler runs every thread, retry(delay=5) dials until the broker
\* answers, and the MQTT link works often enough for a question that the main
\* loop repeats every 1.5 s, and for one of its answers, to get through.
Fairness == /\ WF_vars(MainStep) /\ WF_vars(AmqpStep) /\ WF_vars(MqttStep)
            /\ WF_vars(MqttConnects)
            /\ SF_vars(MainAsks)
            /\ \A n \in NodeIds : SF_vars(NodeAnswers(n))

FairSpec == Spec /\ Fairness

-----------------------------------------------------------------------------
TypeOK ==
  /\ main \in MainPcs
  /\ fw_ready \in BOOLEAN
  /\ node_map \subseteq NodeIds
  /\ task_id \in [NodeIds -> TaskIds \cup {NoTask}]
  /\ counter \in [NodeIds -> Counters]
  /\ tasks_map \in [TaskIds -> NodeIds \cup {NoNode}]
  /\ amqp \in AmqpThread
  /\ mqtt \in MqttThread
  /\ amqp_pub \in PubStates
  /\ discover \subseteq NodeIds
  /\ subscribed \in BOOLEAN
  /\ exchange \in BOOLEAN
  /\ issued \in [NodeIds -> {"none", "start", "end"}]
  /\ view \in [NodeIds -> Update]
  /\ undelivered \subseteq NodeIds
  /\ overlap \in BOOLEAN

\* A handler has touched only part of the state of node n.
Switching(n) == amqp.pc \in {"start", "end"} /\ amqp.node = n
Updating(n)  == mqtt.pc # "idle" /\ mqtt.node = n

\* The counter kept to suppress repeated reports never hides anything from the
\* backend: unless the last publish for the node failed, a counter other than
\* zero is the one the backend was last told, and it was told it for the task
\* the node has now, whatever was in flight when switch_task ran.
ViewCoherent ==
  \A n \in NodeIds :
    counter[n] # 0 /\ n \notin undelivered /\ ~Switching(n) /\ ~Updating(n)
      => view[n] = [task |-> task_id[n], counter |-> counter[n]]

\* As long as the backend gives a task to one idle node at a time, tasks_map is
\* the inverse of the nodes' task_id attributes.
RegistryBijective ==
  ~overlap /\ amqp.pc # "start"
    => \A n \in NodeIds, t \in TaskIds : tasks_map[t] = n <=> task_id[n] = t

\* The pop in end_task_callback kills the consumer thread only if the backend
\* at some time started a task on a busy node or on a second node.
NoKeyError == amqp.pc = "KeyError" => overlap

\* A node has a task in the service exactly while the last command the service
\* published for it is tasks/start.
CommandsMatchRegistry ==
  \A n \in NodeIds :
    ~Switching(n) => (issued[n] = "start" <=> task_id[n] # NoTask)

\* The array that nodes_status_callback publishes calls active exactly the
\* nodes last told to start, and lists every node that was told anything,
\* although it is built entry by entry while nodes keep registering.
StatusReplyMatchesCommands ==
  amqp.pc = "publish" =>
    \A n \in NodeIds :
      /\ issued[n] = "start" <=> [nodeId |-> n, isActive |-> TRUE] \in amqp.res_arr
      /\ issued[n] = "end" => [nodeId |-> n, isActive |-> FALSE] \in amqp.res_arr

\* The consumer thread serves requests only after some node has answered, with
\* the publisher ready for the replies; the set of nodes may still be empty
\* while paho's thread is between setting "loaded" and storing the Node.
ReadyBeforeServing ==
  amqp.pc # "off" => /\ amqp_pub # "undefined"
                     /\ node_map # {} \/ mqtt.pc = "register"

\* "separate connection for each thread" (amqp_conn.py:20): no two threads are
\* inside the publisher, which has one connection, at the same time.
SeparateConnections ==
  ~(amqp.pc \in {"publish", "reconnect"} /\ mqtt.pc \in {"publish", "reconnect"})

-----------------------------------------------------------------------------
\* Discovery ends although the link drops and answers get lost: the consumer
\* thread is started.
ConsumerStarts == <>(amqp.pc # "off")

\* Every request that the consumer thread took is finished, or ends the thread.
RequestsFinish == amqp.pc \in Handling ~> amqp.pc \in {"idle"} \cup Dead

\* While the exchanges exist, a closed publisher is one that some thread is
\* dialling again: it opens, unless the process ends first.
PublisherIsRepaired ==
  []exchange => (amqp_pub = "closed" ~> amqp_pub = "open" \/ main = "exited")

\* A backend that keeps repeating a start request for an unknown node, each one
\* dropped, gets the node registered.
UnknownNodeIsFound ==
  \A n \in NodeIds : []<><<AskUnknown(n)>>_discover => <>(n \in node_map)

=============================================================================
