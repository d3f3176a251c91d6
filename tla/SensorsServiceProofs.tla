------------------------ MODULE SensorsServiceProofs ------------------------
(***************************************************************************)
(* Safety of SensorsService for every set of nodes, tasks and counters.    *)
(* Each property is one conjunct, or follows from one, of an inductive     *)
(* invariant; the conjuncts are proved one after the other.                *)
(***************************************************************************)
EXTENDS SensorsService, TLAPS

\* Where the threads are determines which Node object they hold.
LocalsOK ==
  /\ amqp.pc = "off" <=> main \notin {"joining", "exited"}
  /\ amqp.pc \in {"start", "end"} => amqp.node \in node_map
  /\ amqp.pc = "start" => task_id[amqp.node] \in TaskIds
  /\ mqtt.pc # "idle" => mqtt.node \in NodeIds
  /\ mqtt.pc = "register" => mqtt.node \notin node_map
  /\ mqtt.pc \notin {"idle", "register"} => mqtt.node \in node_map

\* A node that is not registered has been given nothing.
UnknownUntouched ==
  \A n \in NodeIds \ node_map :
    task_id[n] = NoTask /\ counter[n] = 0 /\ issued[n] = "none"

TasksOfKnownNodes == \A t \in TaskIds : tasks_map[t] \in node_map \cup {NoNode}

TypeInv == TypeOK /\ LocalsOK /\ UnknownUntouched /\ TasksOfKnownNodes

-----------------------------------------------------------------------------
USE ServiceAssumption DEF ServiceAssumption

LEMMA AmqpAtType ==
  ASSUME NEW pc \in AmqpPcs
  PROVE  AmqpAt(pc) \in AmqpThread /\ AmqpAt(pc).pc = pc
BY DEF AmqpAt, AmqpThread

LEMMA AmqpHolds ==
  ASSUME NEW pc \in AmqpPcs, NEW n \in NodeIds
  PROVE  LET a == [AmqpAt(pc) EXCEPT !.node = n]
         IN  a \in AmqpThread /\ a.pc = pc /\ a.node = n
BY DEF AmqpAt, AmqpThread

LEMMA AmqpLists ==
  ASSUME NEW S \in SUBSET NodeIds
  PROVE  LET a == [AmqpAt("listing") EXCEPT !.listed = S]
         IN  a \in AmqpThread /\ a.pc = "listing" /\ a.listed = S /\ a.res_arr = {}
BY DEF AmqpAt, AmqpThread, AmqpPcs, Handling

LEMMA MqttIdleType == MqttIdle \in MqttThread /\ MqttIdle.pc = "idle"
BY DEF MqttIdle, MqttThread, MqttPcs

LEMMA MqttRegisters ==
  ASSUME NEW n \in NodeIds
  PROVE  LET m == [MqttIdle EXCEPT !.pc = "register", !.node = n]
         IN  m \in MqttThread /\ m.pc = "register" /\ m.node = n
BY DEF MqttIdle, MqttThread, MqttPcs

LEMMA InitTypeInv == Init => TypeInv
<1> SUFFICES ASSUME Init PROVE TypeInv
  OBVIOUS
<1> USE DEF Init
<1>1. TypeOK
  <2>1. amqp \in AmqpThread
    BY DEF AmqpThread, AmqpPcs, AmqpAt
  <2>2. view \in [NodeIds -> Update]
    BY DEF Update
  <2>3. QED BY <2>1, <2>2, MqttIdleType DEF TypeOK, MainPcs, PubStates
<1>2. LocalsOK /\ UnknownUntouched /\ TasksOfKnownNodes
  BY DEF LocalsOK, UnknownUntouched, TasksOfKnownNodes, AmqpAt, MqttIdle
<1>3. QED BY <1>1, <1>2 DEF TypeInv

LEMMA NextTypeInv == TypeInv /\ [Next]_vars => TypeInv'
<1> SUFFICES ASSUME TypeInv, [Next]_vars PROVE TypeInv'
  OBVIOUS
<1> USE MqttIdleType
<1> USE DEF TypeInv, TypeOK, LocalsOK, UnknownUntouched, TasksOfKnownNodes,
            MainPcs, PubStates, Running, AmqpIdle, MqttReady,
            service, network, history, objects, vars
<1>a. \A pc \in AmqpPcs : AmqpAt(pc) \in AmqpThread /\ AmqpAt(pc).pc = pc
  BY AmqpAtType
<1>b. {"idle", "connecting", "start", "end", "listing", "publish", "reconnect",
       "KeyError", "RuntimeError", "AMQPChannelError"} \subseteq AmqpPcs
  BY DEF AmqpPcs, Handling, Dead
<1>1. CASE MainStep
  BY <1>1, <1>a, <1>b
     DEF MainStep, OpenMqtt, LeaveDiscovery, OpenPublisher, StartConsumer, Exit
<1>2. CASE MainAsks
  BY <1>2 DEF MainAsks, AskNodes
<1>3. CASE Request
  <2>1. CASE NodesStatus
    BY <2>1, AmqpLists DEF NodesStatus
  <2>2. ASSUME NEW n \in NodeIds, AskUnknown(n) PROVE TypeInv'
    BY <2>2 DEF AskUnknown, AskNodes
  <2>3. ASSUME NEW n \in NodeIds, NEW t \in TaskIds, StartTask(n, t) PROVE TypeInv'
    <3>1. amqp' \in AmqpThread /\ amqp'.pc = "start" /\ amqp'.node = n
      BY <2>3, <1>b, AmqpHolds DEF StartTask
    <3>2. TypeOK'
      BY <2>3, <3>1 DEF StartTask, Overlapping
    <3>3. LocalsOK'
      BY <2>3, <3>1 DEF StartTask
    <3>4. UnknownUntouched' /\ TasksOfKnownNodes'
      BY <2>3 DEF StartTask
    <3>5. QED BY <3>2, <3>3, <3>4
  <2>4. ASSUME NEW t \in TaskIds, EndTask(t) PROVE TypeInv'
    <3> DEFINE n == tasks_map[t]
    <3>1. n \in node_map /\ n \in NodeIds /\ task_id[n] \in TaskIds
      BY <2>4 DEF EndTask, InTasksMap
    <3>2. /\ amqp.pc = "idle"
          /\ tasks_map' = [tasks_map EXCEPT ![task_id[n]] = NoNode]
          /\ task_id' = [task_id EXCEPT ![n] = NoTask]
          /\ amqp' = [AmqpAt("end") EXCEPT !.node = n]
          /\ UNCHANGED <<main, fw_ready, node_map, counter, mqtt, amqp_pub,
                         network, history>>
      BY <2>4 DEF EndTask
    <3> HIDE DEF n
    <3>3. amqp' \in AmqpThread /\ amqp'.pc = "end" /\ amqp'.node = n
      BY <3>1, <3>2, <1>b, AmqpHolds
    <3>4. TypeOK'
      BY <3>1, <3>2, <3>3
    <3>5. LocalsOK'
      BY <3>1, <3>2, <3>3
    <3>6. UnknownUntouched' /\ TasksOfKnownNodes'
      BY <3>1, <3>2
    <3>7. QED BY <3>4, <3>5, <3>6
  <2>5. ASSUME NEW t \in TaskIds, EndTaskRaises(t) PROVE TypeInv'
    BY <2>5, <1>a, <1>b DEF EndTaskRaises
  <2>6. QED BY <1>3, <2>1, <2>2, <2>3, <2>4, <2>5 DEF Request
<1>4. CASE AmqpStep
  <2>1. CASE ConsumerConnects \/ ListRaises \/ AmqpReconnects
    BY <2>1, <1>a, <1>b DEF ConsumerConnects, ListRaises, AmqpReconnects
  <2>2. CASE FinishStart
    BY <2>2, <1>a, <1>b DEF FinishStart
  <2>3. CASE FinishEnd
    BY <2>3, <1>a, <1>b DEF FinishEnd
  <2>4. CASE ListEnds
    BY <2>4, <1>b DEF ListEnds, AmqpThread
  <2>5. ASSUME NEW n \in NodeIds, ListNode(n) PROVE TypeInv'
    <3>1. [nodeId |-> n, isActive |-> task_id[n] # NoTask] \in StatusEntry
      BY DEF StatusEntry
    <3>2. amqp' \in AmqpThread /\ amqp'.pc = "listing"
      BY <2>5, <3>1 DEF ListNode, AmqpThread
    <3>3. QED BY <2>5, <3>2 DEF ListNode
  <2>6. CASE PublishStatus
    BY <2>6, <1>a, <1>b DEF PublishStatus, Publish, Outcomes
  <2>7. QED BY <1>4, <2>1, <2>2, <2>3, <2>4, <2>5, <2>6 DEF AmqpStep
<1>5. CASE Message
  <2>1. ASSUME NEW n \in NodeIds, OnDiscoverResponse(n),
               discover' = discover \/ discover' = discover \ {n}
        PROVE TypeInv'
    <3>1. CASE n \in node_map
      BY <2>1, <3>1 DEF OnDiscoverResponse
    <3>2. CASE n \notin node_map
      <4>a. mqtt' = [MqttIdle EXCEPT !.pc = "register", !.node = n]
        BY <2>1, <3>2 DEF OnDiscoverResponse
      <4>1. /\ mqtt' \in MqttThread
            /\ mqtt'.pc = "register" /\ mqtt'.node = n
        BY <4>a, MqttRegisters
      <4>2. QED BY <2>1, <3>2, <4>1 DEF OnDiscoverResponse
    <3>3. QED BY <3>1, <3>2
  <2>2. ASSUME NEW n \in NodeIds, NEW c \in Counters, OnStatus(n, c) PROVE TypeInv'
    <3>1. mqtt' \in MqttThread /\ mqtt'.pc = "store" /\ mqtt'.node = n
      BY <2>2 DEF OnStatus, MqttIdle, MqttThread, MqttPcs
    <3>2. QED BY <2>2, <3>1 DEF OnStatus
  <2>3. QED BY <1>5, <2>1, <2>2 DEF Message, NodeAnswers, NodeAnnounces
<1>6. CASE MqttStep
  <2>1. CASE Register
    BY <2>1 DEF Register
  <2>2. CASE StoreCounter
    <3>1. /\ mqtt' \in MqttThread /\ mqtt'.pc = "copy" /\ mqtt'.node = mqtt.node
          /\ mqtt.counter \in Counters
      BY <2>2 DEF StoreCounter, MqttThread, MqttPcs
    <3>2. mqtt.node \in NodeIds /\ mqtt.node \in node_map
      BY <2>2 DEF StoreCounter
    <3>3. counter' \in [NodeIds -> Counters]
      BY <2>2, <3>1 DEF StoreCounter
    <3>4. QED BY <2>2, <3>1, <3>2, <3>3 DEF StoreCounter
  <2>3. CASE CopyNode
    <3>1. mqtt' \in MqttThread /\ mqtt'.pc = "publish" /\ mqtt'.node = mqtt.node
      BY <2>3 DEF CopyNode, MqttThread, MqttPcs
    <3>2. QED BY <2>3, <3>1 DEF CopyNode
  <2>4. CASE PublishUpdate
    <3>1. [task |-> mqtt.task, counter |-> mqtt.counter] \in Update
      BY DEF MqttThread, Update
    <3>2. (mqtt' \in MqttThread /\ mqtt'.node \in NodeIds) \/ mqtt' = MqttIdle
      BY <2>4 DEF PublishUpdate, MqttThread, MqttPcs
    <3>3. mqtt' \in MqttThread /\ mqtt'.pc # "register"
      BY <2>4, <3>2 DEF PublishUpdate, MqttThread
    <3>4. view' \in [NodeIds -> Update] /\ undelivered' \subseteq NodeIds
      BY <2>4, <3>1 DEF PublishUpdate
    <3>5. amqp_pub' \in PubStates
      BY <2>4 DEF PublishUpdate, Publish
    <3>6. QED BY <2>4, <3>2, <3>3, <3>4, <3>5 DEF PublishUpdate
  <2>5. CASE MqttReconnects
    BY <2>5 DEF MqttReconnects
  <2>6. QED BY <1>6, <2>1, <2>2, <2>3, <2>4, <2>5 DEF MqttStep
<1>7. CASE MqttConnects \/ BackendDeclares \/ Failure
  <2>1. CASE MqttConnects
    BY <2>1 DEF MqttConnects
  <2>9. CASE BackendDeclares
    BY <2>9 DEF BackendDeclares
  <2>6. CASE MqttLosesConnection
    BY <2>6 DEF MqttLosesConnection
  <2>2. CASE ConsumerLosesConnection
    BY <2>2, <1>a, <1>b DEF ConsumerLosesConnection
  <2>3. CASE PublisherLosesConnection
    BY <2>3 DEF PublisherLosesConnection
  <2>7. CASE BrokerRecreated
    <3>1. amqp_pub' \in PubStates
      BY <2>7 DEF BrokerRecreated
    <3>2. QED BY <2>7, <3>1 DEF BrokerRecreated
  <2>4. ASSUME NEW n \in NodeIds, AnswerLost(n) PROVE TypeInv'
    BY <2>4 DEF AnswerLost
  <2>8. QED BY <1>7, <2>1, <2>2, <2>3, <2>4, <2>6, <2>7, <2>9 DEF Failure
<1>8. CASE UNCHANGED vars
  BY <1>8
<1>9. QED
  BY <1>1, <1>2, <1>3, <1>4, <1>5, <1>6, <1>7, <1>8 DEF Next, Terminated

\* The variables keep their types: no thread runs on with a Node it did not
\* find, and nothing is known of a node before it registers.
THEOREM TypeCorrect == Spec => []TypeOK
<1>1. TypeInv => TypeOK
  BY DEF TypeInv
<1>2. QED BY <1>1, InitTypeInv, NextTypeInv, PTL DEF Spec

\* The invariants below are proved from TypeInv of both ends of a step.
LEMMA TypeInvariant == Spec => []TypeInv
BY InitTypeInv, NextTypeInv, PTL DEF Spec

\* A node that registers has the attributes its new Node object is given.
LEMMA RegisterKeeps ==
  ASSUME TypeInv, Register
  PROVE  /\ UNCHANGED <<task_id, counter, amqp, tasks_map, issued, view,
                        undelivered, overlap>>
         /\ node_map' = node_map \cup {mqtt.node}
         /\ mqtt.node \in NodeIds /\ mqtt' = MqttIdle
<1>1. mqtt.pc = "register" /\ mqtt.node \in NodeIds \ node_map
  BY DEF Register, TypeInv, LocalsOK
<1>2. task_id[mqtt.node] = NoTask /\ counter[mqtt.node] = 0
  BY <1>1 DEF TypeInv, UnknownUntouched
<1>3. task_id' = task_id /\ counter' = counter
  BY <1>1, <1>2 DEF Register, TypeInv, TypeOK
<1>4. QED BY <1>1, <1>3 DEF Register, history

\* What is not a step of the consumer thread changes nothing of the registry,
\* and nothing of a request that the consumer thread is serving.
OutsideStep == \/ MainStep \/ MainAsks \/ Message \/ MqttStep \/ MqttConnects
               \/ BackendDeclares \/ Failure \/ UNCHANGED vars

LEMMA OutsideFrame ==
  ASSUME TypeInv, OutsideStep
  PROVE  /\ UNCHANGED <<task_id, tasks_map, issued, overlap>>
         /\ node_map \subseteq node_map'
         /\ \/ UNCHANGED amqp
            \/ amqp.pc \in {"off", "idle"} /\ amqp'.pc = "connecting"
<1> USE DEF service, network, history, objects, vars
<1>0. AmqpAt("connecting").pc = "connecting"
  BY DEF AmqpAt
<1>1. CASE MainStep
  <2>1. CASE StartConsumer
    BY <1>0, <2>1 DEF StartConsumer, TypeInv, LocalsOK
  <2>2. CASE OpenMqtt \/ LeaveDiscovery \/ OpenPublisher \/ Exit
    BY <2>2 DEF OpenMqtt, LeaveDiscovery, OpenPublisher, Exit
  <2>3. QED BY <1>1, <2>1, <2>2 DEF MainStep
<1>2. CASE MainAsks \/ MqttConnects \/ BackendDeclares \/ UNCHANGED vars
  BY <1>2 DEF MainAsks, MqttConnects, BackendDeclares
<1>3. CASE Message
  BY <1>3 DEF Message, NodeAnswers, NodeAnnounces, OnDiscoverResponse, OnStatus
<1>4. CASE MqttStep
  <2>1. CASE Register
    BY <2>1, RegisterKeeps
  <2>2. CASE StoreCounter \/ CopyNode \/ PublishUpdate \/ MqttReconnects
    BY <2>2 DEF StoreCounter, CopyNode, PublishUpdate, MqttReconnects
  <2>3. QED BY <1>4, <2>1, <2>2 DEF MqttStep
<1>5. CASE Failure
  <2>1. CASE ConsumerLosesConnection
    BY <1>0, <2>1 DEF ConsumerLosesConnection, AmqpIdle
  <2>2. CASE \/ MqttLosesConnection \/ PublisherLosesConnection \/ BrokerRecreated
             \/ \E n \in NodeIds : AnswerLost(n)
    BY <2>2 DEF MqttLosesConnection, PublisherLosesConnection, BrokerRecreated,
                AnswerLost
  <2>3. QED BY <1>5, <2>1, <2>2 DEF Failure
<1>6. QED BY <1>1, <1>2, <1>3, <1>4, <1>5 DEF OutsideStep

\* The steps of the consumer thread that leave the registry alone: where they
\* lead, and the arrays they build.
ReadingStep == \/ NodesStatus \/ ConsumerConnects \/ ListEnds \/ ListRaises
               \/ PublishStatus \/ AmqpReconnects
               \/ \E n \in NodeIds : AskUnknown(n) \/ ListNode(n)
               \/ \E t \in TaskIds : EndTaskRaises(t)

LEMMA ReadingFrame ==
  ASSUME TypeInv, ReadingStep
  PROVE  /\ UNCHANGED <<task_id, counter, tasks_map, node_map, issued, view,
                        undelivered, overlap, mqtt, main, fw_ready>>
         /\ amqp.pc \notin {"start", "end"} /\ amqp'.pc \notin {"start", "end"}
<1> USE DEF service, network, history, objects, vars
<1>1. \A pc : AmqpAt(pc).pc = pc
  BY DEF AmqpAt
<1>2. CASE NodesStatus
  BY <1>2, AmqpLists DEF TypeInv, TypeOK, NodesStatus, AmqpIdle
<1>7. CASE ListEnds \/ \E n \in NodeIds : ListNode(n)
  BY <1>7 DEF TypeInv, TypeOK, ListEnds, ListNode, AmqpThread
<1>3. CASE ConsumerConnects \/ ListRaises \/ AmqpReconnects
  BY <1>1, <1>3 DEF ConsumerConnects, ListRaises, AmqpReconnects
<1>4. CASE PublishStatus
  BY <1>1, <1>4 DEF PublishStatus
<1>5. CASE \/ \E n \in NodeIds : AskUnknown(n)
           \/ \E t \in TaskIds : EndTaskRaises(t)
  BY <1>1, <1>5 DEF AskUnknown, EndTaskRaises, AmqpIdle
<1>6. QED BY <1>2, <1>7, <1>3, <1>4, <1>5 DEF ReadingStep

LEMMA Steps ==
  ASSUME [Next]_vars
  PROVE  \/ OutsideStep \/ ReadingStep \/ FinishStart \/ FinishEnd
         \/ \E n \in NodeIds, t \in TaskIds : StartTask(n, t)
         \/ \E t \in TaskIds : EndTask(t)
BY DEF Next, OutsideStep, ReadingStep, Request, AmqpStep, Terminated

-----------------------------------------------------------------------------
(* Commands and the registry. *)

CommandsInv ==
  /\ CommandsMatchRegistry
  /\ amqp.pc = "end" => task_id[amqp.node] = NoTask

LEMMA NextCommandsInv ==
  ASSUME TypeInv, CommandsInv, [Next]_vars
  PROVE  CommandsInv'
<1> USE DEF CommandsInv, CommandsMatchRegistry, Switching, TypeInv, TypeOK, LocalsOK
<1>1. CASE OutsideStep
  BY <1>1, OutsideFrame
<1>2. CASE ReadingStep
  BY <1>2, ReadingFrame
<1>3. CASE FinishStart
  BY <1>3, AmqpAtType DEF FinishStart, AmqpPcs
<1>4. CASE FinishEnd
  BY <1>4, AmqpAtType DEF FinishEnd, AmqpPcs
<1>5. ASSUME NEW n \in NodeIds, NEW t \in TaskIds, StartTask(n, t)
      PROVE  CommandsInv'
  BY <1>5, AmqpHolds DEF StartTask, AmqpPcs, Handling, AmqpIdle
<1>6. ASSUME NEW t \in TaskIds, EndTask(t) PROVE CommandsInv'
  <2> DEFINE n == tasks_map[t]
  <2>1. /\ n \in NodeIds /\ amqp.pc = "idle"
        /\ task_id' = [task_id EXCEPT ![n] = NoTask]
        /\ amqp' = [AmqpAt("end") EXCEPT !.node = n]
        /\ UNCHANGED issued
    BY <1>6 DEF EndTask, TasksOfKnownNodes, AmqpIdle, history
  <2> HIDE DEF n
  <2>2. amqp'.pc = "end" /\ amqp'.node = n
    BY <2>1, AmqpHolds DEF AmqpPcs, Handling
  <2>3. QED BY <2>1, <2>2
<1>7. QED BY <1>1, <1>2, <1>3, <1>4, <1>5, <1>6, Steps

LEMMA CommandsInvariant == Spec => []CommandsInv
<1>1. Init => CommandsInv
  BY DEF Init, CommandsInv, CommandsMatchRegistry, AmqpAt
<1>2. TypeInv /\ CommandsInv /\ [Next]_vars => CommandsInv'
  BY NextCommandsInv
<1>3. QED BY <1>1, <1>2, TypeInvariant, PTL DEF Spec

\* A node has a task in the service exactly while the last command published
\* for it is tasks/start (start_task_callback, end_task_callback).
THEOREM CommandsMatch == Spec => []CommandsMatchRegistry
<1>1. CommandsInv => CommandsMatchRegistry
  BY DEF CommandsInv
<1>2. QED BY <1>1, CommandsInvariant, PTL

-----------------------------------------------------------------------------
(* The two maps. *)

Inverse(tm, ti) == \A n \in NodeIds, t \in TaskIds : tm[t] = n <=> ti[n] = t

\* While start_task_callback is between its two assignments, the maps agree but
\* for the entry that it is about to write.
RegistryInv ==
  /\ RegistryBijective /\ NoKeyError
  /\ ~overlap /\ amqp.pc = "start"
       => Inverse([tasks_map EXCEPT ![task_id[amqp.node]] = amqp.node], task_id)

LEMMA NextRegistryInv ==
  ASSUME TypeInv, RegistryInv, [Next]_vars
  PROVE  RegistryInv'
<1> USE DEF RegistryInv, RegistryBijective, NoKeyError, Inverse,
            TypeInv, TypeOK, LocalsOK
<1>1. CASE OutsideStep
  BY <1>1, OutsideFrame
<1>2. CASE ReadingStep
  <2>1. amqp'.pc = "KeyError" => overlap
    <3>1. ASSUME NEW t \in TaskIds, EndTaskRaises(t) PROVE overlap
      <4> DEFINE n == tasks_map[t]
      <4>1. n \in NodeIds /\ ~InTasksMap(task_id[n]) /\ amqp.pc = "idle"
        BY <3>1 DEF EndTaskRaises, TasksOfKnownNodes, AmqpIdle
      <4>2. SUFFICES ASSUME ~overlap PROVE FALSE
        OBVIOUS
      <4>3. task_id[n] = t
        BY <4>1, <4>2
      <4>4. QED BY <4>1, <4>3 DEF InTasksMap
    <3>2. CASE NodesStatus \/ ListEnds \/ \E n \in NodeIds : ListNode(n)
      <4>1. CASE NodesStatus
        BY <4>1, AmqpLists DEF NodesStatus
      <4>2. CASE ListEnds \/ \E n \in NodeIds : ListNode(n)
        BY <4>2 DEF ListEnds, ListNode, AmqpThread
      <4>3. QED BY <3>2, <4>1, <4>2
    <3>3. CASE ConsumerConnects \/ ListRaises \/ AmqpReconnects \/ PublishStatus
      BY <3>3 DEF ConsumerConnects, ListRaises, AmqpReconnects, PublishStatus, AmqpAt
    <3>4. CASE \E n \in NodeIds : AskUnknown(n)
      BY <3>4 DEF AskUnknown, service
    <3>5. QED BY <1>2, <3>1, <3>2, <3>3, <3>4 DEF ReadingStep
  <2>2. QED BY <1>2, <2>1, ReadingFrame
<1>3. CASE FinishStart
  <2>1. amqp' = AmqpAt("idle") /\ amqp'.pc = "idle" /\ amqp.pc = "start"
    BY <1>3, AmqpAtType DEF FinishStart, AmqpPcs
  <2>2. QED BY <1>3, <2>1 DEF FinishStart
<1>4. CASE FinishEnd
  <2>1. amqp'.pc = "idle" /\ amqp.pc = "end"
    BY <1>4, AmqpAtType DEF FinishEnd, AmqpPcs
  <2>2. QED BY <1>4, <2>1 DEF FinishEnd
<1>5. ASSUME NEW n \in NodeIds, NEW t \in TaskIds, StartTask(n, t)
      PROVE  RegistryInv'
  <2>1. /\ amqp.pc = "idle" /\ amqp'.pc = "start" /\ amqp'.node = n
        /\ task_id' = [task_id EXCEPT ![n] = t]
        /\ UNCHANGED tasks_map
        /\ overlap' = (overlap \/ Overlapping(n, t))
    BY <1>5, AmqpHolds DEF StartTask, AmqpPcs, Handling, AmqpIdle
  <2>6. task_id'[amqp'.node] = t
    BY <2>1
  <2>7. [tasks_map EXCEPT ![t] = n]
          = [tasks_map' EXCEPT ![task_id'[amqp'.node]] = amqp'.node]
    BY <2>1, <2>6
  <2>2. ASSUME ~overlap, ~Overlapping(n, t)
        PROVE  Inverse([tasks_map EXCEPT ![t] = n], task_id')
    <3>1. \/ task_id[n] = NoTask /\ tasks_map[t] = NoNode
          \/ task_id[n] = t /\ tasks_map[t] = n
      BY <2>2 DEF Overlapping
    <3>2. Inverse(tasks_map, task_id)
      BY <2>1, <2>2
    <3>3. QED BY <2>1, <3>1, <3>2
  <2>3. RegistryBijective' /\ NoKeyError'
    BY <2>1
  <2>4. QED
    <3> HIDE DEF Inverse, RegistryBijective, NoKeyError
    <3>1. QED BY <2>1, <2>2, <2>3, <2>7
<1>6. ASSUME NEW t \in TaskIds, EndTask(t) PROVE RegistryInv'
  <2> DEFINE n == tasks_map[t]
  <2>1. /\ n \in NodeIds /\ amqp.pc = "idle"
        /\ tasks_map' = [tasks_map EXCEPT ![task_id[n]] = NoNode]
        /\ task_id' = [task_id EXCEPT ![n] = NoTask]
        /\ amqp' = [AmqpAt("end") EXCEPT !.node = n]
        /\ UNCHANGED overlap
    BY <1>6 DEF EndTask, TasksOfKnownNodes, AmqpIdle, history
  <2>2. ~overlap => task_id[n] = t
    BY <2>1
  <2> HIDE DEF n
  <2>3. amqp'.pc = "end"
    BY <2>1, AmqpHolds DEF AmqpPcs, Handling
  <2>4. QED BY <2>1, <2>2, <2>3
<1>7. QED BY <1>1, <1>2, <1>3, <1>4, <1>5, <1>6, Steps

LEMMA RegistryInvariant == Spec => []RegistryInv
<1>1. Init => RegistryInv
  BY DEF Init, RegistryInv, RegistryBijective, NoKeyError, AmqpAt
<1>2. TypeInv /\ RegistryInv /\ [Next]_vars => RegistryInv'
  BY NextRegistryInv
<1>3. QED BY <1>1, <1>2, TypeInvariant, PTL DEF Spec

\* A backend that runs one task per node and one node per task finds tasks_map
\* the inverse of the task_id attributes between any two requests.
THEOREM RegistryIsBijective == Spec => []RegistryBijective
<1>1. RegistryInv => RegistryBijective
  BY DEF RegistryInv
<1>2. QED BY <1>1, RegistryInvariant, PTL

\* The pop of end_task_callback never kills the consumer thread of a service
\* whose backend does that.
THEOREM PopFindsItsKey == Spec => []NoKeyError
<1>1. RegistryInv => NoKeyError
  BY DEF RegistryInv
<1>2. QED BY <1>1, RegistryInvariant, PTL

-----------------------------------------------------------------------------
(* The reply to nodesStatus. *)

\* What is known of the array while it is built: no command is published
\* meanwhile, and no node leaves the map.
StatusInv ==
  /\ amqp.pc \in {"listing", "publish"}
       => /\ amqp.listed \subseteq node_map
          /\ \A r \in amqp.res_arr : r.isActive <=> issued[r.nodeId] = "start"
  /\ amqp.pc = "publish"
       => \A n \in NodeIds : issued[n] # "none" => n \in Listed

LEMMA NextStatusInv ==
  ASSUME TypeInv, CommandsInv, StatusInv, [Next]_vars
  PROVE  StatusInv'
<1> USE DEF StatusInv, TypeInv, TypeOK, Listed
<1>1. CASE OutsideStep
  <2>1. UNCHANGED issued /\ node_map \subseteq node_map'
    BY <1>1, OutsideFrame
  <2>2. UNCHANGED amqp \/ amqp'.pc = "connecting"
    BY <1>1, OutsideFrame
  <2>3. QED BY <2>1, <2>2
<1>2. CASE ReadingStep
  <2>1. UNCHANGED <<issued, node_map>>
    BY <1>2, ReadingFrame
  <2>2. CASE NodesStatus
    BY <2>1, <2>2, AmqpLists DEF NodesStatus
  <2>3. ASSUME NEW n \in NodeIds, ListNode(n) PROVE StatusInv'
    <3> DEFINE entry == [nodeId |-> n, isActive |-> task_id[n] # NoTask]
    <3>1. entry.isActive <=> issued[n] = "start"
      BY <2>3 DEF ListNode, CommandsInv, CommandsMatchRegistry, Switching
    <3>2. entry.nodeId = n
      OBVIOUS
    <3>3. /\ amqp.pc = "listing" /\ amqp'.pc = "listing"
          /\ amqp'.listed = amqp.listed
          /\ amqp'.res_arr = amqp.res_arr \cup {entry}
      BY <2>3 DEF ListNode, AmqpThread
    <3> HIDE DEF entry
    <3>4. QED BY <2>1, <3>1, <3>2, <3>3
  <2>4. CASE ListEnds
    <3>1. /\ amqp.pc = "listing" /\ amqp'.pc = "publish"
          /\ amqp'.listed = amqp.listed /\ amqp'.res_arr = amqp.res_arr
          /\ node_map \subseteq Listed
      BY <2>4 DEF ListEnds, AmqpThread
    <3>2. \A n \in NodeIds : issued[n] # "none" => n \in node_map
      BY DEF UnknownUntouched
    <3>3. QED BY <2>1, <3>1, <3>2
  <2>5. CASE \/ ConsumerConnects \/ ListRaises \/ AmqpReconnects \/ PublishStatus
             \/ \E t \in TaskIds : EndTaskRaises(t)
    <3>1. amqp'.pc \notin {"listing", "publish"}
      BY <2>5 DEF ConsumerConnects, ListRaises, AmqpReconnects, PublishStatus,
                  EndTaskRaises, AmqpAt
    <3>2. QED BY <3>1
  <2>6. CASE \E n \in NodeIds : AskUnknown(n)
    BY <2>6 DEF AskUnknown, service, history
  <2>7. QED BY <1>2, <2>2, <2>3, <2>4, <2>5, <2>6 DEF ReadingStep
<1>3. CASE FinishStart \/ FinishEnd
  BY <1>3, AmqpAtType DEF FinishStart, FinishEnd, AmqpPcs
<1>4. ASSUME NEW n \in NodeIds, NEW t \in TaskIds, StartTask(n, t)
      PROVE  StatusInv'
  BY <1>4, AmqpHolds DEF StartTask, AmqpPcs, Handling
<1>5. ASSUME NEW t \in TaskIds, EndTask(t) PROVE StatusInv'
  <2>1. amqp'.pc = "end"
    BY <1>5, AmqpHolds DEF EndTask, TasksOfKnownNodes, AmqpPcs, Handling
  <2>2. QED BY <2>1
<1>6. QED BY <1>1, <1>2, <1>3, <1>4, <1>5, Steps

\* The array published by nodes_status_callback is the one of a single moment,
\* although paho's thread registers nodes while it is built.
THEOREM StatusReplyMatches == Spec => []StatusReplyMatchesCommands
<1>1. Init => StatusInv
  BY DEF Init, StatusInv, AmqpAt
<1>2. TypeInv /\ CommandsInv /\ StatusInv /\ [Next]_vars => StatusInv'
  BY NextStatusInv
<1>3. TypeInv /\ StatusInv => StatusReplyMatchesCommands
  <2> SUFFICES ASSUME TypeInv, StatusInv, amqp.pc = "publish", NEW n \in NodeIds
               PROVE  /\ issued[n] = "start" <=>
                            [nodeId |-> n, isActive |-> TRUE] \in amqp.res_arr
                      /\ issued[n] = "end" =>
                            [nodeId |-> n, isActive |-> FALSE] \in amqp.res_arr
    BY DEF StatusReplyMatchesCommands
  <2>1. \A r \in amqp.res_arr : /\ r = [nodeId |-> r.nodeId, isActive |-> r.isActive]
                                /\ r.isActive \in BOOLEAN
    BY DEF TypeInv, TypeOK, AmqpThread, StatusEntry
  <2>2. \A r \in amqp.res_arr : r.isActive <=> issued[r.nodeId] = "start"
    BY DEF StatusInv
  <2>3. issued[n] # "none" => \E r \in amqp.res_arr : r.nodeId = n
    BY DEF StatusInv, Listed
  <2>4. QED BY <2>1, <2>2, <2>3
<1>4. QED BY <1>1, <1>2, <1>3, TypeInvariant, CommandsInvariant, PTL DEF Spec

-----------------------------------------------------------------------------
(* What the backend was told of a node's counter. *)

Current(n) == [task |-> task_id[n], counter |-> counter[n]]

\* A message about to be published holds what the node has, unless switch_task
\* ran after it was copied; then the counter is zero.
ViewInv ==
  /\ ViewCoherent
  /\ mqtt.pc = "publish" /\ counter[mqtt.node] # 0 /\ ~Switching(mqtt.node)
       => [task |-> mqtt.task, counter |-> mqtt.counter] = Current(mqtt.node)
  /\ mqtt.pc = "reconnect" => mqtt.node \in undelivered

\* The steps that leave the Node objects, the backend's view of them and paho's
\* thread alone, and neither begin nor end a switch_task.
LEMMA ViewFrame ==
  ASSUME TypeInv, ViewInv,
         UNCHANGED <<task_id, counter, view, undelivered, mqtt>>,
         \/ UNCHANGED amqp
         \/ amqp.pc \notin {"start", "end"} /\ amqp'.pc \notin {"start", "end"}
  PROVE  ViewInv'
BY DEF ViewInv, ViewCoherent, Current, Switching, Updating

\* The first half of switch_task: the node now counts as switching.
LEMMA ViewSwitches ==
  ASSUME TypeInv, ViewInv, NEW n \in NodeIds, NEW t,
         task_id' = [task_id EXCEPT ![n] = t],
         amqp.pc \notin {"start", "end"},
         amqp'.pc \in {"start", "end"}, amqp'.node = n,
         UNCHANGED <<counter, view, undelivered, mqtt>>
  PROVE  ViewInv'
BY DEF ViewInv, ViewCoherent, Current, Switching, Updating, TypeInv, TypeOK

\* The second half: the counter is zero.
LEMMA ViewSwitched ==
  ASSUME TypeInv, ViewInv, amqp.pc \in {"start", "end"}, amqp'.pc = "idle",
         counter' = [counter EXCEPT ![amqp.node] = 0],
         UNCHANGED <<task_id, view, undelivered, mqtt>>
  PROVE  ViewInv'
BY DEF ViewInv, ViewCoherent, Current, Switching, Updating, TypeInv, TypeOK, LocalsOK

LEMMA NextViewInv ==
  ASSUME TypeInv, ViewInv, [Next]_vars
  PROVE  ViewInv'
<1>1. CASE OutsideStep
  <2> USE DEF service, network, history, objects, vars
  <2>a. \/ UNCHANGED amqp
        \/ amqp.pc \notin {"start", "end"} /\ amqp'.pc \notin {"start", "end"}
    BY <1>1, OutsideFrame
  <2>1. CASE MainStep \/ MainAsks \/ MqttConnects \/ BackendDeclares \/ UNCHANGED vars
    <3>1. UNCHANGED <<task_id, counter, view, undelivered, mqtt>>
      BY <2>1 DEF MainStep, OpenMqtt, LeaveDiscovery, OpenPublisher, StartConsumer,
                  Exit, MainAsks, MqttConnects, BackendDeclares
    <3>2. QED BY <2>a, <3>1, ViewFrame
  <2>2. CASE Failure
    <3>1. UNCHANGED <<task_id, counter, view, undelivered, mqtt>>
      BY <2>2 DEF Failure, ConsumerLosesConnection, MqttLosesConnection,
                  PublisherLosesConnection, BrokerRecreated, AnswerLost
    <3>2. QED BY <2>a, <3>1, ViewFrame
  <2>3. CASE Message
    <3>1. /\ UNCHANGED <<task_id, counter, view, undelivered, amqp>>
          /\ mqtt.pc = "idle"
          /\ UNCHANGED mqtt \/ mqtt'.pc \in {"register", "store"}
      BY <2>3 DEF Message, NodeAnswers, NodeAnnounces, OnDiscoverResponse, OnStatus,
                  MqttIdle, MqttReady
    <3>2. QED BY <3>1 DEF ViewInv, ViewCoherent, Current, Switching, Updating
  <2>4. CASE MqttStep
    <3> USE DEF TypeInv, TypeOK, LocalsOK
    <3>1. CASE Register
      <4>1. counter[mqtt.node] = 0 /\ mqtt.node \in NodeIds
        BY <3>1 DEF Register, UnknownUntouched
      <4>2. /\ UNCHANGED <<task_id, counter, view, undelivered, amqp>>
            /\ mqtt'.pc = "idle"
        BY <3>1, RegisterKeeps, MqttIdleType
      <4>3. QED BY <4>1, <4>2
                DEF ViewInv, ViewCoherent, Current, Switching, Updating
    <3>2. CASE StoreCounter
      <4>1. /\ mqtt.pc = "store" /\ mqtt'.pc = "copy" /\ mqtt'.node = mqtt.node
            /\ counter' = [counter EXCEPT ![mqtt.node] = mqtt.counter]
            /\ UNCHANGED <<task_id, view, undelivered, amqp>>
        BY <3>2 DEF StoreCounter, MqttThread
      <4>2. QED BY <4>1 DEF ViewInv, ViewCoherent, Current, Switching, Updating
    <3>3. CASE CopyNode
      <4>1. /\ mqtt.pc = "copy" /\ mqtt'.pc = "publish" /\ mqtt'.node = mqtt.node
            /\ mqtt'.task = task_id[mqtt.node] /\ mqtt'.counter = counter[mqtt.node]
            /\ UNCHANGED <<task_id, counter, view, undelivered, amqp>>
        BY <3>3 DEF CopyNode, MqttThread
      <4>2. QED BY <4>1 DEF ViewInv, ViewCoherent, Current, Switching, Updating
    <3>4. CASE PublishUpdate
      <4>1. /\ mqtt.pc = "publish" /\ mqtt.node \in NodeIds
            /\ UNCHANGED <<task_id, counter, amqp>>
        BY <3>4 DEF PublishUpdate
      <4>2. CASE /\ undelivered' = undelivered \cup {mqtt.node} /\ UNCHANGED view
                 /\ mqtt' \in {MqttIdle, [mqtt EXCEPT !.pc = "reconnect"]}
        <5>1. \/ mqtt'.pc = "idle"
              \/ mqtt'.pc = "reconnect" /\ mqtt'.node = mqtt.node
          BY <4>2, MqttIdleType DEF MqttThread
        <5>2. QED BY <4>1, <4>2, <5>1
                  DEF ViewInv, ViewCoherent, Current, Switching, Updating
      <4>3. CASE /\ view' = [view EXCEPT ![mqtt.node] =
                               [task |-> mqtt.task, counter |-> mqtt.counter]]
                 /\ undelivered' = undelivered \ {mqtt.node}
                 /\ mqtt' = MqttIdle
        <5>1. mqtt'.pc = "idle"
          BY <4>3, MqttIdleType
        <5>2. QED BY <4>1, <4>3, <5>1
                  DEF ViewInv, ViewCoherent, Current, Switching, Updating
      <4>4. QED BY <3>4, <4>2, <4>3 DEF PublishUpdate
    <3>5. CASE MqttReconnects
      <4>1. /\ mqtt.pc = "reconnect" /\ mqtt'.pc = "idle"
            /\ UNCHANGED <<task_id, counter, view, undelivered, amqp>>
        BY <3>5, MqttIdleType DEF MqttReconnects
      <4>2. QED BY <4>1 DEF ViewInv, ViewCoherent, Current, Switching, Updating
    <3>6. QED BY <2>4, <3>1, <3>2, <3>3, <3>4, <3>5 DEF MqttStep
  <2>5. QED BY <1>1, <2>1, <2>2, <2>3, <2>4 DEF OutsideStep
<1>2. CASE ReadingStep
  BY <1>2, ReadingFrame, ViewFrame
<1>3. CASE FinishStart
  <2>1. amqp'.pc = "idle"
    BY <1>3, AmqpAtType DEF FinishStart, AmqpPcs
  <2>2. QED BY <1>3, <2>1, ViewSwitched DEF FinishStart
<1>4. CASE FinishEnd
  <2>1. amqp'.pc = "idle"
    BY <1>4, AmqpAtType DEF FinishEnd, AmqpPcs
  <2>2. QED BY <1>4, <2>1, ViewSwitched DEF FinishEnd
<1>5. ASSUME NEW n \in NodeIds, NEW t \in TaskIds, StartTask(n, t)
      PROVE  ViewInv'
  <2>1. amqp'.pc = "start" /\ amqp'.node = n
    BY <1>5, AmqpHolds DEF StartTask, AmqpPcs, Handling
  <2>2. QED BY <1>5, <2>1, ViewSwitches DEF StartTask, AmqpIdle
<1>6. ASSUME NEW t \in TaskIds, EndTask(t) PROVE ViewInv'
  <2> DEFINE n == tasks_map[t]
  <2>1. /\ n \in NodeIds /\ amqp.pc = "idle"
        /\ task_id' = [task_id EXCEPT ![n] = NoTask]
        /\ amqp' = [AmqpAt("end") EXCEPT !.node = n]
        /\ UNCHANGED <<counter, view, undelivered, mqtt>>
    BY <1>6 DEF EndTask, TypeInv, TasksOfKnownNodes, TypeOK, AmqpIdle, history
  <2> HIDE DEF n
  <2>2. amqp'.pc = "end" /\ amqp'.node = n
    BY <2>1, AmqpHolds DEF AmqpPcs, Handling
  <2>3. QED BY <2>1, <2>2, ViewSwitches
<1>7. QED BY <1>1, <1>2, <1>3, <1>4, <1>5, <1>6, Steps

\* The stored counter, which suppresses repeated reports, never hides from the
\* backend what it was not told (switch_task, mqtt_on_message).
THEOREM ViewIsCoherent == Spec => []ViewCoherent
<1>1. Init => ViewInv
  BY MqttIdleType DEF Init, ViewInv, ViewCoherent
<1>2. TypeInv /\ ViewInv /\ [Next]_vars => ViewInv'
  BY NextViewInv
<1>3. ViewInv => ViewCoherent
  BY DEF ViewInv
<1>4. QED BY <1>1, <1>2, <1>3, TypeInvariant, PTL DEF Spec

-----------------------------------------------------------------------------
(* Start-up. *)

ReadyInv ==
  /\ main \in {"starting", "joining", "exited"} => amqp_pub # "undefined"
  /\ main \notin {"dialing", "discovering"} => fw_ready
  /\ fw_ready => node_map # {} \/ mqtt.pc = "register"

LEMMA NextReadyInv ==
  ASSUME TypeInv, ReadyInv, [Next]_vars
  PROVE  ReadyInv'
<1> USE DEF ReadyInv, service, network, history, objects, vars
<1>1. CASE MainStep
  BY <1>1 DEF MainStep, OpenMqtt, LeaveDiscovery, OpenPublisher, StartConsumer, Exit
<1>2. CASE MainAsks \/ MqttConnects \/ BackendDeclares \/ UNCHANGED vars
  BY <1>2 DEF MainAsks, MqttConnects, BackendDeclares
<1>3. CASE Failure
  BY <1>3 DEF Failure, ConsumerLosesConnection, MqttLosesConnection,
              PublisherLosesConnection, BrokerRecreated, AnswerLost
<1>4. CASE Message
  <2>1. ASSUME NEW n \in NodeIds, OnDiscoverResponse(n) PROVE ReadyInv'
    <3>1. [MqttIdle EXCEPT !.pc = "register", !.node = n].pc = "register"
      BY DEF MqttIdle
    <3>2. UNCHANGED <<main, amqp_pub, node_map>>
      BY <2>1 DEF OnDiscoverResponse
    <3>3. CASE UNCHANGED <<fw_ready, mqtt>>
      BY <3>2, <3>3
    <3>4. CASE fw_ready' = TRUE /\ mqtt'.pc = "register"
      BY <3>2, <3>4
    <3>5. QED BY <2>1, <3>1, <3>3, <3>4 DEF OnDiscoverResponse
  <2>2. ASSUME NEW n \in NodeIds, NEW c \in Counters, OnStatus(n, c)
        PROVE  ReadyInv'
    BY <2>2 DEF OnStatus
  <2>3. QED BY <1>4, <2>1, <2>2 DEF Message, NodeAnswers, NodeAnnounces
<1>5. CASE MqttStep
  <2>1. CASE Register
    BY <2>1 DEF Register
  <2>2. CASE StoreCounter \/ CopyNode \/ PublishUpdate \/ MqttReconnects
    BY <2>2 DEF StoreCounter, CopyNode, PublishUpdate, MqttReconnects, Publish
  <2>3. QED BY <1>5, <2>1, <2>2 DEF MqttStep
<1>6. CASE ReadingStep
  <2>1. UNCHANGED <<main, fw_ready, node_map, mqtt>>
    BY <1>6, ReadingFrame
  <2>2. amqp_pub # "undefined" => amqp_pub' # "undefined"
    BY <1>6 DEF ReadingStep, NodesStatus, ConsumerConnects, ListEnds, ListRaises,
                PublishStatus, Publish, AmqpReconnects, AskUnknown, ListNode,
                EndTaskRaises
  <2>3. QED BY <2>1, <2>2
<1>7. CASE \/ FinishStart \/ FinishEnd
           \/ \E n \in NodeIds, t \in TaskIds : StartTask(n, t)
           \/ \E t \in TaskIds : EndTask(t)
  BY <1>7 DEF FinishStart, FinishEnd, StartTask, EndTask
<1>8. QED
  BY <1>1, <1>2, <1>3, <1>4, <1>5, <1>6, <1>7, Steps DEF OutsideStep

\* Requests are served only once a node has answered and with the publisher in
\* place (receiver.py:125-135).
THEOREM ServesWhenReady == Spec => []ReadyBeforeServing
<1>1. Init => ReadyInv
  BY DEF Init, ReadyInv
<1>2. TypeInv /\ ReadyInv /\ [Next]_vars => ReadyInv'
  BY NextReadyInv
<1>3. TypeInv /\ ReadyInv => ReadyBeforeServing
  BY DEF TypeInv, TypeOK, MainPcs, LocalsOK, ReadyInv, ReadyBeforeServing
<1>4. QED BY <1>1, <1>2, <1>3, TypeInvariant, PTL DEF Spec

=============================================================================
