------------------------ MODULE BookedServiceProofs ------------------------
(***************************************************************************)
(* SensorsService under a booking backend implements the safety part of    *)
(* TaskBoard, for every set of nodes, tasks and counters: initial states   *)
(* map to initial states, and every step to a step or to a stutter.        *)
(***************************************************************************)
EXTENDS BookedService, SensorsServiceProofs

USE ServiceAssumption DEF ServiceAssumption, Board!vars

LEMMA InitImplements == Init => Board!Init
BY DEF Init, AmqpAt, MqttIdle, Untold, UpdateInFlight, Board!Init, Board!NoUpdate

-----------------------------------------------------------------------------
(* The consumer thread. *)

\* Only the two halves of start_task_callback and end_task_callback show.
LEMMA UntoldOutside ==
  ASSUME TypeInv, OutsideStep
  PROVE  Untold' = Untold
BY OutsideFrame DEF Untold

LEMMA ReadingStutters ==
  ASSUME TypeInv, ReadingStep
  PROVE  UNCHANGED Board!vars
BY ReadingFrame DEF Untold, UpdateInFlight

LEMMA StartAssigns ==
  ASSUME TypeInv, RegistryInv, ~overlap', NEW n \in NodeIds, NEW t \in TaskIds,
         StartTask(n, t)
  PROVE  Board!Assign(n, t)
<1> USE DEF TypeInv, TypeOK
<1>1. /\ n \in node_map /\ amqp.pc = "idle" /\ ~overlap /\ ~Overlapping(n, t)
      /\ task_id' = [task_id EXCEPT ![n] = t]
      /\ amqp' = [AmqpAt("start") EXCEPT !.node = n]
      /\ UNCHANGED <<node_map, counter, mqtt, issued, view>>
  BY DEF StartTask, AmqpIdle
<1>2. amqp'.pc = "start" /\ amqp'.node = n
  BY <1>1, AmqpHolds DEF AmqpPcs, Handling
<1>3. \A m \in NodeIds : tasks_map[t] = m <=> task_id[m] = t
  BY <1>1 DEF RegistryInv, RegistryBijective
<1>4. task_id[n] \in {NoTask, t} /\ \A m \in NodeIds : task_id[m] = t => m = n
  BY <1>1, <1>3 DEF Overlapping
<1>5. Untold = NoNode /\ Untold' = n /\ UpdateInFlight' = UpdateInFlight
  BY <1>1, <1>2 DEF Untold, UpdateInFlight
<1>6. QED BY <1>1, <1>4, <1>5 DEF Board!Assign

LEMMA EndReleases ==
  ASSUME TypeInv, NEW t \in TaskIds, EndTask(t)
  PROVE  tasks_map[t] \in NodeIds /\ Board!Release(tasks_map[t])
<1> DEFINE n == tasks_map[t]
<1>1. /\ n \in NodeIds /\ task_id[n] \in TaskIds
      /\ amqp.pc = "idle"
      /\ task_id' = [task_id EXCEPT ![n] = NoTask]
      /\ amqp' = [AmqpAt("end") EXCEPT !.node = n]
      /\ UNCHANGED <<node_map, counter, mqtt, issued, view>>
  BY DEF EndTask, InTasksMap, AmqpIdle, TypeInv, TypeOK, TasksOfKnownNodes, history
<1> HIDE DEF n
<1>2. amqp'.pc = "end" /\ amqp'.node = n
  BY <1>1, AmqpHolds DEF AmqpPcs, Handling
<1>3. Untold = NoNode /\ Untold' = n /\ UpdateInFlight' = UpdateInFlight
  BY <1>1, <1>2 DEF Untold, UpdateInFlight
<1>4. Board!Release(n)
  BY <1>1, <1>3 DEF Board!Release
<1>5. QED BY <1>1, <1>4 DEF n

LEMMA FinishTells ==
  ASSUME TypeInv, CommandsInv, FinishStart \/ FinishEnd
  PROVE  Board!Tell
<1> USE DEF TypeInv, TypeOK, LocalsOK
<1> DEFINE command == IF amqp.pc = "start" THEN "start" ELSE "end"
<1>1. /\ amqp.pc \in {"start", "end"}
      /\ amqp' = AmqpAt("idle")
      /\ issued' = [issued EXCEPT ![amqp.node] = command]
      /\ counter' = [counter EXCEPT ![amqp.node] = 0]
      /\ UNCHANGED <<node_map, task_id, mqtt, view>>
  BY DEF FinishStart, FinishEnd
<1>2. amqp'.pc = "idle"
  BY <1>1, AmqpAtType DEF AmqpPcs
<1>3. /\ amqp.node \in NodeIds
      /\ command = IF task_id[amqp.node] = NoTask THEN "end" ELSE "start"
  BY <1>1 DEF CommandsInv
<1>4. Untold = amqp.node /\ Untold' = NoNode /\ UpdateInFlight' = UpdateInFlight
  BY <1>1, <1>2 DEF Untold, UpdateInFlight
<1>5. QED BY <1>1, <1>3, <1>4 DEF Board!Tell

-----------------------------------------------------------------------------
(* Paho's thread: what is left is to see where its copy comes from and goes. *)

LEMMA RegisterDiscovers ==
  ASSUME TypeInv, Register
  PROVE  mqtt.node \in NodeIds /\ Board!Discover(mqtt.node)
<1>1. /\ mqtt.pc = "register" /\ mqtt.node \in NodeIds \ node_map
      /\ mqtt'.pc = "idle"
  BY MqttIdleType DEF Register, TypeInv, LocalsOK
<1>2. UpdateInFlight' = UpdateInFlight
  BY <1>1 DEF UpdateInFlight
<1>3. UNCHANGED <<task_id, counter, Untold, issued, view>> /\ node_map' = node_map \cup {mqtt.node}
  BY RegisterKeeps DEF Untold
<1>4. QED BY <1>1, <1>2, <1>3 DEF Board!Discover

LEMMA StoreReports ==
  ASSUME TypeInv, StoreCounter
  PROVE  \E n \in NodeIds, c \in Counters : Board!Report(n, c)
<1>1. /\ mqtt.pc = "store" /\ mqtt.node \in NodeIds /\ mqtt.node \in node_map
      /\ mqtt \in MqttThread
      /\ counter' = [counter EXCEPT ![mqtt.node] = mqtt.counter]
      /\ mqtt' = [mqtt EXCEPT !.pc = "copy"]
      /\ UNCHANGED <<node_map, task_id, amqp, issued, view>>
  BY DEF StoreCounter, TypeInv, TypeOK, LocalsOK, history
<1>2. mqtt.counter \in Counters /\ mqtt'.pc = "copy"
  BY <1>1 DEF MqttThread
<1>3. /\ UpdateInFlight = [node |-> NoNode] /\ UpdateInFlight' = [node |-> NoNode]
      /\ Untold' = Untold
  BY <1>1, <1>2 DEF UpdateInFlight, Untold
<1>4. Board!Report(mqtt.node, mqtt.counter)
  BY <1>1, <1>3 DEF Board!Report, Board!NoUpdate
<1>5. QED BY <1>1, <1>2, <1>4

LEMMA CopyObserves ==
  ASSUME TypeInv, CopyNode
  PROVE  mqtt.node \in NodeIds /\ Board!Observe(mqtt.node)
<1> DEFINE n == mqtt.node
<1>1. /\ mqtt.pc = "copy" /\ n \in NodeIds /\ n \in node_map
      /\ mqtt' = [mqtt EXCEPT !.pc = "publish", !.task = task_id[n],
                              !.counter = counter[n]]
      /\ UNCHANGED <<node_map, task_id, counter, amqp, issued, view>>
  BY DEF CopyNode, TypeInv, TypeOK, LocalsOK, objects, history
<1>2. mqtt \in MqttThread
  BY DEF TypeInv, TypeOK
<1>3. /\ mqtt'.pc = "publish" /\ mqtt'.node = n
      /\ mqtt'.task = task_id[n] /\ mqtt'.counter = counter[n]
  BY <1>1, <1>2 DEF MqttThread
<1>4. /\ UpdateInFlight = [node |-> NoNode]
      /\ UpdateInFlight' = [node |-> n, task |-> task_id[n], counter |-> counter[n]]
      /\ Untold' = Untold
  BY <1>1, <1>3 DEF UpdateInFlight, Untold
<1>5. Board!Observe(n)
  BY <1>1, <1>4 DEF Board!Observe, Board!NoUpdate
<1>6. QED BY <1>1, <1>5

LEMMA PublishDelivers ==
  ASSUME TypeInv, PublishUpdate
  PROVE  Board!Deliver \/ Board!Lose
<1>1. /\ mqtt.pc = "publish" /\ mqtt.node \in NodeIds /\ mqtt \in MqttThread
      /\ \/ view' = [view EXCEPT ![mqtt.node] =
                       [task |-> mqtt.task, counter |-> mqtt.counter]]
         \/ UNCHANGED view
      /\ UNCHANGED <<node_map, task_id, counter, amqp, issued>>
  BY DEF PublishUpdate, TypeInv, TypeOK, LocalsOK, objects
<1>2. mqtt'.pc # "publish"
  BY <1>1, MqttIdleType DEF PublishUpdate, MqttThread
<1>3. /\ UpdateInFlight
           = [node |-> mqtt.node, task |-> mqtt.task, counter |-> mqtt.counter]
      /\ UpdateInFlight' = [node |-> NoNode]
      /\ Untold' = Untold
  BY <1>1, <1>2 DEF UpdateInFlight, Untold
<1>4. UpdateInFlight.node = mqtt.node /\ mqtt.node # NoNode
  BY <1>1, <1>3
<1>5. UpdateInFlight # Board!NoUpdate
  BY <1>4 DEF Board!NoUpdate
<1>6. QED BY <1>1, <1>3, <1>5 DEF Board!Deliver, Board!Lose, Board!NoUpdate

\* Every other step outside the consumer thread.
QuietStep == \/ MainStep \/ MainAsks \/ Message \/ MqttReconnects
             \/ MqttConnects \/ BackendDeclares \/ Failure \/ UNCHANGED vars

LEMMA QuietStutters ==
  ASSUME TypeInv, QuietStep
  PROVE  UNCHANGED <<node_map, task_id, counter, issued, view, UpdateInFlight>>
<1> USE DEF service, network, history, objects, vars, UpdateInFlight
<1>1. CASE MainStep
  BY <1>1 DEF MainStep, OpenMqtt, LeaveDiscovery, OpenPublisher, StartConsumer, Exit
<1>2. CASE MainAsks \/ MqttConnects \/ BackendDeclares \/ UNCHANGED vars
  BY <1>2 DEF MainAsks, MqttConnects, BackendDeclares
<1>3. CASE Message
  <2>1. mqtt.pc = "idle" /\ mqtt \in MqttThread
    BY <1>3 DEF Message, NodeAnswers, NodeAnnounces, OnDiscoverResponse, OnStatus,
                MqttReady, TypeInv, TypeOK
  <2>2. mqtt'.pc # "publish"
    BY <1>3, <2>1 DEF Message, NodeAnswers, NodeAnnounces, OnDiscoverResponse,
                      OnStatus, MqttIdle
  <2>3. UNCHANGED <<node_map, task_id, counter, issued, view>>
    BY <1>3 DEF Message, NodeAnswers, NodeAnnounces, OnDiscoverResponse, OnStatus
  <2>4. QED BY <2>1, <2>2, <2>3
<1>4. CASE MqttReconnects
  BY <1>4, MqttIdleType DEF MqttReconnects, TypeInv, TypeOK, MqttThread
<1>5. CASE Failure
  BY <1>5 DEF Failure, ConsumerLosesConnection, MqttLosesConnection,
              PublisherLosesConnection, BrokerRecreated, AnswerLost
<1>6. QED BY <1>1, <1>2, <1>3, <1>4, <1>5 DEF QuietStep

LEMMA OutsideImplements ==
  ASSUME TypeInv, OutsideStep
  PROVE  [Board!Next]_(Board!vars)
<1>1. CASE Register
  BY <1>1, RegisterDiscovers DEF Board!Next
<1>2. CASE CopyNode
  BY <1>2, CopyObserves DEF Board!Next
<1>3. CASE PublishUpdate
  BY <1>3, PublishDelivers DEF Board!Next
<1>4. CASE QuietStep
  BY <1>4, QuietStutters, UntoldOutside
<1>5. CASE StoreCounter
  BY <1>5, StoreReports DEF Board!Next
<1>6. QED BY <1>1, <1>2, <1>3, <1>4, <1>5 DEF OutsideStep, QuietStep, MqttStep

-----------------------------------------------------------------------------
LEMMA NextImplements ==
  ASSUME TypeInv, CommandsInv, RegistryInv, ~overlap, [BookingNext]_vars
  PROVE  [Board!Next]_(Board!vars)
<1>0. [Next]_vars /\ ~overlap'
  BY DEF BookingNext, vars, history
<1>1. CASE OutsideStep
  BY <1>1, OutsideImplements
<1>2. CASE ReadingStep
  BY <1>2, ReadingStutters
<1>3. CASE FinishStart \/ FinishEnd
  BY <1>3, FinishTells DEF Board!Next
<1>4. ASSUME NEW n \in NodeIds, NEW t \in TaskIds, StartTask(n, t)
      PROVE  Board!Next
  BY <1>0, <1>4, StartAssigns DEF Board!Next
<1>5. ASSUME NEW t \in TaskIds, EndTask(t)
      PROVE  Board!Next
  BY <1>5, EndReleases DEF Board!Next
<1>6. QED BY <1>0, <1>1, <1>2, <1>3, <1>4, <1>5, Steps

\* The handlers of receiver.py keep the promises of TaskBoard to a backend that
\* books each task on one node and each node for one task.
THEOREM ServiceImplementsTaskBoard == BookingSpec => BoardSafety
<1>1. BookingSpec => Spec
  <2>1. [BookingNext]_vars => [Next]_vars
    BY DEF BookingNext
  <2>2. QED BY <2>1, PTL DEF BookingSpec, Spec
<1>2. BookingSpec => []~overlap
  <2>1. Init => ~overlap
    BY DEF Init
  <2>2. ~overlap /\ [BookingNext]_vars => ~overlap'
    BY DEF BookingNext, vars, history
  <2>3. QED BY <2>1, <2>2, PTL DEF BookingSpec
<1>3. TypeInv /\ CommandsInv /\ RegistryInv /\ ~overlap /\ [BookingNext]_vars
        => [Board!Next]_(Board!vars)
  BY NextImplements
<1>4. QED
  BY <1>1, <1>2, <1>3, InitImplements, TypeInvariant, CommandsInvariant,
     RegistryInvariant, PTL DEF BookingSpec, BoardSafety, Board!Safety

=============================================================================
