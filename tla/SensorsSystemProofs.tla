------------------------ MODULE SensorsSystemProofs ------------------------
(***************************************************************************)
(* What the three programs keep up between them, for any number of         *)
(* messages in flight and any number of faults.                            *)
(***************************************************************************)
EXTENDS SensorsSystem, SequenceTheorems, TLAPS

USE SystemAssumption DEF SystemAssumption

Starting == main \in {"dialing", "discovering", "opening", "starting"}
Halfway == amqp.pc \in {"start", "end"}

\* The registry knows of one node and one task, in one of four states: the
\* node has the task in both maps, in none, or is between the halves of a
\* start.  An unregistered node is not part of a request, so a registration
\* finds no task to forget.
RegistryInv ==
  /\ overlap = FALSE
  /\ task_id \in [NodeIds -> {NoTask, Task}]
  /\ tasks_map \in [TaskIds -> {NoNode, Node}]
  /\ node_map \in SUBSET {Node}
  /\ amqp.pc \in {"off", "connecting", "idle", "start", "end"}
  /\ Starting => amqp.pc = "off"
  /\ Halfway => amqp.node = Node
  /\ mqtt.pc \in {"idle", "register"}
  /\ mqtt.pc = "register" => mqtt.node = Node /\ node_map = {}
  /\ node_map = {} => /\ task_id[Node] = NoTask
                      /\ tasks_map[Task] = NoNode
                      /\ ~Halfway
  /\ amqp.pc = "start" => task_id[Node] = Task
  /\ amqp.pc = "end" => task_id[Node] = NoTask
  /\ amqp.pc # "start" => (tasks_map[Task] = Node <=> task_id[Node] = Task)

\* What the node will run once it has seen the commands that are under way.
WillRun == IF commands = <<>> THEN do_run ELSE commands[Len(commands)] = "start"

CommandInv ==
  /\ commands \in Seq({"start", "end"})
  /\ do_run \in BOOLEAN
  /\ lost \in BOOLEAN
  /\ ~lost /\ ~Halfway => (WillRun <=> task_id[Node] # NoTask)

SystemInv == RegistryInv /\ CommandInv

registry == <<overlap, task_id, tasks_map, node_map, amqp, mqtt>>

LEMMA AmqpAtPc == \A pc : Service!AmqpAt(pc).pc = pc
BY DEF Service!AmqpAt

LEMMA AmqpAtNode ==
  \A pc, n : LET a == [Service!AmqpAt(pc) EXCEPT !.node = n]
             IN  a.pc = pc /\ a.node = n
BY DEF Service!AmqpAt

LEMMA MqttIdlePc == Service!MqttIdle.pc = "idle"
BY DEF Service!MqttIdle

LEMMA MqttRegisters ==
  \A n : LET m == [Service!MqttIdle EXCEPT !.pc = "register", !.node = n]
         IN  m.pc = "register" /\ m.node = n
BY DEF Service!MqttIdle

LEMMA RegistryFrame ==
  ASSUME RegistryInv, UNCHANGED registry, Starting' => Starting
  PROVE  RegistryInv'
BY DEF RegistryInv, registry, Halfway

LEMMA CommandFrame ==
  ASSUME CommandInv, UNCHANGED <<commands, do_run, lost, amqp, task_id>>
  PROVE  CommandInv'
BY DEF CommandInv, WillRun, Halfway

LEMMA InitSystemInv == Init => SystemInv
<1> SUFFICES ASSUME Init PROVE SystemInv
  OBVIOUS
<1>1. /\ overlap = FALSE /\ node_map = {}
      /\ task_id = [n \in NodeIds |-> NoTask]
      /\ tasks_map = [t \in TaskIds |-> NoNode]
      /\ amqp = Service!AmqpAt("off") /\ mqtt = Service!MqttIdle
  BY DEF Init, Service!Init
<1>2. amqp.pc = "off" /\ mqtt.pc = "idle"
  BY <1>1, AmqpAtPc, MqttIdlePc
<1>3. RegistryInv
  BY <1>1, <1>2 DEF RegistryInv, Halfway
<1>4. CommandInv
  <2>1. commands = <<>> /\ do_run = FALSE /\ lost = FALSE /\ task_id[Node] = NoTask
    BY <1>1 DEF Init
  <2>2. ~WillRun
    BY <2>1 DEF WillRun
  <2>3. commands \in Seq({"start", "end"})
    BY <2>1
  <2>4. QED BY <2>1, <2>2, <2>3 DEF CommandInv
<1>5. QED BY <1>3, <1>4 DEF SystemInv

-----------------------------------------------------------------------------
(* Steps of the server. *)

\* Starting up, and a connection that comes or goes, is between two requests.
LEMMA AmqpMoves ==
  ASSUME SystemInv, ~Halfway,
         NEW pc \in {"off", "connecting", "idle"}, amqp' = Service!AmqpAt(pc),
         UNCHANGED <<overlap, task_id, tasks_map, node_map, mqtt>>,
         UNCHANGED <<commands, do_run, lost>>,
         ~Starting'
  PROVE  SystemInv'
<1>1. amqp'.pc = pc /\ ~Halfway'
  BY AmqpAtPc DEF Halfway
<1>2. RegistryInv'
  BY <1>1 DEF SystemInv, RegistryInv, Halfway
<1>3. CommandInv'
  BY <1>1 DEF SystemInv, CommandInv, WillRun
<1>4. QED BY <1>2, <1>3 DEF SystemInv

LEMMA RegisterInv ==
  ASSUME SystemInv, Service!Register, UNCHANGED <<commands, do_run, lost>>
  PROVE  SystemInv'
<1> USE DEF SystemInv
<1>1. /\ mqtt.pc = "register" /\ mqtt.node = Node /\ node_map = {} /\ ~Halfway
      /\ node_map' = node_map \cup {mqtt.node}
      /\ task_id' = [task_id EXCEPT ![mqtt.node] = NoTask]
      /\ mqtt' = Service!MqttIdle
      /\ UNCHANGED <<main, overlap, tasks_map, amqp>>
  BY DEF Service!Register, RegistryInv, Service!history
<1>2. task_id' = task_id /\ node_map' = {Node} /\ mqtt'.pc = "idle"
  BY <1>1, MqttIdlePc DEF RegistryInv
<1>3. RegistryInv'
  BY <1>1, <1>2 DEF RegistryInv, Halfway, Starting
<1>4. QED BY <1>1, <1>2, <1>3, CommandFrame

LEMMA ServiceStepInv ==
  ASSUME SystemInv, ServiceStep
  PROVE  SystemInv'
<1> USE DEF SystemInv
<1>1. UNCHANGED <<commands, do_run, lost>>
  BY DEF ServiceStep, node, bus
<1>2. CASE Service!OpenMqtt \/ Service!LeaveDiscovery \/ Service!OpenPublisher
             \/ Service!MainAsks \/ Service!MqttConnects
  <2>1. /\ UNCHANGED <<overlap, task_id, tasks_map, node_map, amqp, mqtt>>
        /\ Starting' => Starting
    BY <1>2 DEF Starting, Service!OpenMqtt, Service!LeaveDiscovery,
         Service!OpenPublisher, Service!MainAsks, Service!MqttConnects,
         Service!service, Service!objects, Service!history
  <2>2. QED BY <1>1, <2>1, RegistryFrame, CommandFrame DEF registry
<1>3. CASE Service!StartConsumer
  <2>1. /\ ~Halfway /\ ~Starting' /\ amqp' = Service!AmqpAt("connecting")
        /\ UNCHANGED <<overlap, task_id, tasks_map, node_map, mqtt>>
    BY <1>3
       DEF RegistryInv, Starting, Halfway, Service!StartConsumer, Service!objects,
           Service!history
  <2>2. QED BY <1>1, <2>1, AmqpMoves
<1>4. CASE Service!ConsumerConnects
  <2>1. /\ ~Halfway /\ ~Starting' /\ amqp' = Service!AmqpAt("idle")
        /\ UNCHANGED <<overlap, task_id, tasks_map, node_map, mqtt>>
    BY <1>4
       DEF RegistryInv, Starting, Halfway, Service!ConsumerConnects,
           Service!objects, Service!history
  <2>2. QED BY <1>1, <2>1, AmqpMoves
<1>5. CASE Service!Exit
  BY <1>5 DEF Service!Exit, Service!Dead, RegistryInv
<1>6. CASE Service!Register
  BY <1>1, <1>6, RegisterInv
<1>7. QED BY <1>2, <1>3, <1>4, <1>5, <1>6 DEF ServiceStep, Service!MainStep

-----------------------------------------------------------------------------
(* Requests. *)

LEMMA TakeStartInv ==
  ASSUME SystemInv, TakeStart
  PROVE  SystemInv'
<1> USE DEF SystemInv
<1>1. UNCHANGED <<commands, do_run, lost>>
  BY DEF TakeStart, node, bus
<1>2. CASE Service!StartTask(Node, Task)
  <2>1. /\ amqp.pc = "idle" /\ Node \in node_map
        /\ task_id' = [task_id EXCEPT ![Node] = Task]
        /\ overlap' = (overlap \/ Service!Overlapping(Node, Task))
        /\ amqp' = [Service!AmqpAt("start") EXCEPT !.node = Node]
        /\ UNCHANGED <<main, node_map, tasks_map, mqtt>>
    BY <1>2 DEF Service!StartTask, Service!AmqpIdle
  <2>2. amqp'.pc = "start" /\ amqp'.node = Node
    BY <2>1, AmqpAtNode
  <2>3. ~Service!Overlapping(Node, Task)
    BY <2>1 DEF Service!Overlapping, RegistryInv
  <2>4. /\ overlap' = FALSE
        /\ task_id' \in [NodeIds -> {NoTask, Task}] /\ task_id'[Node] = Task
        /\ node_map # {} /\ ~Starting'
    BY <2>1, <2>3 DEF RegistryInv, Starting
  <2>5. RegistryInv'
    BY <2>1, <2>2, <2>4 DEF RegistryInv, Halfway
  <2>6. CommandInv'
    BY <1>1, <2>2 DEF CommandInv, Halfway
  <2>7. QED BY <2>5, <2>6
<1>3. CASE Service!AskUnknown(Node)
  <2>1. UNCHANGED <<overlap, task_id, tasks_map, node_map, amqp, mqtt, main>>
    BY <1>3 DEF Service!AskUnknown, Service!service, Service!objects, Service!history
  <2>2. QED BY <1>1, <2>1, RegistryFrame, CommandFrame DEF registry, Starting
<1>4. QED BY <1>2, <1>3 DEF TakeStart

\* The pop finds its key: the node that tasks_map has for the task has no other.
LEMMA TakeEndInv ==
  ASSUME SystemInv, TakeEnd
  PROVE  SystemInv'
<1> USE DEF SystemInv
<1>1. UNCHANGED <<commands, do_run, lost>>
  BY DEF TakeEnd, node, bus
<1>2. CASE Service!EndTask(Task)
  <2>1. /\ amqp.pc = "idle" /\ tasks_map[Task] = Node
    BY <1>2 DEF Service!EndTask, Service!AmqpIdle, RegistryInv
  <2>2. task_id[Node] = Task
    BY <2>1 DEF RegistryInv
  <2>3. /\ tasks_map' = [tasks_map EXCEPT ![Task] = NoNode]
        /\ task_id' = [task_id EXCEPT ![Node] = NoTask]
        /\ amqp' = [Service!AmqpAt("end") EXCEPT !.node = Node]
        /\ UNCHANGED <<main, overlap, node_map, mqtt>>
    BY <1>2, <2>1, <2>2 DEF Service!EndTask, Service!history
  <2>4. amqp'.pc = "end" /\ amqp'.node = Node
    BY <2>3, AmqpAtNode
  <2>5. /\ task_id' \in [NodeIds -> {NoTask, Task}] /\ task_id'[Node] = NoTask
        /\ tasks_map' \in [TaskIds -> {NoNode, Node}] /\ tasks_map'[Task] = NoNode
        /\ node_map # {} /\ ~Starting'
    BY <2>1, <2>2, <2>3 DEF RegistryInv, Starting
  <2>6. RegistryInv'
    BY <2>3, <2>4, <2>5 DEF RegistryInv, Halfway
  <2>7. CommandInv'
    BY <1>1, <2>4 DEF CommandInv, Halfway
  <2>8. QED BY <2>6, <2>7
<1>3. CASE Service!EndTaskRaises(Task)
  BY <1>3 DEF Service!EndTaskRaises, Service!AmqpIdle, Service!InTasksMap, RegistryInv
<1>4. CASE IgnoreEnd
  <2>1. UNCHANGED <<overlap, task_id, tasks_map, node_map, amqp, mqtt, main>>
    BY <1>4 DEF IgnoreEnd, service, history
  <2>2. QED BY <1>1, <2>1, RegistryFrame, CommandFrame DEF registry, Starting
<1>5. QED BY <1>2, <1>3, <1>4 DEF TakeEnd

\* The command that ends a request is what the node has to do, whatever was
\* lost before; if this one is lost as well, lost says so.
LEMMA PublishInv ==
  ASSUME CommandInv, NEW command \in {"start", "end"}, Publish(command),
         do_run' = do_run,
         command = "start" <=> task_id'[Node] # NoTask
  PROVE  CommandInv'
<1>1. CASE subscribed
  <2>1. commands \in Seq({"start", "end"})
        /\ commands' = Append(commands, command) /\ lost' = FALSE
    BY <1>1 DEF Publish, CommandInv
  <2>2. /\ commands' \in Seq({"start", "end"})
        /\ commands' # <<>> /\ commands'[Len(commands')] = command
    BY <2>1, AppendProperties
  <2>3. WillRun' <=> command = "start"
    BY <2>2 DEF WillRun
  <2>4. QED BY <2>1, <2>2, <2>3 DEF CommandInv
<1>2. CASE ~subscribed
  BY <1>2 DEF Publish, CommandInv
<1>3. QED BY <1>1, <1>2

LEMMA TellStartInv ==
  ASSUME SystemInv, TellStart
  PROVE  SystemInv'
<1> USE DEF SystemInv
<1>1. /\ amqp.pc = "start" /\ amqp.node = Node /\ task_id[Node] = Task
      /\ tasks_map' = [tasks_map EXCEPT ![task_id[amqp.node]] = amqp.node]
      /\ amqp' = Service!AmqpAt("idle")
      /\ UNCHANGED <<main, overlap, task_id, node_map, mqtt>>
      /\ Publish("start") /\ do_run' = do_run
  BY DEF TellStart, Service!FinishStart, RegistryInv, Halfway, node
<1>2. amqp'.pc = "idle" /\ ~Starting' /\ node_map # {}
      /\ tasks_map' \in [TaskIds -> {NoNode, Node}] /\ tasks_map'[Task] = Node
  BY <1>1, AmqpAtPc DEF RegistryInv, Starting, Halfway
<1>3. RegistryInv'
  BY <1>1, <1>2 DEF RegistryInv, Halfway
<1>4. QED BY <1>1, <1>3, PublishInv

LEMMA TellEndInv ==
  ASSUME SystemInv, TellEnd
  PROVE  SystemInv'
<1> USE DEF SystemInv
<1>1. /\ amqp.pc = "end" /\ amqp.node = Node /\ task_id[Node] = NoTask
      /\ amqp' = Service!AmqpAt("idle")
      /\ UNCHANGED <<main, overlap, task_id, tasks_map, node_map, mqtt>>
      /\ Publish("end") /\ do_run' = do_run
  BY DEF TellEnd, Service!FinishEnd, RegistryInv, Halfway, node
<1>2. amqp'.pc = "idle" /\ ~Starting' /\ node_map # {}
  BY <1>1, AmqpAtPc DEF RegistryInv, Starting, Halfway
<1>3. RegistryInv'
  BY <1>1, <1>2 DEF RegistryInv, Halfway
<1>4. QED BY <1>1, <1>3, PublishInv

-----------------------------------------------------------------------------
(* Steps of the backend and of the node, and faults. *)

\* Most of them leave the registry alone.
LEMMA RegistryAside ==
  ASSUME RegistryInv, UNCHANGED service
  PROVE  RegistryInv' /\ UNCHANGED <<amqp, task_id>>
<1>1. UNCHANGED registry /\ UNCHANGED main
  BY DEF service, registry, history
<1>2. RegistryInv'
  BY <1>1, RegistryFrame DEF Starting
<1>3. QED BY <1>1, <1>2 DEF registry

LEMMA BackendStepInv ==
  ASSUME SystemInv, BackendStarts \/ BackendRetries \/ BackendSends
  PROVE  SystemInv'
<1>1. /\ UNCHANGED registry /\ main' = main
      /\ UNCHANGED <<commands, do_run, lost>>
  BY DEF BackendStarts, BackendRetries, BackendSends, service, history, node,
         bus, registry
<1>2. QED BY <1>1, RegistryFrame, CommandFrame DEF SystemInv, registry, Starting

\* Handling the command at the head of the queue does not change what the node
\* will run in the end, except that the last one decides it.
LEMMA HandleCommandInv ==
  ASSUME SystemInv, HandleCommand
  PROVE  SystemInv'
<1>1. /\ commands \in Seq({"start", "end"}) /\ commands # <<>>
      /\ do_run' = (Head(commands) = "start") /\ commands' = Tail(commands)
      /\ lost' = lost /\ UNCHANGED service
  BY DEF HandleCommand, SystemInv, CommandInv
<1>2. /\ commands' \in Seq({"start", "end"}) /\ Len(commands') = Len(commands) - 1
      /\ \A i \in 1..Len(commands') : commands'[i] = commands[i + 1]
      /\ Head(commands) = commands[1]
  BY <1>1, HeadTailProperties
<1>3. WillRun' <=> WillRun
  <2>1. CASE commands' = <<>>
    <3>1. Len(commands) = 1
      BY <1>1, <1>2, <2>1, LenProperties
    <3>2. QED BY <1>1, <1>2, <2>1, <3>1 DEF WillRun
  <2>2. CASE commands' # <<>>
    <3>1. Len(commands') \in Nat /\ Len(commands') # 0
      BY <1>2, <2>2, EmptySeq, LenProperties
    <3>2. commands'[Len(commands')] = commands[Len(commands)]
      BY <1>1, <1>2, <3>1, LenProperties
    <3>3. QED BY <1>1, <2>2, <3>2 DEF WillRun
  <2>3. QED BY <2>1, <2>2
<1>4. RegistryInv' /\ UNCHANGED <<amqp, task_id>>
  BY <1>1, RegistryAside DEF SystemInv
<1>5. QED BY <1>1, <1>2, <1>3, <1>4 DEF SystemInv, CommandInv, Halfway

LEMMA HandleDiscoverInv ==
  ASSUME SystemInv, HandleDiscover
  PROVE  SystemInv'
<1> USE DEF SystemInv
<1>1. /\ UNCHANGED <<main, overlap, task_id, tasks_map, node_map, amqp>>
      /\ UNCHANGED <<commands, do_run, lost>>
      /\ \/ Node \in node_map /\ UNCHANGED mqtt
         \/ /\ Node \notin node_map
            /\ mqtt' = [Service!MqttIdle EXCEPT !.pc = "register", !.node = Node]
  BY DEF HandleDiscover, Service!NodeAnswers, Service!OnDiscoverResponse,
         Service!objects, Service!history, node, bus
<1>2. mqtt' = mqtt \/ (Node \notin node_map /\ mqtt'.pc = "register" /\ mqtt'.node = Node)
  BY <1>1, MqttRegisters
<1>3. CASE mqtt' = mqtt
  BY <1>1, <1>3, RegistryFrame, CommandFrame DEF registry, Starting
<1>4. CASE Node \notin node_map /\ mqtt'.pc = "register" /\ mqtt'.node = Node
  <2>1. node_map = {}
    BY <1>4 DEF RegistryInv
  <2>2. RegistryInv'
    BY <1>1, <1>4, <2>1 DEF RegistryInv, Halfway, Starting
  <2>3. QED BY <1>1, <2>2, CommandFrame
<1>5. QED BY <1>2, <1>3, <1>4

\* The last command is lost, or it stays the last one.
LEMMA CommandLostInv ==
  ASSUME SystemInv, CommandLost
  PROVE  SystemInv'
<1>1. /\ commands \in Seq({"start", "end"}) /\ commands # <<>>
      /\ commands' = Tail(commands) /\ do_run' = do_run
      /\ lost' = (lost \/ Len(commands) = 1) /\ UNCHANGED service
  BY DEF CommandLost, SystemInv, CommandInv, node
<1>2. /\ commands' \in Seq({"start", "end"}) /\ Len(commands') = Len(commands) - 1
      /\ \A i \in 1..Len(commands') : commands'[i] = commands[i + 1]
  BY <1>1, HeadTailProperties
<1>3. Len(commands) # 1 => (WillRun' <=> WillRun)
  <2>1. ASSUME Len(commands) # 1 PROVE WillRun' <=> WillRun
    <3>1. Len(commands') \in Nat /\ Len(commands') # 0
      BY <1>1, <1>2, <2>1, EmptySeq, LenProperties
    <3>2. commands' # <<>> /\ commands'[Len(commands')] = commands[Len(commands)]
      BY <1>1, <1>2, <3>1, LenProperties
    <3>3. QED BY <1>1, <3>2 DEF WillRun
  <2>2. QED BY <2>1
<1>4. RegistryInv' /\ UNCHANGED <<amqp, task_id>>
  BY <1>1, RegistryAside DEF SystemInv
<1>5. do_run' \in BOOLEAN /\ lost' \in BOOLEAN
  BY <1>1 DEF SystemInv, CommandInv
<1>6. CASE Len(commands) = 1
  BY <1>1, <1>2, <1>4, <1>5, <1>6 DEF SystemInv, CommandInv
<1>7. CASE Len(commands) # 1
  BY <1>1, <1>2, <1>3, <1>4, <1>5, <1>7 DEF SystemInv, CommandInv, Halfway
<1>8. QED BY <1>6, <1>7

LEMMA NodeFaultInv ==
  ASSUME SystemInv, NodeLosesConnection \/ NodeRestarts
  PROVE  SystemInv'
<1>1. UNCHANGED service /\ commands' = <<>> /\ do_run' \in BOOLEAN /\ lost' \in BOOLEAN
  BY DEF NodeLosesConnection, NodeRestarts, SystemInv, CommandInv
<1>2. RegistryInv' /\ UNCHANGED <<amqp, task_id>>
  BY <1>1, RegistryAside DEF SystemInv
<1>3. lost' \/ (commands = <<>> /\ do_run' = do_run /\ lost' = lost)
  BY DEF NodeLosesConnection, NodeRestarts, SystemInv, CommandInv
<1>4. CommandInv'
  <2>1. commands' \in Seq({"start", "end"})
    BY <1>1
  <2>2. CASE lost'
    BY <1>1, <2>1, <2>2 DEF CommandInv
  <2>3. CASE commands = <<>> /\ do_run' = do_run /\ lost' = lost
    BY <1>1, <1>2, <2>3, CommandFrame DEF SystemInv
  <2>4. QED BY <1>3, <2>2, <2>3
<1>5. QED BY <1>2, <1>4 DEF SystemInv

LEMMA ServerFaultInv ==
  ASSUME SystemInv, ServerLosesMessages \/ ConsumerLosesConnection
  PROVE  SystemInv'
<1>1. UNCHANGED <<commands, do_run, lost>>
  BY DEF ServerLosesMessages, ConsumerLosesConnection, node, bus
<1>2. CASE ServerLosesMessages
  <2>1. UNCHANGED <<overlap, task_id, tasks_map, node_map, amqp, mqtt, main>>
    BY <1>2 DEF ServerLosesMessages, Service!MqttLosesConnection,
         Service!AnswerLost, Service!service, Service!objects, Service!history
  <2>2. QED BY <1>1, <2>1, RegistryFrame, CommandFrame DEF SystemInv, registry, Starting
<1>3. CASE ConsumerLosesConnection
  <2>1. /\ ~Halfway /\ ~Starting' /\ amqp' = Service!AmqpAt("connecting")
        /\ UNCHANGED <<overlap, task_id, tasks_map, node_map, mqtt>>
    BY <1>3 DEF SystemInv, RegistryInv, Starting, Halfway,
         ConsumerLosesConnection, Service!ConsumerLosesConnection,
         Service!AmqpIdle, Service!objects, Service!history
  <2>2. QED BY <1>1, <2>1, AmqpMoves
<1>4. QED BY <1>2, <1>3

LEMMA ServiceRestartsInv ==
  ASSUME SystemInv, ServiceRestarts
  PROVE  SystemInv'
<1>1. /\ overlap' = FALSE /\ node_map' = {}
      /\ task_id' = [n \in NodeIds |-> NoTask]
      /\ tasks_map' = [t \in TaskIds |-> NoNode]
      /\ amqp' = Service!AmqpAt("off") /\ mqtt' = Service!MqttIdle
      /\ lost' = TRUE /\ UNCHANGED <<commands, do_run>>
  BY DEF ServiceRestarts, SystemInv, RegistryInv, history, node
<1>2. amqp'.pc = "off" /\ mqtt'.pc = "idle"
  BY <1>1, AmqpAtPc, MqttIdlePc
<1>3. RegistryInv'
  BY <1>1, <1>2 DEF RegistryInv, Halfway, Starting
<1>4. CommandInv'
  BY <1>1 DEF SystemInv, CommandInv
<1>5. QED BY <1>3, <1>4 DEF SystemInv

-----------------------------------------------------------------------------

LEMMA NextSystemInv == SystemInv /\ [Next]_vars => SystemInv'
<1> SUFFICES ASSUME SystemInv, [Next]_vars PROVE SystemInv'
  OBVIOUS
<1>1. CASE BackendStarts \/ BackendRetries \/ BackendSends
  BY <1>1, BackendStepInv
<1>2. CASE ServiceStep
  BY <1>2, ServiceStepInv
<1>3. CASE TakeStart \/ TakeEnd
  BY <1>3, TakeStartInv, TakeEndInv
<1>4. CASE TellStart \/ TellEnd
  BY <1>4, TellStartInv, TellEndInv
<1>5. CASE HandleCommand
  BY <1>5, HandleCommandInv
<1>6. CASE HandleDiscover
  BY <1>6, HandleDiscoverInv
<1>7. CASE mqtt_connection_handler \/ BackendThrows \/ UNCHANGED vars
  <2>1. UNCHANGED service /\ UNCHANGED <<commands, do_run, lost>>
    BY <1>7 DEF mqtt_connection_handler, BackendThrows, vars, node, bus
  <2>2. QED BY <2>1, RegistryAside, CommandFrame DEF SystemInv
<1>8. CASE Faults
  BY <1>7, <1>8, CommandLostInv, NodeFaultInv, ServerFaultInv, ServiceRestartsInv
     DEF Faults
<1>9. QED BY <1>1, <1>2, <1>3, <1>4, <1>5, <1>6, <1>7, <1>8 DEF Next, Abandoned

LEMMA Invariance == Spec => []SystemInv
BY InitSystemInv, NextSystemInv, PTL DEF Spec

\* The consumer thread survives every order, repetition and loss of the
\* backend's requests, and every restart.
THEOREM ConsumerNeverDies == Spec => []ConsumerSurvives
<1>1. SystemInv => ConsumerSurvives
  BY DEF SystemInv, RegistryInv, ConsumerSurvives, Service!Dead
<1>2. QED BY <1>1, Invariance, PTL

\* A node that has seen the last command published for it, and has not
\* restarted since, runs exactly while the server has a task for it.
THEOREM NodeFollowsRegistry == Spec => []NodeObeysRegistry
<1>1. SystemInv => NodeObeysRegistry
  BY DEF SystemInv, RegistryInv, CommandInv, WillRun, Halfway,
         NodeObeysRegistry, Service!Switching
<1>2. QED BY <1>1, Invariance, PTL

-----------------------------------------------------------------------------
(* Types.  A step of the server needs to know where a node comes from that *)
(* it writes to the maps, which RegistryInv says.                          *)

\* The types of the backend, the node and the faults; the last attempt to
\* connect is the one that makes numberOfRetries zero.
ProgramsOK ==
  /\ backend \in {"connecting", "start", "end", "failed"}
  /\ numberOfRetries \in 0..4
  /\ backend = "connecting" => numberOfRetries # 0
  /\ startTask \in 0..MaxQueued
  /\ endTask \in 0..MaxQueued
  /\ online \in BOOLEAN
  /\ faults \in 0..MaxFaults

TypeInv == SystemInv /\ Service!TypeOK /\ ProgramsOK

LEMMA AmqpTypes ==
  /\ \A pc \in Service!AmqpPcs : Service!AmqpAt(pc) \in Service!AmqpThread
  /\ \A pc \in Service!AmqpPcs, n \in NodeIds :
       [Service!AmqpAt(pc) EXCEPT !.node = n] \in Service!AmqpThread
  /\ {"off", "connecting", "idle", "start", "end"} \subseteq Service!AmqpPcs
BY DEF Service!AmqpAt, Service!AmqpThread, Service!AmqpPcs, Service!Handling

LEMMA MqttTypes ==
  /\ Service!MqttIdle \in Service!MqttThread
  /\ \A n \in NodeIds :
       [Service!MqttIdle EXCEPT !.pc = "register", !.node = n] \in Service!MqttThread
BY DEF Service!MqttIdle, Service!MqttThread, Service!MqttPcs

LEMMA InitTypeInv == Init => TypeInv
<1> SUFFICES ASSUME Init PROVE TypeInv
  OBVIOUS
<1>1. Service!TypeOK
  <2>1. amqp \in Service!AmqpThread /\ mqtt \in Service!MqttThread
    BY AmqpTypes, MqttTypes DEF Init, Service!Init
  <2>2. view \in [NodeIds -> Service!Update]
    BY DEF Init, Service!Init, Service!Update
  <2>3. QED
    BY <2>1, <2>2 DEF Init, Service!Init, Service!TypeOK, Service!MainPcs, Service!PubStates
<1>2. ProgramsOK
  <2>1. online \in BOOLEAN /\ startTask = 0 /\ endTask = 0 /\ faults = 0
    BY DEF Init, Backend!Init
  <2>2. backend = "connecting" /\ numberOfRetries = 4
    BY DEF Init, Backend!Init
  <2>3. QED BY <2>1, <2>2 DEF ProgramsOK
<1>3. QED BY <1>1, <1>2, InitSystemInv DEF TypeInv

\* Starting up, connecting and registering.
LEMMA ServiceStepTypes ==
  ASSUME TypeInv, ServiceStep
  PROVE  Service!TypeOK'
<1> USE DEF TypeInv, Service!TypeOK
<1>1. CASE Service!OpenMqtt \/ Service!LeaveDiscovery \/ Service!OpenPublisher
  BY <1>1 DEF Service!OpenMqtt, Service!LeaveDiscovery, Service!OpenPublisher,
       Service!MainPcs, Service!PubStates, Service!objects, Service!network,
       Service!history
<1>2. CASE Service!StartConsumer \/ Service!ConsumerConnects
  BY <1>2, AmqpTypes DEF Service!StartConsumer, Service!ConsumerConnects,
       Service!MainPcs, Service!objects, Service!network, Service!history
<1>3. CASE Service!MainAsks \/ Service!MqttConnects
  BY <1>3 DEF Service!MainAsks, Service!MqttConnects, Service!AskNodes,
       Service!service, Service!objects, Service!history
<1>4. CASE Service!Exit
  BY <1>4 DEF Service!Exit, Service!Dead, SystemInv, RegistryInv
<1>5. CASE Service!Register
  <2>1. mqtt.node \in NodeIds
    BY <1>5 DEF Service!Register, SystemInv, RegistryInv
  <2>2. QED
    BY <1>5, <2>1, MqttTypes DEF Service!Register, Service!network, Service!history
<1>6. QED
  BY <1>1, <1>2, <1>3, <1>4, <1>5 DEF ServiceStep, Service!MainStep

LEMMA RequestTypes ==
  ASSUME TypeInv, TakeStart \/ TakeEnd
  PROVE  Service!TypeOK'
<1> USE DEF TypeInv, Service!TypeOK
<1>1. CASE Service!StartTask(Node, Task)
  BY <1>1, AmqpTypes DEF Service!StartTask, Service!Overlapping, Service!network
<1>2. CASE Service!AskUnknown(Node)
  BY <1>2 DEF Service!AskUnknown, Service!AskNodes, Service!service,
       Service!objects, Service!history
<1>3. CASE Service!EndTask(Task)
  <2>1. tasks_map[Task] = Node
    BY <1>3 DEF Service!EndTask, SystemInv, RegistryInv
  <2>2. QED
    BY <1>3, <2>1, AmqpTypes DEF Service!EndTask, Service!network, Service!history
<1>4. CASE Service!EndTaskRaises(Task)
  BY <1>4 DEF Service!EndTaskRaises, Service!AmqpIdle, Service!InTasksMap,
       SystemInv, RegistryInv
<1>5. CASE IgnoreEnd
  BY <1>5 DEF IgnoreEnd, service, network, history
<1>6. QED
  BY <1>1, <1>2, <1>3, <1>4, <1>5 DEF TakeStart, TakeEnd

LEMMA TellTypes ==
  ASSUME TypeInv, TellStart \/ TellEnd
  PROVE  Service!TypeOK'
<1> USE DEF TypeInv, Service!TypeOK
<1>1. amqp.node = Node
  BY DEF TellStart, TellEnd, Service!FinishStart, Service!FinishEnd, SystemInv,
         RegistryInv, Halfway
<1>2. CASE Service!FinishStart
  <2>1. task_id[Node] = Task
    BY <1>2 DEF Service!FinishStart, SystemInv, RegistryInv
  <2>2. QED
    BY <1>1, <1>2, <2>1, AmqpTypes DEF Service!FinishStart, Service!network
<1>3. CASE Service!FinishEnd
  BY <1>1, <1>3, AmqpTypes DEF Service!FinishEnd, Service!network
<1>4. QED
  BY <1>2, <1>3 DEF TellStart, TellEnd

LEMMA OutsideTypes ==
  ASSUME TypeInv, UNCHANGED service
  PROVE  Service!TypeOK'
BY DEF TypeInv, Service!TypeOK, service, network, history

\* The answer of a node, and what is lost on the way to the server.
LEMMA MessageTypes ==
  ASSUME TypeInv, HandleDiscover \/ ServerLosesMessages \/ ConsumerLosesConnection
  PROVE  Service!TypeOK'
<1> USE DEF TypeInv, Service!TypeOK
<1>1. CASE HandleDiscover
  <2>1. mqtt' \in Service!MqttThread
    BY <1>1, MqttTypes DEF HandleDiscover, Service!NodeAnswers, Service!OnDiscoverResponse
  <2>2. QED
    BY <1>1, <2>1 DEF HandleDiscover, Service!NodeAnswers,
         Service!OnDiscoverResponse, Service!objects, Service!history
<1>2. CASE ServerLosesMessages
  BY <1>2 DEF ServerLosesMessages, Service!MqttLosesConnection,
       Service!AnswerLost, Service!service, Service!objects, Service!history
<1>3. CASE ConsumerLosesConnection
  BY <1>3, AmqpTypes DEF ConsumerLosesConnection, Service!ConsumerLosesConnection,
       Service!objects, Service!network, Service!history
<1>4. QED BY <1>1, <1>2, <1>3

LEMMA RestartTypes ==
  ASSUME TypeInv, ServiceRestarts
  PROVE  Service!TypeOK'
BY AmqpTypes, MqttTypes
   DEF TypeInv, Service!TypeOK, ServiceRestarts, Service!MainPcs,
       Service!PubStates, history

\* The counters of the backend and of the faults stay within their bounds.
LEMMA ProgramsStay ==
  ASSUME TypeInv, [Next]_vars
  PROVE  ProgramsOK'
<1> USE DEF TypeInv, ProgramsOK
<1>1. CASE BackendStarts \/ BackendRetries
  BY <1>1 DEF BackendStarts, BackendRetries, Backend!StartAsync,
       Backend!StartAsyncThrows, Backend!queues, node
<1>2. CASE BackendSends
  BY <1>2 DEF BackendSends, Backend!SendStart, Backend!SendEnd, node
<1>3. CASE TakeStart \/ TakeEnd
  BY <1>3 DEF TakeStart, TakeEnd, node
<1>4. CASE ServiceStep \/ TellStart \/ TellEnd \/ HandleDiscover \/ UNCHANGED vars
  BY <1>4 DEF ServiceStep, TellStart, TellEnd, HandleDiscover, vars, backendVars, node
<1>5. CASE mqtt_connection_handler \/ HandleCommand
  BY <1>5 DEF mqtt_connection_handler, HandleCommand, backendVars
<1>6. CASE Faults
  <2>1. faults' \in 0..MaxFaults
    BY <1>6 DEF Faults, Fault
  <2>2. CASE CommandLost \/ NodeLosesConnection \/ NodeRestarts \/ ServerLosesMessages
    BY <2>1, <2>2 DEF CommandLost, NodeLosesConnection, NodeRestarts,
         ServerLosesMessages, backendVars, node
  <2>3. CASE ConsumerLosesConnection \/ ServiceRestarts
    BY <2>1, <2>3 DEF ConsumerLosesConnection, ServiceRestarts, DropPrefetched, node
  <2>4. CASE BackendThrows
    BY <2>1, <2>4 DEF BackendThrows, Backend!Throws, Backend!queues, node
  <2>5. QED BY <1>6, <2>2, <2>3, <2>4 DEF Faults
<1>7. QED
  BY <1>1, <1>2, <1>3, <1>4, <1>5, <1>6 DEF Next, Abandoned

LEMMA NextTypes ==
  ASSUME TypeInv, [Next]_vars
  PROVE  Service!TypeOK'
<1>1. CASE BackendStarts
  BY <1>1 DEF BackendStarts, TypeInv, Service!TypeOK, history
<1>2. CASE \/ BackendRetries \/ BackendSends
           \/ mqtt_connection_handler \/ HandleCommand \/ UNCHANGED vars
  BY <1>2, OutsideTypes DEF BackendRetries, BackendSends, mqtt_connection_handler,
       HandleCommand, vars
<1>3. CASE Faults
  <2>1. CASE CommandLost \/ NodeLosesConnection \/ NodeRestarts \/ BackendThrows
    BY <2>1, OutsideTypes DEF CommandLost, NodeLosesConnection, NodeRestarts, BackendThrows
  <2>2. QED
    BY <1>3, <2>1, MessageTypes, RestartTypes DEF Faults
<1>4. QED
  BY <1>1, <1>2, <1>3, ServiceStepTypes, RequestTypes, TellTypes, MessageTypes
     DEF Next, Abandoned

LEMMA NextTypeInv == TypeInv /\ [Next]_vars => TypeInv'
BY NextTypes, ProgramsStay, NextSystemInv DEF TypeInv

\* Type correctness of the three programs: the backend gives up after its
\* fourth attempt, and the server's maps hold what they are meant to hold.
THEOREM SystemTypes == Spec => []TypeOK
<1>1. TypeInv => TypeOK
  BY DEF TypeInv, SystemInv, CommandInv, ProgramsOK, TypeOK
<1>2. QED BY <1>1, InitTypeInv, NextTypeInv, PTL DEF Spec

=============================================================================
