--------------------------- MODULE BookedService ---------------------------
(***************************************************************************)
(* SensorsService under a backend that books each task on one node and     *)
(* each node for one task implements TaskBoard.                            *)
(***************************************************************************)
EXTENDS SensorsService

\* The backend never makes a request that would set overlap.
BookingNext == Next /\ ~overlap'

BookingSpec == Init /\ [][BookingNext]_vars

\* The consumer thread runs: all that TaskBoard's promise to tell a node needs.
FairBookingSpec == BookingSpec /\ WF_vars(AmqpStep)

\* The node whose start or end request is half done.
Untold == IF amqp.pc \in {"start", "end"} THEN amqp.node ELSE NoNode

\* The copy of the Node's attributes that mqtt_on_message publishes.
UpdateInFlight ==
  IF mqtt.pc = "publish"
    THEN [node |-> mqtt.node, task |-> mqtt.task, counter |-> mqtt.counter]
    ELSE [node |-> NoNode]

Board == INSTANCE TaskBoard WITH
           known <- node_map, board <- task_id, count <- counter,
           untold <- Untold, told <- issued, update <- UpdateInFlight

\* The server keeps the promises of TaskBoard to a backend that books: its two
\* maps act as one board in which a task has one node and a node one task, every
\* change is told to the node, and its count cleared, before the next change,
\* and an update shows the task and the count that the node's entry had together
\* at one moment, also when paho's thread runs between the two assignments of
\* switch_task or switch_task between a comparison and its copy.
ImplementsTaskBoard == Board!Spec

BoardSafety == Board!Safety

=============================================================================
