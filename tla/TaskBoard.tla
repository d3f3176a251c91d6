----------------------------- MODULE TaskBoard -----------------------------
(***************************************************************************)
(* What the IoT server promises a backend that books each task on one node *)
(* and each node for one task: one board of tasks where the server has two *)
(* maps and a handler in two halves, a count beside each entry, and        *)
(* updates that take entry and count off the board in one step.  Threads,  *)
(* connections and start-up do not show.                                   *)
(***************************************************************************)
EXTENDS Naturals

CONSTANTS NodeIds, TaskIds, NoTask, NoNode, Counters

VARIABLES
  known,     \* nodes that have been discovered
  board,     \* the task each node has
  count,     \* what each node has counted, as far as is known
  untold,    \* the node whose entry has changed and that has not been told
  told,      \* last command to each node
  update,    \* the update on its way to the backend, or none
  view       \* last update of each node that the backend has

vars == <<known, board, count, untold, told, update, view>>

NoUpdate == [node |-> NoNode]

Init ==
  /\ known = {}
  /\ board = [n \in NodeIds |-> NoTask]
  /\ count = [n \in NodeIds |-> 0]
  /\ untold = NoNode
  /\ told = [n \in NodeIds |-> "none"]
  /\ update = NoUpdate
  /\ view = [n \in NodeIds |-> [task |-> NoTask, counter |-> 0]]

Discover(n) ==
  /\ n \notin known
  /\ known' = known \cup {n}
  /\ UNCHANGED <<board, count, untold, told, update, view>>

\* A task goes to one node, which has no other; starting it again is allowed.
Assign(n, t) ==
  /\ n \in known
  /\ untold = NoNode
  /\ board[n] \in {NoTask, t}
  /\ \A m \in NodeIds : board[m] = t => m = n
  /\ board' = [board EXCEPT ![n] = t]
  /\ untold' = n
  /\ UNCHANGED <<known, count, told, update, view>>

Release(n) ==
  /\ untold = NoNode
  /\ board[n] # NoTask
  /\ board' = [board EXCEPT ![n] = NoTask]
  /\ untold' = n
  /\ UNCHANGED <<known, count, told, update, view>>

\* The node is told of its entry, and what it has counted starts again at zero.
Tell ==
  /\ untold # NoNode
  /\ count' = [count EXCEPT ![untold] = 0]
  /\ told' = [told EXCEPT ![untold] =
                IF board[untold] = NoTask THEN "end" ELSE "start"]
  /\ untold' = NoNode
  /\ UNCHANGED <<known, board, update, view>>

\* A node's report; it does not say which of the node's tasks it is of.
Report(n, c) ==
  /\ n \in known
  /\ update = NoUpdate
  /\ count' = [count EXCEPT ![n] = c]
  /\ UNCHANGED <<known, board, untold, told, update, view>>

\* The task the node has and its count, both at this time.
Observe(n) ==
  /\ n \in known
  /\ update = NoUpdate
  /\ update' = [node |-> n, task |-> board[n], counter |-> count[n]]
  /\ UNCHANGED <<known, board, count, untold, told, view>>

Deliver ==
  /\ update # NoUpdate
  /\ view' = [view EXCEPT ![update.node] =
                [task |-> update.task, counter |-> update.counter]]
  /\ update' = NoUpdate
  /\ UNCHANGED <<known, board, count, untold, told>>

Lose ==
  /\ update # NoUpdate
  /\ update' = NoUpdate
  /\ UNCHANGED <<known, board, count, untold, told, view>>

Next == \/ \E n \in NodeIds : \/ Discover(n) \/ Release(n) \/ Observe(n)
                              \/ \E t \in TaskIds : Assign(n, t)
                              \/ \E c \in Counters : Report(n, c)
        \/ Tell \/ Deliver \/ Lose

\* A node is told in the end; an update may be lost with the process.
Fairness == WF_vars(Tell)

Safety == Init /\ [][Next]_vars
Spec == Safety /\ Fairness

=============================================================================
