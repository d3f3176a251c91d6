--------------------------- MODULE DummyFirmware ---------------------------
(***************************************************************************)
(* A simulated sensor, the Node of dummy-firmware/src/dummy-firmware.py.   *)
(* paho's loop_forever runs the handlers in one thread; every tasks/start  *)
(* starts another thread with fw_loop.  The threads share the Node's       *)
(* attributes without a lock, so a step is the code between two accesses   *)
(* that another thread can see.  The handler of tasks/start is one step:   *)
(* a loop that wakes before `do_run = True' ends as it would have before.  *)
(* The script has two Nodes, which share nothing.                          *)
(***************************************************************************)
EXTENDS Naturals

CONSTANTS Loops,     \* threads that run fw_loop
          MaxCount   \* bound: passes of the loops in a run

ASSUME DummyAssumption == MaxCount \in Nat

VARIABLES
  online,      \* connected, and the three topics are subscribed
  counter,
  do_run,
  loop,        \* where each thread is; asleep and at the while are one place
  local        \* what it last read from counter, then its json_msg

\* History.
VARIABLES
  overlapped,  \* some tasks/start found a loop that had not ended
  sent,        \* reports published since the last tasks/start, delivered or not
  late         \* of each loop, reports published since the last tasks/end

node == <<online, counter, do_run, loop, local>>
vars == <<node, overlapped, sent, late>>

Running == {l \in Loops : loop[l] # "none"}

\* do_run is no attribute before the first tasks/start, and nothing reads it.
Init ==
  /\ online = FALSE
  /\ counter = 0
  /\ do_run = FALSE
  /\ loop = [l \in Loops |-> "none"]
  /\ local = [l \in Loops |-> 0]
  /\ overlapped = FALSE
  /\ sent = 0
  /\ late = [l \in Loops |-> 0]

-----------------------------------------------------------------------------
(* paho's thread. *)

mqtt_connection_handler ==
  /\ ~online
  /\ online' = TRUE
  /\ UNCHANGED <<counter, do_run, loop, local, overlapped, sent, late>>

LosesConnection ==
  /\ online
  /\ online' = FALSE
  /\ UNCHANGED <<counter, do_run, loop, local, overlapped, sent, late>>

\* mqtt_message_handler, tasks/start.
OnStart(l) ==
  /\ online
  /\ loop[l] = "none"
  /\ counter' = 0
  /\ do_run' = TRUE
  /\ loop' = [loop EXCEPT ![l] = "while"]
  /\ overlapped' = (overlapped \/ Running # {})
  /\ sent' = 0
  /\ late' = [m \in Loops |-> 0]
  /\ UNCHANGED <<online, local>>

\* mqtt_message_handler, tasks/end.
OnEnd ==
  /\ online
  /\ do_run' = FALSE
  /\ late' = [m \in Loops |-> 0]
  /\ UNCHANGED <<online, counter, loop, local, overlapped, sent>>

-----------------------------------------------------------------------------
(* fw_loop. *)

\* Mutant: a loop asks for do_run only when it is started.
LoadsAlways(l) ==
  /\ loop[l] = "while"
  /\ counter < MaxCount
  /\ loop' = [loop EXCEPT ![l] = "add"]
  /\ local' = [local EXCEPT ![l] = counter]
  /\ UNCHANGED <<online, counter, do_run, overlapped, sent, late>>

\* The while and the first half of `counter += 1'.
Load(l) ==
  /\ loop[l] = "while"
  /\ do_run
  /\ counter < MaxCount
  /\ loop' = [loop EXCEPT ![l] = "add"]
  /\ local' = [local EXCEPT ![l] = counter]
  /\ UNCHANGED <<online, counter, do_run, overlapped, sent, late>>

\* Mutant: a loop that is told to stop waits for the next run.
Parks(l) ==
  /\ loop[l] = "while"
  /\ ~do_run
  /\ local' = [local EXCEPT ![l] = 0]
  /\ UNCHANGED <<online, counter, do_run, loop, overlapped, sent, late>>

Ends(l) ==
  /\ loop[l] = "while"
  /\ ~do_run
  /\ loop' = [loop EXCEPT ![l] = "none"]
  /\ UNCHANGED <<online, counter, do_run, local, overlapped, sent, late>>

\* Mutant: a pass counts two products.
StoresTwo(l) ==
  /\ loop[l] = "add"
  /\ counter' = local[l] + 2
  /\ loop' = [loop EXCEPT ![l] = "dumps"]
  /\ UNCHANGED <<online, do_run, local, overlapped, sent, late>>

Store(l) ==
  /\ loop[l] = "add"
  /\ counter' = local[l] + 1
  /\ loop' = [loop EXCEPT ![l] = "dumps"]
  /\ UNCHANGED <<online, do_run, local, overlapped, sent, late>>

\* Mutant: the report is made before the counter is increased.
DumpsOld(l) ==
  /\ loop[l] = "dumps"
  /\ loop' = [loop EXCEPT ![l] = "publish"]
  /\ UNCHANGED <<online, counter, do_run, local, overlapped, sent, late>>

Dumps(l) ==
  /\ loop[l] = "dumps"
  /\ local' = [local EXCEPT ![l] = counter]
  /\ loop' = [loop EXCEPT ![l] = "publish"]
  /\ UNCHANGED <<online, counter, do_run, overlapped, sent, late>>

\* At QoS 0; a report published offline is dropped by paho.
Publish(l) ==
  /\ loop[l] = "publish"
  /\ loop' = [loop EXCEPT ![l] = "while"]
  /\ sent' = sent + 1
  /\ late' = [late EXCEPT ![l] = IF do_run THEN 0 ELSE @ + 1]
  /\ UNCHANGED <<online, counter, do_run, local, overlapped>>

-----------------------------------------------------------------------------
fw_loop(l) == Load(l) \/ Ends(l) \/ Store(l) \/ Dumps(l) \/ Publish(l)

Next == \/ mqtt_connection_handler \/ LosesConnection
        \/ OnEnd
        \/ \E l \in Loops : OnStart(l) \/ fw_loop(l)

Spec == Init /\ [][Next]_vars

\* Every thread gets the interpreter lock, and sleep returns.
FairSpec == Spec /\ \A l \in Loops : WF_vars(fw_loop(l))

-----------------------------------------------------------------------------
Counts == 0..MaxCount

TypeOK ==
  /\ online \in BOOLEAN
  /\ counter \in Counts
  /\ do_run \in BOOLEAN
  /\ loop \in [Loops -> {"none", "while", "add", "dumps", "publish"}]
  /\ local \in [Loops -> Counts]
  /\ overlapped \in BOOLEAN
  /\ sent \in Nat
  /\ late \in [Loops -> Nat]

\* While every tasks/start comes after the last loop has ended, the reports of
\* a run are numbered 1, 2, 3, ... by their counters: nothing is counted twice
\* and no reset is undone by a store in flight.
ReportsNumberPasses ==
  ~overlapped =>
    \A l \in Running : /\ \A m \in Running : m = l
                       /\ loop[l] = "publish" => local[l] = sent + 1

\* After tasks/end each loop, an overlapping one as well, publishes at most the
\* report it is already making.
AtMostOneLateReport == \A l \in Loops : late[l] <= 1

\* tasks/end stops every loop that is left, however many tasks/start messages
\* have piled up, unless another tasks/start revives them.
EndStopsAllLoops == ~do_run ~> Running = {} \/ do_run

=============================================================================
