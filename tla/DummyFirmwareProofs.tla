------------------------ MODULE DummyFirmwareProofs ------------------------
(***************************************************************************)
(* DummyFirmware's invariants, proved for every set of threads and every   *)
(* bound: where each loop stands ties its local copy to the counter and to *)
(* the reports sent, as long as no loop overlaps another.                  *)
(***************************************************************************)
EXTENDS DummyFirmware, TLAPS

\* A copy that is about to be increased leaves room for it.
AddFits == \A l \in Loops : loop[l] = "add" => local[l] < MaxCount

\* A pass of the only loop: what it has read, stored and sent.
PassCounts ==
  ~overlapped =>
    \A l \in Running :
      /\ \A m \in Running : m = l
      /\ loop[l] = "while" => counter = sent
      /\ loop[l] = "add" => counter = sent /\ local[l] = sent
      /\ loop[l] = "dumps" => counter = sent + 1
      /\ loop[l] = "publish" => counter = sent + 1 /\ local[l] = sent + 1

\* The loop that made a late report does not make another one.
LateIsLast ==
  \A l \in Loops : /\ late[l] \in {0, 1}
                   /\ late[l] = 1 => ~do_run /\ loop[l] \in {"none", "while"}

IInv == TypeOK /\ AddFits /\ PassCounts /\ LateIsLast

USE DummyAssumption DEF DummyAssumption, Counts

-----------------------------------------------------------------------------

LEMMA InitHolds == Init => IInv
<1> SUFFICES ASSUME Init PROVE IInv
  OBVIOUS
<1>1. TypeOK
  <2>1. loop \in [Loops -> {"none", "while", "add", "dumps", "publish"}]
    BY DEF Init
  <2>2. local \in [Loops -> Counts] /\ counter \in Counts
    BY DEF Init
  <2>3. late \in [Loops -> Nat] /\ sent \in Nat
    BY DEF Init
  <2> QED
    BY <2>1, <2>2, <2>3 DEF Init, TypeOK
<1>2. AddFits /\ PassCounts
  BY DEF Init, AddFits, PassCounts, Running
<1>3. LateIsLast
  BY DEF Init, LateIsLast
<1> QED
  BY <1>1, <1>2, <1>3 DEF IInv

\* Types; a store needs the room that the load has left it.
LEMMA TypesStay ==
  ASSUME TypeOK, AddFits, [Next]_vars
  PROVE  (TypeOK /\ AddFits)'
<1>1. CASE mqtt_connection_handler
  BY <1>1 DEF mqtt_connection_handler, TypeOK, AddFits
<1>2. CASE LosesConnection
  BY <1>2 DEF LosesConnection, TypeOK, AddFits
<1>3. CASE OnEnd
  BY <1>3 DEF OnEnd, TypeOK, AddFits
<1>4. ASSUME NEW l \in Loops, OnStart(l) PROVE (TypeOK /\ AddFits)'
  BY <1>4 DEF OnStart, TypeOK, AddFits
<1>5. ASSUME NEW l \in Loops, Load(l) PROVE (TypeOK /\ AddFits)'
  BY <1>5 DEF Load, TypeOK, AddFits
<1>6. ASSUME NEW l \in Loops, Ends(l) PROVE (TypeOK /\ AddFits)'
  BY <1>6 DEF Ends, TypeOK, AddFits
<1>7. ASSUME NEW l \in Loops, Store(l) PROVE (TypeOK /\ AddFits)'
  BY <1>7 DEF Store, TypeOK, AddFits
<1>8. ASSUME NEW l \in Loops, Dumps(l) PROVE (TypeOK /\ AddFits)'
  BY <1>8 DEF Dumps, TypeOK, AddFits
<1>9. ASSUME NEW l \in Loops, Publish(l) PROVE (TypeOK /\ AddFits)'
  BY <1>9 DEF Publish, TypeOK, AddFits
<1>10. CASE UNCHANGED vars
  BY <1>10 DEF vars, node, TypeOK, AddFits
<1> QED
  BY <1>1, <1>2, <1>3, <1>4, <1>5, <1>6, <1>7, <1>8, <1>9, <1>10 DEF Next, fw_loop

\* Only the loop that steps is running, unless loops overlap.
LEMMA PassStays ==
  ASSUME TypeOK, PassCounts, [Next]_vars
  PROVE  PassCounts'
<1>1. CASE mqtt_connection_handler
  BY <1>1 DEF mqtt_connection_handler, TypeOK, PassCounts, Running
<1>2. CASE LosesConnection
  BY <1>2 DEF LosesConnection, TypeOK, PassCounts, Running
<1>3. CASE OnEnd
  BY <1>3 DEF OnEnd, TypeOK, PassCounts, Running
<1>4. ASSUME NEW l \in Loops, OnStart(l) PROVE PassCounts'
  BY <1>4 DEF OnStart, TypeOK, PassCounts, Running
<1>5. ASSUME NEW l \in Loops, Load(l) PROVE PassCounts'
  BY <1>5 DEF Load, TypeOK, PassCounts, Running
<1>6. ASSUME NEW l \in Loops, Ends(l) PROVE PassCounts'
  BY <1>6 DEF Ends, TypeOK, PassCounts, Running
<1>7. ASSUME NEW l \in Loops, Store(l) PROVE PassCounts'
  BY <1>7 DEF Store, TypeOK, PassCounts, Running
<1>8. ASSUME NEW l \in Loops, Dumps(l) PROVE PassCounts'
  BY <1>8 DEF Dumps, TypeOK, PassCounts, Running
<1>9. ASSUME NEW l \in Loops, Publish(l) PROVE PassCounts'
  BY <1>9 DEF Publish, TypeOK, PassCounts, Running
<1>10. CASE UNCHANGED vars
  BY <1>10 DEF vars, node, TypeOK, PassCounts, Running
<1> QED
  BY <1>1, <1>2, <1>3, <1>4, <1>5, <1>6, <1>7, <1>8, <1>9, <1>10 DEF Next, fw_loop

\* A loop that is told to stop passes the while once more at most.
LEMMA LateStays ==
  ASSUME TypeOK, LateIsLast, [Next]_vars
  PROVE  LateIsLast'
<1>1. CASE mqtt_connection_handler
  BY <1>1 DEF mqtt_connection_handler, TypeOK, LateIsLast
<1>2. CASE LosesConnection
  BY <1>2 DEF LosesConnection, TypeOK, LateIsLast
<1>3. CASE OnEnd
  BY <1>3 DEF OnEnd, TypeOK, LateIsLast
<1>4. ASSUME NEW l \in Loops, OnStart(l) PROVE LateIsLast'
  BY <1>4 DEF OnStart, TypeOK, LateIsLast
<1>5. ASSUME NEW l \in Loops, Load(l) PROVE LateIsLast'
  BY <1>5 DEF Load, TypeOK, LateIsLast
<1>6. ASSUME NEW l \in Loops, Ends(l) PROVE LateIsLast'
  BY <1>6 DEF Ends, TypeOK, LateIsLast
<1>7. ASSUME NEW l \in Loops, Store(l) PROVE LateIsLast'
  BY <1>7 DEF Store, TypeOK, LateIsLast
<1>8. ASSUME NEW l \in Loops, Dumps(l) PROVE LateIsLast'
  BY <1>8 DEF Dumps, TypeOK, LateIsLast
<1>9. ASSUME NEW l \in Loops, Publish(l) PROVE LateIsLast'
  BY <1>9 DEF Publish, TypeOK, LateIsLast
<1>10. CASE UNCHANGED vars
  BY <1>10 DEF vars, node, TypeOK, LateIsLast
<1> QED
  BY <1>1, <1>2, <1>3, <1>4, <1>5, <1>6, <1>7, <1>8, <1>9, <1>10 DEF Next, fw_loop

\* All that DummyFirmware's invariants rest on is inductive.
THEOREM DummyInvariant == Spec => []IInv
<1>1. ASSUME IInv, [Next]_vars PROVE IInv'
  BY <1>1, TypesStay, PassStays, LateStays DEF IInv
<1> QED
  BY <1>1, InitHolds, PTL DEF Spec

\* Type correctness of the dummy firmware for every bound.
THEOREM DummyTypes == Spec => []TypeOK
<1> QED
  BY DummyInvariant, PTL DEF IInv

\* While loops of the dummy firmware do not overlap, its reports are numbered
\* by their counters.
THEOREM ReportsAreNumbered == Spec => []ReportsNumberPasses
<1>1. IInv => ReportsNumberPasses
  BY DEF IInv, PassCounts, ReportsNumberPasses
<1> QED
  BY <1>1, DummyInvariant, PTL

\* No loop of the dummy firmware makes two reports after tasks/end, however
\* many loops there are.
THEOREM OneLateReport == Spec => []AtMostOneLateReport
<1>1. IInv => AtMostOneLateReport
  <2> SUFFICES ASSUME LateIsLast, NEW l \in Loops PROVE late[l] <= 1
    BY DEF IInv, AtMostOneLateReport
  <2>1. late[l] = 0 \/ late[l] = 1
    BY DEF LateIsLast
  <2> QED
    BY <2>1
<1> QED
  BY <1>1, DummyInvariant, PTL

=============================================================================
