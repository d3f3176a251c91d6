-------------------------- MODULE MCSensorsService --------------------------
(* Instances of SensorsService for TLC. *)
EXTENDS SensorsService

CONSTANTS n1, n2, t1, t2

Nodes1 == {n1}
Nodes2 == {n1, n2}
Tasks1 == {t1}
Tasks2 == {t1, t2}

NoReports == {0}
Reports1  == 0..1

=============================================================================
