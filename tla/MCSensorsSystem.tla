-------------------------- MODULE MCSensorsSystem --------------------------
(* An instance of SensorsSystem for TLC. *)
EXTENDS SensorsSystem

Nodes1 == {Node}
Tasks1 == {Task}
NoReports == {0}

=============================================================================
