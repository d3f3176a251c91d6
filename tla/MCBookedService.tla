-------------------------- MODULE MCBookedService --------------------------
(* An instance of BookedService for TLC. *)
EXTENDS BookedService

CONSTANTS n1, n2, t1, t2

Nodes2 == {n1, n2}
Tasks2 == {t1, t2}
Reports1 == 0..1

\* What TaskBoard does not see is left to the runs of SensorsService: requests
\* for the nodes' status, exchanges that come and go, and questions once the
\* server is up (a node may still announce itself).
Focus ==
  /\ amqp.pc \notin {"listing", "publish"}
  /\ exchange
  /\ main = "joining" => discover = {}

=============================================================================
