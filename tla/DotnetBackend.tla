--------------------------- MODULE DotnetBackend ---------------------------
(***************************************************************************)
(* The backend of dotnet-service/Program.cs: a few attempts to start the   *)
(* bus, then start and end requests for one node and one task, for ever.   *)
(* All requests of a queue are alike, so a queue is the number of them.    *)
(***************************************************************************)
EXTENDS Naturals

CONSTANT MaxQueued   \* bound: requests waiting in each queue

VARIABLES
  backend,           \* where MainAsync is: the request it sends next
  numberOfRetries,
  startTask,         \* requests in the queues startTask and endTask
  endTask

queues == <<startTask, endTask>>
vars == <<backend, numberOfRetries, queues>>

Init ==
  /\ backend = "connecting"
  /\ numberOfRetries = 4
  /\ startTask = 0
  /\ endTask = 0

\* numberOfRetries is not read after the break, so it is put back.
StartAsync ==
  /\ backend = "connecting"
  /\ backend' = "start"
  /\ numberOfRetries' = 4
  /\ UNCHANGED queues

StartAsyncThrows ==
  /\ backend = "connecting"
  /\ numberOfRetries' = numberOfRetries - 1
  /\ backend' = IF numberOfRetries' = 0 THEN "failed" ELSE "connecting"
  /\ UNCHANGED queues

\* Mutant: the start request is sent in the first cycle only.
SendStartOnce ==
  /\ backend = "start"
  /\ startTask < MaxQueued
  /\ startTask' = IF numberOfRetries = 4 THEN startTask + 1 ELSE startTask
  /\ numberOfRetries' = 0
  /\ backend' = "end"
  /\ UNCHANGED endTask

SendStart ==
  /\ backend = "start"
  /\ startTask < MaxQueued
  /\ startTask' = startTask + 1
  /\ backend' = "end"
  /\ UNCHANGED <<numberOfRetries, endTask>>

SendEnd ==
  /\ backend = "end"
  /\ endTask < MaxQueued
  /\ endTask' = endTask + 1
  /\ backend' = "start"
  /\ UNCHANGED <<numberOfRetries, startTask>>

\* catch {}: the cycle begins anew, whether the request that failed has reached
\* the broker or not.
Throws ==
  /\ backend \in {"start", "end"}
  /\ backend' = "start"
  /\ UNCHANGED numberOfRetries
  /\ \/ UNCHANGED queues
     \/ /\ backend = "start" /\ startTask < MaxQueued
        /\ startTask' = startTask + 1
        /\ UNCHANGED endTask
     \/ /\ backend = "end" /\ endTask < MaxQueued
        /\ endTask' = endTask + 1
        /\ UNCHANGED startTask

Next == StartAsync \/ StartAsyncThrows \/ SendStart \/ SendEnd \/ Throws

=============================================================================
