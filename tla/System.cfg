SPECIFICATION FairSpec
CONSTANTS
  Node = Node
  Task = Task
  NoTask = NoTask
  NoNode = NoNode
  NodeIds <- Nodes1
  TaskIds <- Tasks1
  Counters <- NoReports
  MaxQueued = 2
  MaxInFlight = 2
  MaxFaults = 3
INVARIANTS
  TypeOK
  ConsumerSurvives
  NodeObeysRegistry
PROPERTIES
  RunsEnd
