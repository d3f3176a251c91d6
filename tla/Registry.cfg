SPECIFICATION FairSpec
CONSTANTS
  n1 = n1
  n2 = n2
  t1 = t1
  t2 = t2
  NoTask = NoTask
  NoNode = NoNode
  NodeIds <- Nodes2
  TaskIds <- Tasks2
  Counters <- NoReports
INVARIANTS
  TypeOK
  RegistryBijective
  NoKeyError
  CommandsMatchRegistry
  StatusReplyMatchesCommands
  ReadyBeforeServing
PROPERTIES
  ConsumerStarts
  UnknownNodeIsFound
