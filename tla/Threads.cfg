SPECIFICATION Spec
CONSTANTS
  n1 = n1
  n2 = n2
  t1 = t1
  t2 = t2
  NoTask = NoTask
  NoNode = NoNode
  NodeIds <- Nodes1
  TaskIds <- Tasks1
  Counters <- Reports1
INVARIANTS
  SeparateConnections
