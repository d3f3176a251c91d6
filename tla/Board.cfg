SPECIFICATION FairBookingSpec
CONSTANTS
  n1 = n1
  n2 = n2
  t1 = t1
  t2 = t2
  NoTask = NoTask
  NoNode = NoNode
  NodeIds <- Nodes2
  TaskIds <- Tasks2
  Counters <- Reports1
PROPERTIES
  ImplementsTaskBoard
CONSTRAINT
  Focus
