SPECIFICATION FairSpec
CONSTANTS
  l1 = l1
  l2 = l2
  Loops <- Loops2
  MaxCount = 3
INVARIANTS
  TypeOK
  ReportsNumberPasses
  AtMostOneLateReport
PROPERTIES
  EndStopsAllLoops
