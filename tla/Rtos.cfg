SPECIFICATION FairSpec
CONSTANTS
  s1 = s1
  s2 = s2
  Senders <- Senders2
  Null = Null
  NoReport = NoReport
  MaxCount = 2
INVARIANTS
  TypeOK
  HandleIsLive
  OneSender
  LagIsUnseen
  NewestIsOwed
  WithheldOnlyByRace
PROPERTIES
  SenderCatchesUp
