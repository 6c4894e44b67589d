SPECIFICATION FairSpec
CONSTANTS
  SinkCap = 1
  GossipCap = 1
  MaxPackets = 2
  MaxTitles = 2
CHECK_DEADLOCK FALSE
INVARIANTS
  TypeOK
  NothingLost
PROPERTIES
  KeepsFeed
  NoneMeansInterrupted
  TitleDelivered
  AlwaysEnds
