SPECIFICATION FairSpec
CONSTANTS
  SinkCap = 1
  GossipCap = 1
  MaxPackets = 3
  MaxTitles = 0
CHECK_DEADLOCK FALSE
PROPERTY
  SendReturns
