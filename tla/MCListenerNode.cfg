SPECIFICATION FairSpec
CONSTANTS
  GossipCap = 1
  AudioCap = 2
  MaxMsgs = 5
CHECK_DEADLOCK FALSE
INVARIANTS
  TypeOK
  NothingLost
PROPERTIES
  KeepsIntake
  NoneMeansInterrupted
  SwarmUnblocked
  InterruptEnds
  FailureEnds
