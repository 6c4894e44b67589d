SPECIFICATION Spec
CONSTANTS
  GossipCap = 1
  AudioCap = 1
  MaxMsgs = 1
CHECK_DEADLOCK FALSE
INVARIANT
  ErrorMeansFault
