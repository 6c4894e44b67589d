SPECIFICATION FairSpec
CONSTANTS
  Byte <- MCByte
  Utf8 <- MCUtf8
  Strays <- MCStrays
  Lead = 1
  AudioCap = 1
  MaxPackets = 3
  MaxTitles = 2
  MaxAir = 2
  MaxFaults = 1
CHECK_DEADLOCK FALSE
INVARIANTS
  TypeOK
  PlaysInOrder
  TitleLead
  StaleOnlyIfMissed
PROPERTY
  TitleArrives
