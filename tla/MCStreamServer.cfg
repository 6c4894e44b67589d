SPECIFICATION FairSpec
CONSTANTS
  Clients = {c1, c2}
  Sink = sink
  Free = free
  Capacity = 2
  MaxPages = 5
INVARIANTS
  TypeOK
  CacheIsCurrent
  InOrderOnce
  HeadersBeforeAudio
PROPERTIES
  KeepsPromise
  CatchesUp
  MutexReleased
