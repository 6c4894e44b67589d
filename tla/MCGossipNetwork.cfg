SPECIFICATION Spec
CONSTANTS
  s = s
  t = t
  k = k
  l = l
  Stations = {s}
  Listeners = {k, l}
  Chosen <- Tuned
  Addrs = {wifi}
  MaxMsgs = 2
  MaxResent = 1
  MaxExpired = 1
SYMMETRY ListenerSymmetry
CHECK_DEADLOCK FALSE
INVARIANTS
  TypeOK
  OwnInOrder
  OnlyRelaysSwallow
PROPERTY
  LossEnds
