SPECIFICATION Spec
CONSTANTS
  s = s
  t = t
  k = k
  l = l
  Stations = {s, t}
  Listeners = {l}
  Chosen <- Tuned
  Addrs = {wifi}
  MaxMsgs = 1
  MaxResent = 1
  MaxExpired = 0
CHECK_DEADLOCK FALSE
INVARIANT
  OnlyChosenHeard
