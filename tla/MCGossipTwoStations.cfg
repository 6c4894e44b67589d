SPECIFICATION Spec
CONSTANTS
  s = s
  t = t
  k = k
  l = l
  Stations = {s, t}
  Listeners = {l}
  Chosen <- Tuned
  Addrs = {wifi}
  MaxMsgs = 2
  MaxResent = 1
  MaxExpired = 1
CHECK_DEADLOCK FALSE
INVARIANT
  NoDuplicates
