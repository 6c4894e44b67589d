SPECIFICATION FairSpec
CONSTANTS
  s = s
  t = t
  k = k
  l = l
  Stations = {s}
  Listeners = {k, l}
  Chosen <- Tuned
  Addrs = {wifi}
  MaxMsgs = 1
  MaxResent = 1
  MaxExpired = 0
CHECK_DEADLOCK FALSE
PROPERTY
  HelpsDistribute
