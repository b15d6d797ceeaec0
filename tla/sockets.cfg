SPECIFICATION LiveSpec
CONSTANTS
  w1 = w1
  w2 = w2
  Worker = {w1, w2}
  Socket = {s1, s2}
  Message = {m1, m2}
  home <- Homes
INVARIANTS
  TypeOK
  IndexesAreRight
  ChannelAtMostOnce
PROPERTIES
  RelayReachesChannel
