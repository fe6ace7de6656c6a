SPECIFICATION FairSpec
CONSTANTS
  s = s  a = a  b = b  c = c  d = d  x = x  y = y
  Address = {s, a, x}
  Seed = s
  Neighbours <- Pair
  InScope = {s, a, x}
  Identified = {s, a, x}
  Foreign = {x}
  MaxDepth = 2
  MaxDevices = 2
  PollLimit = 1
  Worker = {w1, w2}
  Request = {r1}
  MaxStarts = 1
  MaxMessages = 2
  MaxFaults = 1
INVARIANTS
  TypeOK
  AuthorizedOnly
PROPERTIES
  MissionAnswered
CHECK_DEADLOCK FALSE
