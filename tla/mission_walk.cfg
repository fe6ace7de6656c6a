SPECIFICATION FairSpec
CONSTANTS
  s = s  a = a  b = b  c = c  d = d  x = x  y = y
  Address = {s, a, b, c, d, x, y}
  Seed = s
  Neighbours <- TwoWays
  InScope = {s, a, b, c, d, x}
  Identified = {s, a, b, c, d, x, y}
  Foreign = {x}
  MaxDepth = 3
  MaxDevices = 5
  PollLimit = 0
  Worker = {w1, w2}
  Request = {}
  MaxStarts = 2
  MaxMessages = 0
  MaxFaults = 1
INVARIANTS
  WithinBounds
  ShortestDepth
  OneTraversal
PROPERTIES
  TraversalEnds
CHECK_DEADLOCK FALSE
