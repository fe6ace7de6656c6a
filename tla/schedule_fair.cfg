SPECIFICATION FairSpec
CONSTANTS
  Schedule = {s1}
  Credential = {c1}
  TypeOf <- OneType
  None = None
  Poller = {p1}
  Worker = {w1, w2}
  Request = {}
  Bodies <- Edits
  Threshold = 2
  MaxRetries = 1
  MaxMessages = 1
  MaxPatches = 0
  MaxFaults = 1
PROPERTIES DueIsServed DeadDeviceQuarantined
CHECK_DEADLOCK FALSE
