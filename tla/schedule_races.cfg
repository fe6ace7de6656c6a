SPECIFICATION Spec
CONSTANTS
  Schedule = {s1}
  Credential = {c1}
  TypeOf <- OneType
  None = None
  Poller = {p1, p2}
  Worker = {w1, w2}
  Request = {r1}
  Bodies <- Edits
  Threshold = 2
  MaxRetries = 1
  MaxMessages = 1
  MaxPatches = 1
  MaxFaults = 1
SYMMETRY Symmetry
INVARIANTS
  TypeOK
  EnabledHasCredential
  DispatchedOnce
CHECK_DEADLOCK FALSE
