SPECIFICATION Spec
CONSTANTS
  c1 = c1  l1 = l1  l2 = l2  k1 = k1  k2 = k2  good = good  custom = custom
  Config = {c1}
  Line = {l1, l2}
  Field = {good, custom}
  Key = {k1, k2}
  Worker = {w1, w2}
  Request = {r1}
  LinesOf <- TwoLines
  KeyOf <- OwnKeys
  Assignable <- SchemaOnly
  MaxTasks = 3
  MaxFaults = 0
INVARIANTS
  ResumeNotLost
CHECK_DEADLOCK FALSE
