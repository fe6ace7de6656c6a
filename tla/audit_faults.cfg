SPECIFICATION FairSpec
CONSTANTS
  c1 = c1  l1 = l1  l2 = l2  k1 = k1  k2 = k2  good = good  custom = custom
  Config = {c1}
  Line = {l1, l2}
  Field = {good, custom}
  Key = {k1, k2}
  Worker = {w1, w2}
  Request = {r1, r2}
  LinesOf <- TwoLines
  KeyOf <- SharedKey
  Assignable <- SchemaOnly
  MaxTasks = 2
  MaxFaults = 2
INVARIANTS
  TypeOK
  CompleteIsTrained
  ConfirmedIsApproved
PROPERTIES
  PromiseKept
  QueuedIsAnswered
  ResumeIsAnswered
CHECK_DEADLOCK FALSE
