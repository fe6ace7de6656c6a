SPECIFICATION Spec
CONSTANTS
  k1 = k1  k2 = k2  c1 = c1  c2 = c2  t1 = t1  t2 = t2  f1 = f1  f2 = f2
  Control = {k1, k2}
  Campaign = {c1}
  Target = {t1}
  Finding = {f1}
  Worker = {w1, w2}
  Request = {r1, r2}
  ControlOf <- ControlMap
  CampaignOf <- OwnerMap
  FindingOf <- FindingMap
  Local = FALSE
  PollLimit = 1
  MaxMessages = 2
  MaxFaults = 1
SYMMETRY Symmetry
INVARIANTS
  TypeOK
  VerifiedHasEvidence
PROPERTIES
  PendingUntilApproved
  PromiseKept
CHECK_DEADLOCK FALSE
