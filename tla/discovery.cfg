SPECIFICATION Spec
CONSTANTS
  ns = ns  na = na  nb = nb  nc = nc  nd = nd  nx = nx
  Address = {ns, na, nb, nc, nd}
  Unsafe = {nx}
  Seed = ns
  Neighbors <- Topology
  Loginable = {na, nb, nc}
  Contested = {na, ns}
  User = {u1, u2}
  Starter = u1
  Request = {r1, r2}
  Walk = walk0
  Nobody = Nobody
  NoDevice = NoDevice
  Limits <- Bounds
  MaxRequests = 2
  MaxFaults = 1
  Granted = {"operator"}
INVARIANTS
  TypeOK
  BoundedWalk
  ShortestEvidence
  AccessAuthorized
  ImportsOwned
  AuditedOnce
  AwaitingCanContinue
PROPERTIES OwnerKept
CHECK_DEADLOCK FALSE
