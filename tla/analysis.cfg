\* Every configuration of up to a few pieces per vendor, two audits of the device.
SPECIFICATION Spec
CONSTANTS
  noRequest = noRequest
  NoRequest = noRequest
  SubInterfaces <- SubIfs
  Vendors <- AllVendors
  Fragments <- Pieces
  MaxLines <- Lines
  MaxAudits = 2
  Requests <- AllRequests
  Ways <- AllWays
  Approvals <- Readings
INVARIANTS
  TypeOK
  EveryLineAccounted
  LastStatementDecides
  VerdictHasEvidence
  LearnedExplainsOnlyUnknown
  TemplateClears
  DriftAccounts
  FailsOnlyByMistyping
CHECK_DEADLOCK FALSE
