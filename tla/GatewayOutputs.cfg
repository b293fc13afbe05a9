SPECIFICATION FairSpec
CONSTANTS
  Sessions = {1, 2}
  BatchSize = 2
  GuestPlans <- MCGuestPlans
  AuditBatch = 2
  AuditPlans <- MCAuditPlans
  MaxFiles = 2
  FilePlans <- MCFilePlans
  LogPlans <- MCLogPlans
INVARIANTS AcknowledgedKept AuditKept VerdictsObserved FilesKept
PROPERTIES OutputsProgress
CHECK_DEADLOCK FALSE
