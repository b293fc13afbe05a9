SPECIFICATION Spec
CONSTANTS
  Sessions = {1, 2}
  BatchSize = 2
  GuestPlans <- RestingGuests
  AuditBatch = 2
  AuditPlans <- RejectedPlans
  MaxFiles = 2
  FilePlans <- RestingFile
  LogPlans <- RestingLog
INVARIANT AuditKept
CHECK_DEADLOCK FALSE
