SPECIFICATION Spec
CONSTANTS
  Sessions = {1, 2}
  BatchSize = 2
  GuestPlans <- CheckpointPlans
  AuditBatch = 2
  AuditPlans <- RestingAudit
  MaxFiles = 2
  FilePlans <- RestingFile
  LogPlans <- RestingLog
INVARIANT AcknowledgedKept
CHECK_DEADLOCK FALSE
