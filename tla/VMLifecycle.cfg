SPECIFICATION FairSpec
CONSTANTS
  Procs = {0, 1, 2}
  Boot = 0
  Keys = {1, 2, 3}
  Entries = {1, 2, 3}
  Nil = 0
  Owner <- Owners
  Limit = 1
  Addresses = {1}
  Plans <- VMPlans
INVARIANTS MutualExclusion NothingOrphaned QuotaHeld MachinesWhole
PROPERTIES EveryoneReturns
CHECK_DEADLOCK FALSE
