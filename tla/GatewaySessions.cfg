SPECIFICATION FairSpec
CONSTANTS
  alice = alice  bob = bob  vm1 = vm1  vm2 = vm2
  Slots = 3
  Users = {alice, bob}
  VMs = {vm1, vm2}
  Limit = 1
  TTL = 2
  Grace = 1
  Plans <- SessionPlans
INVARIANTS ConnectionsAccounted EndsOrderly
PROPERTIES SpentOnce EndIsRecorded
CHECK_DEADLOCK FALSE
