SPECIFICATION Spec
CONSTANTS
  SegmentSize = 2
  MaxSize = 4
  MaxSeq = 4
  MaxFaults = 1
  Environments <- FragmentEnvironments
INVARIANTS AcceptedRecovered
CHECK_DEADLOCK FALSE
