SPECIFICATION Spec
CONSTANTS
  SegmentSize = 2
  MaxSize = 3
  MaxSeq = 4
  MaxFaults = 1
  Environments <- AgentEnvironments
INVARIANTS LossesCovered SpoolSound SurvivesCrash
CHECK_DEADLOCK FALSE
