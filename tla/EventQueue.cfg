SPECIFICATION FairSpec
CONSTANTS
  Capacity = 2
  MaxSeq = 4
  c1 = c1
  c2 = c2
  Consumers = {c1, c2}
INVARIANTS NoLostWakeup NumbersAccounted
PROPERTIES ImplementsFifo ConsumersServed
CHECK_DEADLOCK FALSE
