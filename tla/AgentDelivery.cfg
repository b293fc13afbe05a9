SPECIFICATION FairSpec
CONSTANTS
  MaxUnacked = 2
  Plans <- DeliveryPlans
INVARIANTS EventsAccounted StreamSound
PROPERTIES SettlesAndStops
CHECK_DEADLOCK FALSE
