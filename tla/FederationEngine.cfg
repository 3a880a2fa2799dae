SPECIFICATION FairSpec
CONSTANTS
  Threshold = 3
  MaxMessages = 2
  MaxSignals = 3
INVARIANTS
  NotMute
PROPERTIES
  Ends
  Recovers
CHECK_DEADLOCK FALSE
