SPECIFICATION FairSpec
CONSTANTS
  Thread = {t1, t2, t3}
  Event = {e1, e2}
  Capacity = 2
  MaxPuts = 4
INVARIANTS
  NoLostWakeup
PROPERTIES
  ImplementsMailbox
  DrainExits
CHECK_DEADLOCK FALSE
