SPECIFICATION Spec
CONSTANTS
  None = None
  Malformed = Malformed
  Configs <- MCConfigs
  Groups <- MCGroups
  Announcements <- MCAnnouncements
INVARIANTS
  TypeOK
  
  
PROPERTY
  PolicyFromOwnSectionOnly
CHECK_DEADLOCK FALSE
