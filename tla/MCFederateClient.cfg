SPECIFICATION FairSpec
CONSTANTS
  None = None
  Malformed = Malformed
  Fingerprint = {"fp", "fq", "fx"}
  Registry <- MCRegistry
  LocalGroups <- MCLocalGroups
  WireGroups <- MCWireGroups
  AllowDelete = FALSE
  MaxSends = 2
  MaxLosses = 1
INVARIANTS
  ActiveIsBound
  StreamsToVerifiedPeer
  
  WrittenInOrderOnce
PROPERTIES
  DrainsWhileOpen
  
  StopReleases
CHECK_DEADLOCK FALSE
