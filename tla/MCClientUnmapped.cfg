SPECIFICATION Spec
CONSTANTS
  None = None
  Malformed = Malformed
  Fingerprint = {"fp", "fq", "fx"}
  Registry <- MCRegistry
  LocalGroups <- MCLocalGroups
  WireGroups <- MCWireGroups
  AllowDelete = FALSE
  MaxSends = 2
  MaxLosses = 1
INVARIANT
  EveryCopyMapped
CHECK_DEADLOCK FALSE
