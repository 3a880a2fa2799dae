SPECIFICATION FairSpec
CONSTANTS
  None = None
  Malformed = Malformed
  EventStreams = {"e1", "e2", "ex"}
  PushStreams = {"push"}
  OneShots = {"one"}
  GroupStreams = {"hold"}
  Cert <- MCCert
  Registry <- MCRegistry
  LocalGroups <- MCLocalGroups
  WireGroups <- MCWireGroups
  AllowDelete = FALSE
  MaxWorkers = 2
  MaxCalls = 3
  MaxEvents = 1
INVARIANTS
  UnderPolicy
  LinksFollowCalls
  NoEchoToSource
  StreamedInOrderOnce
PROPERTIES
  ReachesStreams
  EndsWithCall
CHECK_DEADLOCK FALSE
