SPECIFICATION FairSpec
CONSTANTS
  None = None
  Malformed = Malformed
  Node <- MCNode
  Dial <- MCDial
  Registry <- MCRegistry
  MaxHops <- MCMaxHops
  PeerMaxHops <- MCPeerMaxHops
  LocalGroups <- MCLocalGroups
  MaxEvents = 1
  MaxLosses = 1
INVARIANTS
  SimplePaths
  Ceilings
  GroupsFollowPolicy
  ReachesEveryone
CHECK_DEADLOCK FALSE
PROPERTIES
  Quiesces
