SPECIFICATION FairSpec
CONSTANTS
  Uids = {"u"}
  Groups = {"a", "b"}
  Anon = "anon"
  ServerId = "self"
  PeerId = "peer"
  Miss = Miss
  Admitted = {{"a"}}
  MaxSent = 2
  MaxInjected = 1
  MaxChanges = 1

  
  
PROPERTIES
  
  LocalEventsLeave
CHECK_DEADLOCK FALSE
