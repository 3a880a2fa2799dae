SPECIFICATION PluginFairSpec
CONSTANTS
  MAX_RESTART_COUNT = 5
  NoEngine = NoEngine
INVARIANTS
  PluginTypeOK
  OneEngine
  
PROPERTY
  Restarted
CHECK_DEADLOCK FALSE
