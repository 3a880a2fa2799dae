SPECIFICATION Spec
CONSTANTS
  MaxGenerations = 2
INVARIANTS
  HandOutsAccepted
  LoadedMatch
PROPERTIES
  NoClobber
