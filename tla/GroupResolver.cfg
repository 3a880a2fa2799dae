SPECIFICATION ResolverSpec
CONSTANTS
  Threads = {"firehose", "drain"}
  Handles = {1, 2, 3}
  None = None
INVARIANTS
  FailsForAReason
