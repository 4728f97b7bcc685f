\* Reading and merging small configuration files.
SPECIFICATION Spec
CONSTANTS
  MaxBlocks = 4
  Required = 113
  Simsets <- MCSimsets
INVARIANTS
  HandlerMeetsCache
  RefusedExactly
CHECK_DEADLOCK FALSE
