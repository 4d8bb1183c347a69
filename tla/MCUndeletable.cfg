CONSTANTS
  Leaver = "C"
  Partner = "P"
  MaxCalls = 2
SPECIFICATION DeletionSpec
INVARIANT DeletionsComplete
CHECK_DEADLOCK FALSE
