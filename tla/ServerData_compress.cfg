CONSTANTS
  Backup = {b1, b2}
  MaxCrashes = 1
SPECIFICATION DataSpec
INVARIANT CompressedAreCompleted
CHECK_DEADLOCK FALSE
