CONSTANTS
  Count = 4
  Limit = 2
SPECIFICATION ParallelSpec
INVARIANT LimitRespected
CHECK_DEADLOCK FALSE
