CONSTANTS
  Name = {n1}
  Client = {d1, d2}
  NoName = NoName
  NoClient = NoClient
  Task = {k1, k2}
  MaxAttempts = 2
  MaxTimers = 1
SPECIFICATION SessionsFairSpec
INVARIANTS
  SessionsAreSound
PROPERTIES
  SessionsRegistrySpec
  LostIsRetried
  SigintEnds
CHECK_DEADLOCK FALSE
