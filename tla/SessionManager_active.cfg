CONSTANTS
  Name = {n1}
  Client = {c1}
  NoName = NoName
  NoClient = NoClient
  MaxTimers = 1
  PageLimit = 1
  Env = {"lose"}
SPECIFICATION Spec
INVARIANT ActiveIsLive
CHECK_DEADLOCK FALSE
