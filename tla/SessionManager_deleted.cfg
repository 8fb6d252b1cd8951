CONSTANTS
  Name = {n1}
  Client = {c1}
  NoName = NoName
  NoClient = NoClient
  MaxTimers = 1
  PageLimit = 1
  Env = {"rest", "lose"}
SPECIFICATION Spec
INVARIANT OperationalErrorsContained
CHECK_DEADLOCK FALSE
