SPECIFICATION Spec
CONSTANTS
  MaxLoads = 2
  MaxPolls = 1
  MaxUnpairs = 1
  MaxFires = 2
  Call = {c1}
  e1 = e1
  e2 = e2
  l1 = l1
  l2 = l2
  Event = {e1, e2}
  Listener = {l1, l2}
  EventOf <- MCEventOf
INVARIANTS
  PageIsSound
  ResolvedHadEffect
  HeardInOrder
PROPERTIES
  SettledIsQuiet
  PageSettles
  UnpairIsTold
CHECK_DEADLOCK FALSE
