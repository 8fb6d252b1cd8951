CONSTANTS
  Name = {n1, n2}
  Client = {c1, c2}
  NoName = NoName
  NoClient = NoClient
  MaxTimers = 1
  PageLimit = 2
  Env = {"unpair", "signal"}
SYMMETRY SymmetryOfNames
SPECIFICATION Spec
PROPERTIES
  RegistrySpec
CHECK_DEADLOCK FALSE
