CONSTANTS
  Name = {n1}
  Client = {c1, c2}
  NoName = NoName
  NoClient = NoClient
  MaxTimers = 2
  PageLimit = 1
  Env = {"rest", "unpair", "lose", "signal"}
SYMMETRY Symmetry
SPECIFICATION Spec
INVARIANTS
  ManagerIsSound
PROPERTIES
  NoResurrection
  RegistrySpec

