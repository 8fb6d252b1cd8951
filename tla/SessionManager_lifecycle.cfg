CONSTANTS
  Name = {n1}
  Client = {c1, c2}
  NoName = NoName
  NoClient = NoClient
  MaxTimers = 2
  PageLimit = 2
  Env = {"rest", "lose", "signal"}
SPECIFICATION FairSpec
PROPERTIES
  ShutdownEnds
  ReconnectHappens
  StartupEnds

