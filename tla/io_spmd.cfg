SPECIFICATION FairSpec
CONSTANTS
  Servers = {"s1", "s2"}
  Group <- TwoServers
  Paths = {"f"}
  DimNames = {}
  VarNames = {"v"}
  TextVars = {}
  Misuse = {}
  ByteBits = 2
  MaxCalls = 6
  MaxAhead = 1
  CreateFails = FALSE
INVARIANTS TypeOK RoundsClean SameIds
PROPERTIES DirectSpec CallsHandled
