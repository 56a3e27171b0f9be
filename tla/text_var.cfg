SPECIFICATION Spec
CONSTANTS
  Servers = {"s1"}
  Group <- OneServer
  Paths = {"f"}
  DimNames = {}
  VarNames = {"v"}
  TextVars = {"v"}
  Misuse = {}
  ByteBits = 2
  MaxCalls = 6
  MaxAhead = 2
  CreateFails = FALSE
INVARIANTS AsProgrammed
