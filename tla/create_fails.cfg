SPECIFICATION Spec
CONSTANTS
  Servers = {"s1"}
  Group <- OneServer
  Paths = {"f"}
  DimNames = {}
  VarNames = {"v"}
  TextVars = {}
  Misuse = {}
  ByteBits = 2
  MaxCalls = 6
  MaxAhead = 2
  CreateFails = TRUE
INVARIANTS NoAbort
