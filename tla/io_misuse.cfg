SPECIFICATION Spec
CONSTANTS
  Servers = {"s1"}
  Group <- ThreeClients
  Paths = {"f"}
  DimNames = {"d"}
  VarNames = {"v"}
  TextVars = {}
  Misuse = {"early", "late"}
  ByteBits = 2
  MaxCalls = 6
  MaxAhead = 2
  CreateFails = TRUE
INVARIANTS BitsHaveParts SizesAgree

