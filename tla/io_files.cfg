SPECIFICATION Spec
CONSTANTS
  Servers = {"s1"}
  Group <- OneServer
  Paths = {f, g}
  DimNames = {"d"}
  VarNames = {"v"}
  TextVars = {}
  Misuse = {"late"}
  ByteBits = 2
  MaxCalls = 7
  MaxAhead = 1
  CreateFails = FALSE
  f = f
  g = g
SYMMETRY FilesAlike
INVARIANTS AsProgrammed SameIds InquiriesRight
