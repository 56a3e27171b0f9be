SPECIFICATION Spec
CONSTANTS
  Servers = {"s1"}
  Group <- OneServer
  Paths = {"f"}
  DimNames = {"d"}
  VarNames = {"v"}
  TextVars = {}
  Misuse = {"late"}
  ByteBits = 2
  MaxCalls = 5
  MaxAhead = 1
  CreateFails = FALSE
INVARIANTS AnswersAreFiled
