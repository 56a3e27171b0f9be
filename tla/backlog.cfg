SPECIFICATION Spec
CONSTANTS
  ClientNum = 2
  MaxReqs = 2
  Backlog = 1
INVARIANTS NoRejection
