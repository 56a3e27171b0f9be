SPECIFICATION Spec
CONSTANTS
  ClientNum = 2
  MaxReqs = 2
  Backlog = 2
INVARIANTS CqFits
