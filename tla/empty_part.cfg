SPECIFICATION Spec
CONSTANTS
  NDims = 2
  NumParts = 2
  Starts = {0, 1, 2}
  Counts = {0, 1, 2}
INVARIANTS OnlyParts
