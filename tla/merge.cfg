SPECIFICATION Spec
CONSTANTS
  NDims = 3
  NumParts = 2
  Starts = {0, 1}
  Counts = {0, 1, 2}
INVARIANTS BoxTight InBounds MergedRight
