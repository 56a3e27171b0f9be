SPECIFICATION Spec
CONSTANTS
  MaxSide = 6
  Ratios = {2}
INVARIANTS NearestAccepted
