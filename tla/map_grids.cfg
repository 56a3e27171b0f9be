SPECIFICATION Spec
CONSTANTS
  MaxSide = 12
  Ratios = {1, 2, 3, 4, 6, 8, 16, 200}
INVARIANTS TypeOK Lookups SearchExact
