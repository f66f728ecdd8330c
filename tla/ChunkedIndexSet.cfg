SPECIFICATION Spec
CONSTANTS
  MaxSize = 2
  Bound = 6
INVARIANTS
  Verified
  CountsOtherRows
