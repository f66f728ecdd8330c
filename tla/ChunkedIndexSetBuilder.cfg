SPECIFICATION Spec
CONSTANTS
  MaxSize = 2
  Bound = 6
INVARIANT CountsVerified
