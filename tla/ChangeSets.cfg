SPECIFICATION Spec
CONSTANTS
  Key = {1, 2, 3, 4}
  MaxWritten = 1
  MaxCommits = 2
INVARIANTS
  ReportsChanges
  SetApplies
  SetReloads
PROPERTY AnyMovesSpec
