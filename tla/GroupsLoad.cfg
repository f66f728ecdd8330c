\* Every interleaving of loadData, its blocks, the completions and notify.
\* A load happens once, so the system stops.
SPECIFICATION Spec
CHECK_DEADLOCK FALSE
INVARIANTS
  TypeOK
  CountIsObligations
  NotifyAfterBoth
  FailureIsNeverReported
PROPERTIES
  ErrorsOnlyInWindow
  ReportSpec
  AnsweredLoadIsReported
