SPECIFICATION Spec
\* The user may stop, and the bound on the versions stops the writes.
CHECK_DEADLOCK FALSE
CONSTANTS
  Notifier = {a, b}
  MaxVersion = 3
INVARIANTS
  TypeOK
  HandedOverTogether
  ComparedFromOneVersion
  WorkerAsserts
  OneCommitPerCall
  DeliveredInItsVersion
PROPERTIES
  WorkerOnlyAdvances
  KeepsThePromise
  WriterBegins
