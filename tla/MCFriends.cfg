\* Every interleaving of notifications, answers, refreshes and searches.
SPECIFICATION Spec
CONSTANTS
  Friend = {1, 2, 3}
  ObjectKey <- MCObjectKey
  Important = 2
  Name = {"Ann"}
  Text = {t}
  Matches <- MCMatches
  NoText = NoText
INVARIANTS
  TypeOK
  TableOneCommitBehind
  OneLoadPerKind
PROPERTIES
  BatchCrashCauses
  FailedRefreshIsTerminal
  TableCatchesUp
  AnsweredRefreshEnds
