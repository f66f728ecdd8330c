\* Answers that rename friends a search has found, and the list as a FriendCache.
SPECIFICATION Spec
CONSTANTS
  Friend = {1, 2}
  ObjectKey <- MCObjectKey
  Important = 1
  Name = {"Ann", "Bob"}
  Text = {t}
  Matches <- MCMatches
  NoText = NoText
INVARIANTS
  OneCommitPerNotification
PROPERTIES
  CellTrapBeforeNotification
  CacheSpec
