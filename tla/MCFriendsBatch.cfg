\* The updates made from Realm's change sets are accepted by the table.
SPECIFICATION Spec
CONSTANTS
  Friend = {1, 2, 3}
  ObjectKey <- MCObjectKey
  Important = 2
  Name = {"Ann"}
  Text = {t}
  Matches <- MCMatches
  NoText = NoText
INVARIANT BatchUpdatesAccepted
