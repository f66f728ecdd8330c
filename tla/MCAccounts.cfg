\* Launches, sign-ins of two accounts, the loads of the screens.
SPECIFICATION Spec
CONSTANTS
  ann = ann
  bob = bob
  one = one
  two = two
  f1 = f1
  f2 = f2
  f3 = f3
  junk = junk
  Empty = Empty
  Absent = Absent
  Bare = Bare
  Value <- MCValue
  Number <- MCNumber
  Account <- MCAccount
  Friend <- MCFriend
  FriendsOf <- MCFriendsOf
  Fragment <- MCFragment
INVARIANTS
  TypeOK
  RequestsAreOfTheSession
  ClearedOfOtherAccounts
PROPERTY OnlyOwnFriendsAreAdded
