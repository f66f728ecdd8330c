\* One load of the feed raced with the layouts of the table.  Both end.
SPECIFICATION Spec
CONSTANTS
  Nil = Nil
  Feed <- MCFeed
CHECK_DEADLOCK FALSE
INVARIANTS
  TypeOK
  SectionsFollowFeed
  LayoutStaysInBounds
PROPERTY FeedIsShown
