SPECIFICATION Spec
CONSTANTS
  Key = {1, 2, 3}
  MaxWritten = 1
  MaxCommits = 1
INVARIANT PrefersFewerModified
