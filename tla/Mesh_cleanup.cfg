\* Two nodes that dial each other while connections fail.
CONSTANTS
  a = a
  b = b
  Nodes <- MCNodes
  Links <- MCLinks
  MaxConns = 2
  MaxCalls = 1
SPECIFICATION Spec
CHECK_DEADLOCK FALSE
INVARIANT TypeOK
INVARIANT ListedHaveEntries
PROPERTY CleanupEnds
