SPECIFICATION LocksSpec
CONSTANTS
  a1 = a1
  a2 = a2
  r = r
  Adders = {a1, a2}
  Readers = {r}
INVARIANT LocksTypeOK DeadlockNeedsOutOfOrder
PROPERTY CallsReturn
CHECK_DEADLOCK FALSE
