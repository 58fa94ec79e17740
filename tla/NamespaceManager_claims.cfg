\* Two owners race for the paths, one of which the server owns; a claim can expire.
CONSTANTS
  Paths = {p, sys}
  SystemPaths = {sys}
  Owners = {a, b}
  System = System
  Tasks = {t1, t2}
  Never = Never
  NoBlock = NoBlock
  MaxCalls = 4
  MaxTime = 1
SPECIFICATION Spec
SYMMETRY MCSymmetry
CHECK_DEADLOCK FALSE
INVARIANT TypeOK
INVARIANT ClaimsInLog
PROPERTY ClaimsHonoured
