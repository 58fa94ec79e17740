SPECIFICATION Spec
CONSTANTS
  a = a
  b = b
  v1 = v1
  v2 = v2
  bad = bad
  c1 = c1
  c2 = c2
  r1 = r1
  Names = {a}
  Paths = {a, b}
  Data = {v1, v2, bad}
  Invalid = {bad}
  Failing = {v2}
  Callers = {c1, c2}
  Readers = {r1}
  Workers = 1
  MaxCalls = 3
INVARIANT TypeOK EnabledServesInstalled InvocationsServed
CHECK_DEADLOCK FALSE
PROPERTY CallsReturn RemovedTranslatorsEnd
