SPECIFICATION Spec
CONSTANTS
  Tasks = {t1}
  MaxBlocks = 6
  ReusableIds = {1}
  Payloads <- MCNoOps
  MaxParents = 2
  CONFIRMATION_DEPTH = 1
  MIN_DAG_SIZE = 2
  MAX_DAG_SIZE = 3
  DEFAULT_DAG_SIZE = 2
  Paths = {p}
  Modes = {m}
  Translators = {}
  Absent = Absent
  NoTranslator = NoTranslator
INVARIANT TipsAreLeaves
CHECK_DEADLOCK FALSE
