SPECIFICATION Spec
CONSTANTS
  Tasks = {t1}
  MaxBlocks = 4
  ReusableIds = {}
  Payloads <- MCNoOps
  MaxParents = 0
  CONFIRMATION_DEPTH = 1
  MIN_DAG_SIZE = 2
  MAX_DAG_SIZE = 2
  DEFAULT_DAG_SIZE = 2
  Paths = {p}
  Modes = {m}
  Translators = {}
  Absent = Absent
  NoTranslator = NoTranslator
INVARIANT DagStaysBounded
CHECK_DEADLOCK FALSE
