SPECIFICATION Spec
CONSTANTS
  Tasks = {t1, t2}
  MaxBlocks = 4
  ReusableIds = {}
  Payloads <- MCNoOps
  MaxParents = 1
  CONFIRMATION_DEPTH = 1
  MIN_DAG_SIZE = 2
  MAX_DAG_SIZE = 2
  DEFAULT_DAG_SIZE = 2
  Paths = {p}
  Modes = {m}
  Translators = {}
  Absent = Absent
  NoTranslator = NoTranslator
INVARIANT TypeOK LedgerInv
PROPERTY LedgerSpec OnlyConfirmedPruned ConfirmedAreBuried
CHECK_DEADLOCK FALSE
