SPECIFICATION ReplaySpec
CONSTANTS
  Paths = {p, q, r}
  Modes = {m}
  Translators = {w}
  Absent = Absent
  NoTranslator = NoTranslator
  Ops <- MCOps
  MaxSize = 1
INVARIANT OrderIrrelevant OnlyAffectedChange CheckpointsAgree
