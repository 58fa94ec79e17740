\* Two connections on one tree, for two seconds.
SPECIFICATION ServerSpec
CONSTANTS
  a = a
  a_a = a_a
  Connections = {c1, c2}
  Fids = {f1, f2}
  Names <- MCNames
  Flat <- MCFlat
  MaxDepth = 2
  MaxMessages = 5
  MaxTime = 1
  Nobody = Nobody
  Absent = Absent
SYMMETRY MCSymmetry
INVARIANT ServerTypeOK
INVARIANT LogExplainsTree
INVARIANT MergedLogsExplainTree
CHECK_DEADLOCK FALSE
