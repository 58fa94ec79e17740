\* Two jobs and one of another node, two tasks that submit, assign and complete them, one that asks for their status.
CONSTANTS
  Jobs = {j1, j2, x}
  Foreign = {x}
  Nodes = {n1, n2}
  cpu = cpu
  gpu = gpu
  Features = {cpu, gpu}
  Overlooked = {gpu}
  Tasks = {t1, t2}
  Watchers = {w}
  MaxCalls = 5
  Requests <- MCRequests
SPECIFICATION Spec
SYMMETRY MCSymmetry
CHECK_DEADLOCK FALSE
INVARIANT TypeOK
INVARIANT StatusHonest
INVARIANT AssignedNotPending
INVARIANT QueueFair
PROPERTY LifecycleSpec
