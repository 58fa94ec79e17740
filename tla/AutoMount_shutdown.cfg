SPECIFICATION Spec
CONSTANT N = 3
INVARIANT TypeOK
PROPERTY NeverMountedTwice ConsistentHealthCheck StopReturns CyclesRecur
CHECK_DEADLOCK FALSE
