SPECIFICATION Spec
CONSTANTS
  Tasks = {t1, t2}
  Names = {admin, user}
  Admin = admin
  Passwords = {p, q}
  max_failed_attempts = 2
  lockout_duration = 1
  session_timeout = 1
  MaxCalls = 5
  MaxTime = 2
  Nobody = Nobody
  NotLocked = NotLocked
  Torn = Torn
SYMMETRY MCSymmetry
INVARIANT TypeOK FailedLoginsBounded DeletionIsFinal PromisesKept
CHECK_DEADLOCK FALSE
