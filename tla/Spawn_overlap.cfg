\* Two threads, two calls.
SPECIFICATION Spec
CONSTANTS
  None = None
  t1 = t1
  t2 = t2
  Callers = {t1, t2}
  Openers = {t1}
  NumFds = 9
  MaxCalls = 2
  CanFail = FALSE
INVARIANT OwnOutput
CHECK_DEADLOCK FALSE
