\* adbncfs -s: one callback at a time; every outcome of a push.
SPECIFICATION Spec
CONSTANTS
  None = None
  p1 = p1
  p2 = p2
  h1 = h1
  h2 = h2
  Paths = {p1, p2}
  Locals = {p1, p2}
  LocalOf <- MCLocalOf
  OnHost = {p1}
  Handles = {h1, h2}
  Calls = {"read", "write", "fsync", "truncate", "mknod", "unlink"}
  PushOutcomes = {"stored", "denied", "unnoticed"}
  LocalErrors = TRUE
  MultiThreaded = FALSE
  MaxVersion = 4
SYMMETRY HandleSymmetry
INVARIANT LocalNotStale
PROPERTY NoRollback
\* The versions run out.
CHECK_DEADLOCK FALSE
