\* Two files, two handles, three versions: the initial one and two more.
SPECIFICATION Spec
CONSTANTS
  None = None
  p1 = p1
  p2 = p2
  h1 = h1
  h2 = h2
  Paths = {p1, p2}
  Locals = {p1, p2}
  LocalOf <- MCLocalOf
  OnHost = {}
  Handles = {h1, h2}
  Calls = {"read", "write", "fsync", "truncate", "mknod", "rename", "unlink"}
  PushOutcomes = {"stored", "denied", "unnoticed"}
  LocalErrors = TRUE
  MultiThreaded = TRUE
  MaxVersion = 3
SYMMETRY Symmetry
INVARIANTS
  TypeOK
  Delivered
\* The versions run out.
CHECK_DEADLOCK FALSE
