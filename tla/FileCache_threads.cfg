\* Two threads on a file and a link beside it.
SPECIFICATION Spec
CONSTANTS
  None = None
  Lost = Lost
  d = d
  f = f
  e = e
  t1 = t1
  t2 = t2
  Paths = {f, e}
  Links = {e}
  ParentOf <- MCParentOf
  Threads = {t1, t2}
  Changes = {"flush", "unlink", "fsync", "truncate", "mknod", "rename"}
  Ttl = 1
  CanFail = TRUE
  MultiThreaded = TRUE
  MaxVersion = 2
SYMMETRY Symmetry
INVARIANTS
  TypeOK
  Coherent
