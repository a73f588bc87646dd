\* Two threads rename, flush and look up a directory, the file in it and another entry.
SPECIFICATION FairSpec
CONSTANTS
  None = None
  Lost = Lost
  d = d
  f = f
  e = e
  t1 = t1
  t2 = t2
  Paths = {d, f, e}
  Links = {}
  ParentOf <- MCParentOf
  Threads = {t1, t2}
  Changes = {"rename", "flush"}
  Ttl = 1
  CanFail = FALSE
  MultiThreaded = TRUE
  MaxVersion = 2
PROPERTY EventuallyCurrent
