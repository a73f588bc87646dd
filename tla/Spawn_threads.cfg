\* Two threads, three calls, and too few descriptors for two calls and a file.
SPECIFICATION FairSpec
CONSTANTS
  None = None
  t1 = t1
  t2 = t2
  Callers = {t1, t2}
  Openers = {t1}
  NumFds = 7
  MaxCalls = 3
  CanFail = TRUE
INVARIANTS
  TypeOK
  NoLeak
  SoundOutput
  FilesKept
PROPERTY CallsReturn
CHECK_DEADLOCK FALSE
