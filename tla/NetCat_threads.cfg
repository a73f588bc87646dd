\* Three threads, commands of up to two lines, paths with an apostrophe, a netcat that
\* may end.
SPECIFICATION FairSpec
CONSTANTS
  None = None
  t1 = t1
  t2 = t2
  t3 = t3
  Threads = {t1, t2, t3}
  MaxLines = 2
  MarkerText = FALSE
  OpenQuotes = TRUE
  CanBreak = TRUE
INVARIANTS
  TypeOK
  OwnOutput
  PipesEmpty
  MarkerComes
PROPERTIES
  MutexReleased
  ImplementsShell
