\* Two handles on two directories, two changes, four calls of opendir.
SPECIFICATION FairSpec
CONSTANTS
  None = None
  Garbage = Garbage
  d1 = d1
  d2 = d2
  h1 = h1
  h2 = h2
  h3 = h3
  Dirs = {d1, d2}
  Handles = {h1, h2}
  MultiThreaded = TRUE
  MaxVersion = 2
  MaxOpens = 4
INVARIANTS
  TypeOK
  ReadsOwnListing
  NobodyWaits
PROPERTY CallsReturn
\* The opens run out.
CHECK_DEADLOCK FALSE
