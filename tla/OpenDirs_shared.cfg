\* adbncfs -s: two handles on one directory that does not change.
SPECIFICATION Spec
CONSTANTS
  None = None
  Garbage = Garbage
  d1 = d1
  d2 = d2
  h1 = h1
  h2 = h2
  h3 = h3
  Dirs = {d1}
  Handles = {h1, h2}
  MultiThreaded = FALSE
  MaxVersion = 1
  MaxOpens = 4
INVARIANT ListingHeld
\* The opens run out.
CHECK_DEADLOCK FALSE
