\* One handle that writes and reads; every push succeeds.
SPECIFICATION Spec
CONSTANTS
  None = None
  p1 = p1
  p2 = p2
  h1 = h1
  h2 = h2
  Paths = {p1}
  Locals = {p1}
  LocalOf <- MCLocalOf
  OnHost = {}
  Handles = {h1}
  Calls = {"read", "write"}
  PushOutcomes = {"stored"}
  LocalErrors = FALSE
  MultiThreaded = FALSE
  MaxVersion = 3
INVARIANT ClosedMeansStored
CHECK_DEADLOCK FALSE
