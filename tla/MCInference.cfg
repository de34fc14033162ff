SPECIFICATION Spec
CONSTANTS
  a1 = a1
  a2 = a2
  b1 = b1
  b2 = b2
  c1 = c1
  c2 = c2
  Frames = {"f1", "f2"}
  Claims = {a1, a2, c1, c2}
  AdhocClaims = {a1, a2}
  Detecting = {a1}
  Boxers = {b1, b2}
  MaxTries = 2
  Forces = {FALSE, TRUE}
SYMMETRY Alike
CONSTRAINT TwiceAlone
INVARIANTS RunClosesLast ResultsOnce QueuedHasJob
CHECK_DEADLOCK FALSE
