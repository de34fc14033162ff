SPECIFICATION Spec
CONSTANTS
  Clips = {"c1", "c2"}
  PlanClips = {"c1"}
  Requests = {"original", "test"}
  ReqClip <- ReqOf
  TestRequests = {"test"}
  MaxRestore = 2
  MaxCleanup = 2
  MaxRuns = 2
  MaxBad = 1
INVARIANTS
  LastCopy
  LiveHasObject
  OnePermit
  SweptStaysGone
CONSTRAINT Story
CHECK_DEADLOCK FALSE
