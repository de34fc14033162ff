SPECIFICATION FairSpec
CONSTANTS
  Contents = {1}
  Workers = {"w1", "w2"}
  MaxFiles = 1
PROPERTY JobEnds
INVARIANTS
  UploadHasMedia
  DeliveredFirst
  LagKeepsMedia
  BaselineFresh
CHECK_DEADLOCK FALSE
