SPECIFICATION Spec
CONSTANTS
  Days = {"d1"}
  Hours = {"h1", "gap"}
  DayOf <- OneDay
  GapHours <- Gap
  CanaryHours <- Canary
  Legacy <- Denied
  Workers = {"w1", "w2"}
  Room <- Scratch
  Cap = 1
  MaxAttempts = 2
INVARIANTS
  ActiveWithinCap
  PublishedComplete
  FinalizeFenced
  PausedAdmitsAtMostOne
PROPERTY BatchSpec
CONSTRAINT Story
CHECK_DEADLOCK FALSE
