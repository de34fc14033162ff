SPECIFICATION FairSpec
CONSTANTS
  Days = {"d1"}
  Hours = {"h1", "large"}
  DayOf <- OneDay
  GapHours <- Gap
  CanaryHours <- Canary
  Legacy <- Denied
  Workers = {"w1"}
  Room <- Scratch
  Cap = 1
  MaxAttempts = 2
PROPERTY HoursSettle
CHECK_DEADLOCK FALSE
