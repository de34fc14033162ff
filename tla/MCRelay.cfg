SPECIFICATION FairSpec
CONSTANTS
  Nodes = {"n1", "n2"}
  Groups = {"g1", "g2"}
  Jobs = {"j1", "j2"}
  NoNode = "none"
  NoGroup = "no group"
  Home <- HomeOf
  MaxStreams <- Caps
  NodeStreams <- Streams
  YouTube = {"j2"}
  YouTubeReady = {"n2"}
  Preferred <- Pref
  CanaryJobs = {"j2"}
  Pollers = {"n2"}
  MaxRuns = 1
  MaxTries <- Tries
  MaxOps = 1
INVARIANTS TurnEndsWaiting CapacityHeld CanaryAlone DisabledHoldsNothing
PROPERTY DueJobsTaken
CHECK_DEADLOCK FALSE
