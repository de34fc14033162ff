SPECIFICATION FairSpec
CONSTANTS
  Procs = {"p1", "p2"}
  Last = 2
  Stored = 2
  MaxUsage = 2
  MaxEdits = 1
  MaxFaults = 1
INVARIANTS
  BilledOnce
  CompletedAsInvoiced
PROPERTY PeriodSettles
CHECK_DEADLOCK FALSE
