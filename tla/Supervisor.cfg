SPECIFICATION FairSpec
CONSTANTS
  nexus = nexus events = events
  p1 = p1 p2 = p2 p3 = p3 p4 = p4 p5 = p5 p6 = p6
  None = None
  Component = {nexus, events}
  Order <- NexusFirst
  Ported = {nexus}
  Gathered = {}
  Proc = {p1, p2, p3, p4, p5, p6}
  LoopTime = 2
  KillTime = 2
  StartupLimit = 2
  ResetTime = 4
  FailureLimit = 1
  Disk = TRUE
  MaxBoot = 1
  MaxLag = 1
  MaxFaults = 2
CHECK_DEADLOCK FALSE
INVARIANTS TypeOK OneInstance KillReaches
PROPERTIES HealthySpared CleansUp Recovers
