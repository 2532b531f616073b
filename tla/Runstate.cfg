SPECIFICATION FairSpec
CONSTANTS
  Req = {r1, r2}
  Worlds = {{"boot", "cloud-init boot", "shutdown"}, {"pause", "resume", "shutdown"}}
  MaxEvents = 2
  MaxCrashes = 1
  None = None
INVARIANTS AttachedIsoHasResource 
PROPERTIES ShutdownGetsRecorded 
CHECK_DEADLOCK FALSE
