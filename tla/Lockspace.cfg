SPECIFICATION FairSpec
CONSTANTS
  h1 = h1
  h2 = h2
  h3 = h3
  Host = {h1, h2, h3}
  HOST_ID_MAX = 3
  Hash <- OtherHash
  LOCK_JOIN_RETRIES = 2
  FaultKinds = {"init", "sanlock", "save", "crash", "reboot"}
  MaxFaults = 1
  None = None
INVARIANTS IdsUnique UpMeansMember FullOnlyIfFull MemberUsesLockid
PROPERTIES  EveryHostUp
CHECK_DEADLOCK FALSE
