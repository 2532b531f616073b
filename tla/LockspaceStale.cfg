SPECIFICATION Spec
CONSTANTS
  h1 = h1
  h2 = h2
  h3 = h3
  Host = {h1, h2}
  HOST_ID_MAX = 2
  Hash <- SameHash
  LOCK_JOIN_RETRIES = 2
  FaultKinds = {"sanlock", "reboot"}
  MaxFaults = 2
  None = None
INVARIANT SuccessIsSuccess
