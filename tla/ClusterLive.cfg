SPECIFICATION FairSpec
CONSTANTS
  Host = {h1, h2}
  Vm = {u1}
  Runstate = {"POWEROFF", "RUNNING", "MIGRATING", "DELETED"}
  Ts = {1, 2}
  NoHost = NoHost
  MaxOps = 1
  MaxFaults = 0
  MaxInFlight = 3
  FaultKinds = {}
  Reached = {h1}
  Home = h1
  HomeStates = {"RUNNING", "SHUTOFF"}
PROPERTY EventuallyShown
