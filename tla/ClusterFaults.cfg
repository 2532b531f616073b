SPECIFICATION Spec
CONSTANTS
  Host = {h1, h2}
  Vm = {u1}
  Runstate = {"POWEROFF", "RUNNING", "MIGRATING", "DELETED"}
  Ts = {1, 2}
  NoHost = NoHost
  MaxOps = 1
  MaxFaults = 1
  MaxInFlight = 3
  FaultKinds = {"lose", "stats", "reconnect", "restart"}
  Reached = {h1}
  Home = h1
  HomeStates = {"undefined", "RUNNING"}
INVARIANT NothingInvented
PROPERTY InventoriesImplemented
