SPECIFICATION Spec
CONSTANTS
  d1 = d1
  d2 = d2
  d3 = d3
  d4 = d4
  Vm = {u1}
  Disk = {d1}
  Req = {r1}
  Device <- AllDisks
  Definitions <- EitherMode
  Serial = TRUE
  FaultKinds = {}
  MaxFaults = 0
  None = None
SYMMETRY Alike
INVARIANT DefinedVmsOwnDisks
