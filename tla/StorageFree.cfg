SPECIFICATION Spec
CONSTANTS
  d1 = d1
  d2 = d2
  d3 = d3
  d4 = d4
  Vm = {u1, u2}
  Disk = {d1}
  Req = {r1, r2}
  Device <- AllDisks
  Definitions <- AllManaged
  Serial = FALSE
  FaultKinds = {"describe", "save"}
  MaxFaults = 1
  None = None
SYMMETRY Alike
VIEW Decisive
INVARIANT RunHoldsResource
PROPERTIES RunningDisksUntouched OnlyOwnerTouches
