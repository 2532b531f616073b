SPECIFICATION Spec
CONSTANTS
  d1 = d1
  d2 = d2
  d3 = d3
  d4 = d4
  Vm = {u1, u2}
  Disk = {d1, d2, d3, d4}
  Req = {r1, r2}
  Device <- OneOfEach
  Definitions <- EachDevice
  Serial = TRUE
  FaultKinds = {"define", "command", "crash"}
  MaxFaults = 1
  None = None
SYMMETRY Alike
INVARIANTS DefinedVmsOwnDisks NoSilentLeak
