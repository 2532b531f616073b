SPECIFICATION Spec
CONSTANTS
  Host = {h1, h2}
  Home = h1
  Req = {r1, r2}
  Worlds = {{"migrate"}, {"migrate", "overlap"}, {"migrate", "crash"}, {"register", "crash", "move"}}
  MaxFaults = 2
  None = None
INVARIANTS RegistryFollows RecordTellsRunning NeverForgotten 
