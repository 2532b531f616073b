SPECIFICATION ReqSpec
CONSTANTS
  Host = {h1, h2}
  Vm = {u1}
  Runstate = {"RUNNING", "DELETED"}
  Ts = {1, 2}
  NoHost = NoHost
  Me = h1
INVARIANTS HostVmsConsistent ForwardedOnce AnswersAreTrue 
PROPERTIES TsMonotone RequestsEnd
