SPECIFICATION FairSpec
CONSTANTS
  CAP = 1
  POLLS = 2
INVARIANTS  PanicsOnlyAtTheEnd ListensWhileConnected
PROPERTIES  CallbacksReturn ShutdownEnds
CHECK_DEADLOCK FALSE
