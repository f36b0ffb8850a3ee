SPECIFICATION FairSpec
CONSTANTS
  Cons = cons
  Perf = perf
  Sig = sig
  Self = self
  Keys = {"q"}
  MaxKeys = 1
  MaxSignals = 0
  MaxResizes = 0
  None = none
PROPERTIES
  PerfExits
CHECK_DEADLOCK FALSE
