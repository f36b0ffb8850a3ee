SPECIFICATION FairSpec
CONSTANTS
  Cons = cons
  Perf = perf
  Sig = sig
  Self = self
  Keys = {"n", "enter", "l", "q"}
  MaxKeys = 2
  MaxSignals = 1
  MaxResizes = 1
  None = none
INVARIANTS
  Teardown
  Flag2Exact
PROPERTIES
  KeysRead
CHECK_DEADLOCK FALSE
