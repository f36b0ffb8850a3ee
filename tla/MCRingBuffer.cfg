SPECIFICATION Spec
CONSTANTS
  Size = 16
  HalfInt = 32
  LenMax = 10
  IpNum = 1
  NEvents = 1
  Chains <- MCChains
  Bases <- MCBases
  MaxWords = 24
INVARIANTS Behind Framed Delivered LatencyOwn
CHECK_DEADLOCK FALSE
