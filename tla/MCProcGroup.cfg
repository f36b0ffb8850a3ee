SPECIFICATION FairSpec
CONSTANTS
  Pids = {1, 2}
  Tids = {1, 2}
  Self = 1
  Bucket <- MCBucket
  ProcSlots = {p1, p2, p3}
  LwpSlots = {l1, l2}
  None = none
INVARIANTS
  TypeOK
  NoDangling
  OneAnswer
  ExitsKept
PROPERTIES
  RemovedFreed
