SPECIFICATION FairSpec
CONSTANTS
  MaxNode = 1
  CpuIds <- MCCpuIds
  NodeOf <- MCNodeOf
  AtBoot <- MCAtBoot
  MaxChanges = 3
  MinNodes <- MCMinNodes
  None = None
INVARIANTS
  OneSlot
  EventsKept
  NodesCounted
  InBounds
PROPERTIES
  Sampled
CHECK_DEADLOCK FALSE
