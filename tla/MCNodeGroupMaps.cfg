SPECIFICATION Spec
CONSTANTS
  MaxNode = 1
  CpuIds <- MCCpuIds
  NodeOf <- MCNodeOf
  AtBoot <- MCAtBoot
  MaxChanges = 2
  MinNodes <- MCMinNodes
  None = None
INVARIANTS
  MapsRead
CHECK_DEADLOCK FALSE
