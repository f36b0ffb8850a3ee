SPECIFICATION Spec
CONSTANTS
  Height = 2
  Many = 3
  ListSizes <- MCListSizes
  NodeCounts <- MCNodeCounts
  Counts = {"RMA", "CLK"}
  Rma = "RMA"
  MaxPages = 4
INVARIANTS OneLine InView LinesInBuffer DrawsLive EventsShown
CHECK_DEADLOCK FALSE
