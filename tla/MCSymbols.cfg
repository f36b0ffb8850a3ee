SPECIFICATION Spec
CONSTANTS
  PageSize = 1
  MovePages = 3
  NSlots = 2
  Span = 4
  AddrLimit = 64
  PointerSize = 2
  Files = {"exe", "lib", "lib2", "odd", "jit", "heap"}
  FileAttributes <- MCAttributes
  Exe = "exe"
  Replaced <- MCReplaced
  Recs <- MCRecs
  Samples <- MCSamples
  Placements <- MCPlacements
  MaxChanges = 3
INVARIANTS TypeOK NamesRight ListWhole OneChain LatExact NumaExact
PROPERTIES ReadOnce
CHECK_DEADLOCK FALSE
