SPECIFICATION FairSpec
CONSTANTS
  RmaPause = "multi"
  MaxPages = 3
  None = none
INVARIANTS
  TypeOK
  TaskNoticed
  StatusHonest
  NothingLeaked
  EventsFitPage
PROPERTIES
  WaitsEnd
CHECK_DEADLOCK FALSE
