SPECIFICATION FairSpec
CONSTANTS
  Posters = {cons, perf, sig, self}
  Cons = cons
  Perf = perf
  Sig = sig
  Self = self
  Disp = disp
  Hosts = {disp, perf}
  Commands <- MCCommands
  Messages <- MCMessages
  Home <- MCHome
  NoThread = none
  NoCmd = noCmd
INVARIANTS
  TypeOK
  MutexHeld
  NoSleepOnFlag
PROPERTIES
  SlotSpec
  FlagTaken
CHECK_DEADLOCK FALSE
