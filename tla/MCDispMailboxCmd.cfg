SPECIFICATION Spec
CONSTANTS
  Posters = {cons, perf, sig}
  Cons = cons
  Perf = perf
  Sig = sig
  Self = self
  Disp = disp
  Hosts = {main}
  Commands <- MCCommands
  Messages <- MCMessages
  Home <- MCHome
  NoThread = none
  NoCmd = noCmd
INVARIANTS
  CmdIntact
