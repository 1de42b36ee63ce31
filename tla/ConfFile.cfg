SPECIFICATION Spec
CONSTANTS
  NIL = NIL
  u1 = u1
  u2 = u2
  d1 = d1
  d2 = d2
  InitConf <- ContinuedConf
  Aliases <- MCAliases
  Modules = {d1}
  MaxFaults = 2
INVARIANTS
  UserLinesKept
  EditsKeepUserLines
  LoadsEachLineOnce
  AliasesReadBack
