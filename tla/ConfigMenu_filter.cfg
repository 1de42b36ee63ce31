SPECIFICATION MenuSpec
CONSTANTS
  NIL = NIL
  e100 = e100
  tulip = tulip
  emu = emu
  ymf = ymf
  gone = gone
  vesa = vesa
  h1 = h1
  h2 = h2
  Available = {e100, tulip, emu, ymf}
  XInstalled = TRUE
  Ready = {}
  OldLists <- AllOld
  NewLists <- AllNew
  Confs <- SomeConfs
INVARIANTS
  FilterExact
  NewIsConfigured
  GoneIsUnconfigured
PROPERTIES
  WalksGoForward
CHECK_DEADLOCK FALSE
