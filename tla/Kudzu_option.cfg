SPECIFICATION Spec
CONSTANTS
  NIL = NIL
  e100 = e100
  tulip = tulip
  emu = emu
  ymf = ymf
  h1 = h1
  h2 = h2
  Available = {e100, tulip, emu, ymf}
  XInstalled = TRUE
  Ready = {}
  OldLists = {}
  NewLists = {}
  Confs = {}
  Lives <- LivesOfOneSound
  DevOrder <- AnyOrder
INVARIANT SoundHasIndex
