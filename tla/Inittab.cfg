SPECIFICATION Spec
CONSTANTS
  NIL = NIL
  Texts <- SomeTexts
  Files <- SomeFiles
  Securettys <- SomeSecurettys
  Consoles <- SomeConsoles
  MaxFaults = 1
INVARIANTS
  LinesKept
  ConsoleReady
