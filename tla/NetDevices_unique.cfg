SPECIFICATION Spec
CONSTANTS
  N = 5
  Nets <- AllNet
  FamilyOrder <- Ethernet
  Numbers = {0, 1, 2}
  Drivers = {d1, d2}
  NoDriver = NoDriver
  d1 = d1
  d2 = d2
  MaxConf = 0
INVARIANT NamesUnique
SYMMETRY Interchangeable
CHECK_DEADLOCK FALSE
