SPECIFICATION MCSpec
CONSTANTS
  N = 5
  Nets <- AnyStretch
  FamilyOrder <- Ethernet
  Numbers = {0, 1}
  Drivers = {d1, d2}
  NoDriver = NoDriver
  d1 = d1
  d2 = d2
  MaxConf = 2
INVARIANTS
  OneDevicePerName
  PinnedWhenRenamed
  SortedByModule
PROPERTIES
  NamesGivenAreKept
  Returns
CHECK_DEADLOCK FALSE
