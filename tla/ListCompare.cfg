SPECIFICATION Spec
CONSTANTS
  N1 = 3
  N2 = 3
INVARIANTS
  ReturnedAreLeft
  PairsFirstWithFirst
  NoPairLeft
  PairedOnce
PROPERTIES
  MatchingSpec
  Returns
CHECK_DEADLOCK FALSE
