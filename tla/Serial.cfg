SPECIFICATION Spec
CONSTANTS
  Machines <- SomeMachines
  NoPort = NoPort
INVARIANTS
  FoundUnlessLate
  NothingOfAnotherPort
  Restored
PROPERTY Returns
CHECK_DEADLOCK FALSE
