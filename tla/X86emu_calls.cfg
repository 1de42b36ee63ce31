CONSTANTS
  LongBits = 24
  MemSize  = 1048576
  Bios     = 49152
  StackSeg = 4096
  MaxSteps = 16
  Calls    <- MCCalls
SPECIFICATION Spec
INVARIANTS
  NoStackSegmentLeft
  CompareAndJump
  FlagsTellOfResult
  DecimalAdjust
  DivUndoesMul
  RotationsAddUp
  RepCopiesAll
  RepStopsAtFirst
  BalancedCodeRestores
PROPERTIES
  FaultHasNoEffect
  NarrowCodeKeepsHigh
CHECK_DEADLOCK FALSE
