CONSTANTS
  ByteBits = 8
  Objects  <- MCObjects
  Volatile = {}
  Fuel     = 9
  Patience = 40
  MaxIterations = 256
  Inputs   <- MCInputs
SPECIFICATION Spec
INVARIANTS
  MeaningKept
  RefusedForCause
  NamesUnique
  TargetsBound
  OperandsAgree
  StaticsDefined
CHECK_DEADLOCK FALSE
