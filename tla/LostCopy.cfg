CONSTANTS
  ByteBits = 8
  Objects  <- MCObjects
  Volatile <- MCVolatile
  Fuel     = 9
  Reach    = 40
  Inputs   <- LostCopyInputs
  SlotBase <- MCSlotBase
  PoolBase = 160
  SweepCap = 16
  TacSweepCap = 16
SPECIFICATION Spec
INVARIANT ResultKept
