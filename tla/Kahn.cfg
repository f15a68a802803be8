SPECIFICATION Spec
CONSTANTS
  Names = {1, 2, 3}
  PoolStart = 0
  PoolEnd = 6
  SpillStart = 6
  SpillEnd = 8
  Programs <- DirectPrograms
INVARIANT AncestorsExact
PROPERTIES ImplementsPlan AllocationEnds
CHECK_DEADLOCK FALSE
