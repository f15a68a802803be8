SPECIFICATION Spec
CONSTANTS
  Reach = 9
  MaxLength = 6
  FirstCounter = 3
  Names <- SmallNames
  Functions <- SmallFunctions
INVARIANTS ReachesWhenLinked CodeKept ExpandedOnce
PROPERTIES LengtheningEnds
CHECK_DEADLOCK FALSE
