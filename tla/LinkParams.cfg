SPECIFICATION LinkSpec
CONSTANTS
  a = a
  b = b
  c = c
  Names = {a, b, c}
  PoolStart = 0
  PoolEnd = 4
  SpillStart = 4
  SpillEnd = 7
  Programs <- NoPrograms
  Links <- ChainLinks
INVARIANTS LinkedParamsKept
CHECK_DEADLOCK FALSE
