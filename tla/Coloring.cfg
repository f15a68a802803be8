SPECIFICATION Spec
CONSTANTS
  a = a
  b = b
  c = c
  NoName = NoName
  Names = {a, b, c}
  Bytes = {10, 11, 12, 20, 21}
  CallerSaved = {10, 11}
  CalleeSaved = {20, 21}
  Functions <- Foreseen
INVARIANTS LiveExact ReadsFindValues
PROPERTIES ColoringEnds
CHECK_DEADLOCK FALSE
