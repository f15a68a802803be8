SPECIFICATION Spec
CONSTANTS
  a = a
  b = b
  c = c
  NoName = NoName
  Names = {a, b, c}
  Bytes = {10, 11, 12, 20, 21}
  CallerSaved = {10, 11}
  CalleeSaved = {20, 21}
  Functions <- MetTooLate
INVARIANTS ReadsFindValues
CHECK_DEADLOCK FALSE
