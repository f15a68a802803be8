SPECIFICATION Spec
CONSTANTS
  a = a
  b = b
  c = c
  Names = {a, b, c}
  PoolStart = 0
  PoolEnd = 4
  SpillStart = 4
  SpillEnd = 11
  MaxDepth = 3
  Programs <- UnitPrograms
SYMMETRY Symmetric
INVARIANTS TypeOK SlotsDisjoint PoolsDisjoint OrderNeverStuck LocalsKept ParamsKept ConventionsAgree
CHECK_DEADLOCK FALSE
