SPECIFICATION Spec
CONSTANTS
  s1 = s1
  s2 = s2
  s3 = s3
  s4 = s4
  s5 = s5
  Storage = {s1, s2, s3, s4, s5}
  Imm = Imm
  Immediates = {Imm}
  MovLists <- SmallLists
INVARIANTS TypeOK NoLostCopy OneTempPerCycle
PROPERTIES ImplementsEdge OrderingEnds
CHECK_DEADLOCK FALSE
