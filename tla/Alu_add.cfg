\* The same instance; add, whose test differs from that of addi.
SPECIFICATION Spec
CONSTANTS
  BYTE = 1
  Source = {1, 2}
  Reg = {1, 2, 3}
INVARIANTS
  AddTestsOverflow
CHECK_DEADLOCK FALSE
