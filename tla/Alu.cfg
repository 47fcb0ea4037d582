\* Words of 4 bits, immediates of 2; two source registers and a third one.
SPECIFICATION Spec
CONSTANTS
  BYTE = 1
  Source = {1, 2}
  Reg = {1, 2, 3}
INVARIANTS
  AddiTestsOverflow
  WholeProduct
  WholeQuotient
\* One instruction runs.
CHECK_DEADLOCK FALSE
