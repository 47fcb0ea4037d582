\* Sixteen instructions, jumps within half of them.
SPECIFICATION Spec
CONSTANTS
  LAST = 60
  REGION = 32
PROPERTIES
  DelaySlotSpec
  TargetsReached
\* A program may run off its end.
CHECK_DEADLOCK FALSE
