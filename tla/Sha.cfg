\* A LONG of 10 bits, so that count_hi is used; sizes around every boundary.
SPECIFICATION Spec
CONSTANTS
  LIMIT = 128
  Sizes = {0, 1, 55, 56, 57, 63, 64, 65, 119, 120, 127, 128, 183, 184, 192, 256, 311, 511}
INVARIANTS
  HashedIsPadded
