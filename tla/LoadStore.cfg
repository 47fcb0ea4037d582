\* Bytes of one bit: words of 4 bits, a RAM of two words, one data register.
SPECIFICATION Spec
CONSTANTS
  BYTE = 1
  SIZE = 2
  Reg = {8}
INVARIANTS
  UnalignedLoad
  UnalignedStore
PROPERTIES
  ByteMemorySpec
CHECK_DEADLOCK FALSE
