\* Two processors, one word of shared data, the first and the last word
\* of each stack, the lock, and one address past the last processor.
SPECIFICATION Spec
CONSTANTS
  NPROCS = 2
  LOCK_BASE = 8388608
  DEFAULT_STACK_SIZE = 262144
  Data <- DataWords
  Words <- StoredWords
  Depths <- StackDepths
  Locks <- LockWords
  Processors <- ProcessorWords
INVARIANTS
  Coherent
  StacksApart
PROPERTIES
  DevicesSpec
\* A program may pause every processor.
CHECK_DEADLOCK FALSE
