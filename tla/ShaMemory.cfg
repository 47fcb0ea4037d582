\* The repository's numbers.  For the end of the program any address up to
\* 790,000 gives the same result.
SPECIFICATION Spec
CONSTANTS
  NPROCS = 8
  LOCK_BASE = 8388608
  DEFAULT_STACK_SIZE = 262144
  MAX_NO_FILES = 16
  no_files = 16
  no_workers = 6
  Size <- FileSize
  PROGRAM_END = 131072
  FRAME = 24
INVARIANTS
  DigestIsOfTheFile
\* The main thread joins the workers and the program ends.
CHECK_DEADLOCK FALSE
