\* The same instance, with the promise not weakened by ~clobbered.
SPECIFICATION Spec
CONSTANTS
  NPROCS = 3
  MAX_THREADS = 2
  NTHREADS = 2
  MAX_NO_FILES = 5
  no_files = 5
  no_workers = 2
INVARIANTS
  DigestedAtMostOnce
CHECK_DEADLOCK FALSE
