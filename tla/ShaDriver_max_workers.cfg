\* As many workers as processors.
SPECIFICATION Spec
CONSTANTS
  NPROCS = 3
  MAX_THREADS = 3
  NTHREADS = 3
  MAX_NO_FILES = 5
  no_files = 5
  no_workers = 3
INVARIANTS
  ProcessorForEveryWorker
CHECK_DEADLOCK FALSE
