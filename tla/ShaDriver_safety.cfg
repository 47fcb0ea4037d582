\* Five files for two workers, shares of 2 and 3 files, on three processors.
SPECIFICATION Spec
CONSTANTS
  NPROCS = 3
  MAX_THREADS = 2
  NTHREADS = 2
  MAX_NO_FILES = 5
  no_files = 5
  no_workers = 2
INVARIANTS
  TypeOK
  DigestedOnce
  JoinedIsDigested
  CanStepIsEnabled
PROPERTIES
  ClientSpec
\* A finished application stops, and so may one whose lock was clobbered.
CHECK_DEADLOCK FALSE
