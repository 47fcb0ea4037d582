\* As many threads as processors: the last one finds no processor.
SPECIFICATION FairSpec
CONSTANTS
  NPROCS = 3
  MAX_THREADS = 3
  NTHREADS = 3
INVARIANTS
  SectionsExclude
  RefusedOnlyWhenFull
PROPERTIES
  WordsNeverFreed
  RefusalIsFinal
  SectionsEnd
\* Processors may wait for a clobbered lock for ever.
CHECK_DEADLOCK FALSE
