\* Two threads on four processors: the main thread, one processor per thread,
\* and one that stays paused until uos_exit resumes it.
SPECIFICATION FairSpec
CONSTANTS
  NPROCS = 4
  MAX_THREADS = 2
  NTHREADS = 2
INVARIANTS
  TypeOK
  ExclusiveOwner
  DistinctPids
  NoWildDescriptor
  RunsOnce
  JoinedIsDone
  ExitRendezvous
  DeadlockFree
  AwaitedIsServed
  CanStepIsEnabled
  OwnersCanStep
PROPERTIES
  ClientSpec
  NeverPausedAgain
  ShutdownAdvances
  SectionsAdvance
  CriticalSectionSpec
  ThreadLifeSpec
  ShutdownCompletes
\* A finished application stops, and so may one whose lock was clobbered.
CHECK_DEADLOCK FALSE
