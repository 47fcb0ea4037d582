------------------------------ MODULE Devices ------------------------------
(***************************************************************************)
(* The two devices on the bus through which the processors synchronise, as *)
(* the software sees them:                                                 *)
(*                                                                         *)
(*   - the lock memory (memory_lock.cpp): a load returns the word and      *)
(*     leaves 1 in it, a store overwrites it.  The software uses one word, *)
(*     the one at LOCK_BASE, for the kernel lock and for the pthread lock; *)
(*   - the processor device (multiprocessor.h): one data word per          *)
(*     processor.  Storing 0xFFFFFFFF pauses the processor, storing        *)
(*     anything else resumes it; a load has no effect.                     *)
(*                                                                         *)
(* Every operator below is one bus transaction, hence one instruction of   *)
(* one processor: no transport method waits, so nothing interleaves in it. *)
(***************************************************************************)
EXTENDS Integers, FiniteSets

CONSTANT NPROCS          \* number of processors (8 in uos.h and main.cpp)

ASSUME NPROCSAssumption == NPROCS \in Nat \ {0}

VARIABLES
  lock,        \* the word at LOCK_BASE
  procs,       \* mProcessorData: the data word of each processor
  paused,      \* mips_isa::pause of each processor
  owners,      \* history: processors between an acquire and its release
  clobbered    \* history: a release hit the lock while another owned it

devVars  == <<procs, paused>>
lockVars == <<lock, owners, clobbered>>

Proc == 0 .. NPROCS - 1

Free == -1               \* 0xFFFFFFFF: the processor has nothing to run
Null == 0                \* a NULL descriptor pointer

-----------------------------------------------------------------------------
(* memory_lock: the constructor clears the lock words.                     *)
LockInit ==
  /\ lock = 0
  /\ owners = {}
  /\ clobbered = FALSE

(* Mutant: readm returns the word and does not set it.                     *)
LockAcquireUnset(p) ==
  /\ lock = 0
  /\ owners' = owners \cup {p}
  /\ UNCHANGED <<lock, clobbered>>

(* One turn of the spin on `lock` that leaves the loop: memory_lock::readm   *)
(* answers 0 and sets the word.  A turn that reads 1 writes 1 back, changes *)
(* nothing and repeats, so it is a stuttering step.                        *)
LockAcquire(p) ==
  /\ lock = 0
  /\ lock' = 1
  /\ owners' = owners \cup {p}
  /\ UNCHANGED clobbered

(* The store of 0 by the processor that is leaving its critical section.      *)
LockRelease(p) ==
  /\ lock' = 0
  /\ owners' = owners \ {p}
  /\ UNCHANGED clobbered

(* The store of 0 by a processor that has already released the lock.          *)
LockStrayRelease(p) ==
  /\ lock' = 0
  /\ clobbered' = (clobbered \/ (owners \ {p}) # {})
  /\ UNCHANGED owners

-----------------------------------------------------------------------------
(* The multiprocessor constructor and init(): word 0 is 0, the others are  *)
(* all ones, and every processor but 0 is paused.                          *)
ProcDeviceInit ==
  /\ procs = [p \in Proc |-> IF p = 0 THEN Null ELSE Free]
  /\ paused = [p \in Proc |-> p # 0]

(* multiprocessor::transport on a WRITE: stop_processor or start_processor. *)
ProcWrite(n, data) ==
  /\ procs' = [procs EXCEPT ![n] = data]
  /\ paused' = [paused EXCEPT ![n] = (data = Free)]

=============================================================================
