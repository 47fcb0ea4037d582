------------------------------ MODULE Pthread ------------------------------
(***************************************************************************)
(* The thread library (sw/pthread/pthread.c): the lock the application     *)
(* uses, the thread pool, pthread_create, pthread_join, and __thread_call, *)
(* which an auxiliary processor runs for the descriptor in its word.       *)
(*                                                                         *)
(* The library's lock is the word at LOCK_BASE, the kernel's own lock,     *)
(* once the first pthread_create has set gLockPool; before that it is      *)
(* NULL, so acquiring is a plain load of RAM word 0 and releasing a plain  *)
(* store to it.  RAM word 0 holds 0 (a fresh 8 MB block, see README), so   *)
(* both go straight through and exclude nobody.                            *)
(*                                                                         *)
(* Prefixes: PC pthread_create, PJ pthread_join, TC __thread_call.         *)
(***************************************************************************)
EXTENDS Uos

CONSTANT MAX_THREADS     \* size of __thread_pool (256 in pthread.h)

ASSUME MAX_THREADSAssumption == MAX_THREADS \in Nat \ {0}

VARIABLES
  pthread_initialized,  \* __pthread_initialized
  gLockPool,            \* TRUE when it points at LOCK_BASE, FALSE when NULL
  state,                \* __thread_pool[t].state
  func,                 \* __thread_pool[t].func # NULL
  arg,                  \* __thread_pool[t].arg
  os_thread             \* __thread_pool[t].os_thread is filled in

poolVars == <<pthread_initialized, gLockPool, state, func, arg, os_thread>>

Tid == 0 .. MAX_THREADS - 1

(* What a processor word may hold: Free, Null, or a descriptor.            *)
Word == Free .. MAX_THREADS

ThreadState == {"IDLE", "INITIALIZING", "STOPPED", "RUNNING", "FINISHED"}

PthreadInit ==
  /\ pthread_initialized = FALSE
  /\ gLockPool = FALSE
  /\ state = [t \in Tid |-> "IDLE"]
  /\ func = [t \in Tid |-> FALSE]
  /\ arg = [t \in Tid |-> 0]
  /\ os_thread = [t \in Tid |-> FALSE]

(* pthread_acquire, and __acquire_lock(gLockPool) inside the library.      *)
PthreadAcquire(p, from, to) ==
  /\ Jump(p, from, to)
  /\ IF gLockPool THEN LockAcquire(p) ELSE UNCHANGED lockVars
  /\ UNCHANGED <<devVars, uosVars, poolVars>>

(* pthread_release, and __release_lock(gLockPool) inside the library.      *)
PthreadRelease(p, from, to) ==
  /\ Jump(p, from, to)
  /\ IF gLockPool THEN LockRelease(p) ELSE UNCHANGED lockVars
  /\ UNCHANGED <<devVars, uosVars, poolVars>>

-----------------------------------------------------------------------------
(* pthread_create                                                          *)

PC_Check(p) ==
  /\ Jump(p, "PC_Check",
          IF pthread_initialized THEN "PC_Acquire" ELSE "PC_InitAcquire")
  /\ tid' = [tid EXCEPT ![p] = 0]
  /\ UNCHANGED <<lockVars, devVars, uosVars, pid, reg, idx, poolVars>>

PC_InitAcquire(p) ==
  /\ Acquire(p, "PC_InitAcquire", "PC_Recheck")
  /\ UNCHANGED poolVars

PC_Recheck(p) ==
  /\ Jump(p, "PC_Recheck",
          IF pthread_initialized THEN "PC_InitRelease" ELSE "PC_InitPool")
  /\ UNCHANGED <<lockVars, devVars, uosVars, localVars, poolVars>>

(* Mutant: gLockPool stays NULL.                                           *)
PC_InitPoolForgotten(p) ==
  /\ Jump(p, "PC_InitPool", "PC_SetInit")
  /\ state' = [t \in Tid |-> "IDLE"]
  /\ func' = [t \in Tid |-> FALSE]
  /\ arg' = [t \in Tid |-> 0]
  /\ os_thread' = [t \in Tid |-> FALSE]
  /\ UNCHANGED <<lockVars, devVars, uosVars, localVars, pthread_initialized,
                 gLockPool>>

(* gLockPool = uos_get_base_lock_address(), and the memset of the pool,    *)
(* which is one step: under the lock, and before anybody reads the pool.   *)
PC_InitPool(p) ==
  /\ Jump(p, "PC_InitPool", "PC_SetInit")
  /\ gLockPool' = TRUE
  /\ state' = [t \in Tid |-> "IDLE"]
  /\ func' = [t \in Tid |-> FALSE]
  /\ arg' = [t \in Tid |-> 0]
  /\ os_thread' = [t \in Tid |-> FALSE]
  /\ UNCHANGED <<lockVars, devVars, uosVars, localVars, pthread_initialized>>

PC_SetInit(p) ==
  /\ Jump(p, "PC_SetInit", "PC_InitRelease")
  /\ pthread_initialized' = TRUE
  /\ UNCHANGED <<lockVars, devVars, uosVars, localVars, gLockPool, state, func,
                 arg, os_thread>>

PC_InitRelease(p) ==
  /\ Release(p, "PC_InitRelease", "PC_Acquire")
  /\ UNCHANGED poolVars

(* Mutant: the scan stops before the last entry.                           *)
PC_AcquireOneLess(p) ==
  /\ tid[p] < MAX_THREADS - 1
  /\ PthreadAcquire(p, "PC_Acquire", "PC_Scan")
  /\ UNCHANGED localVars

(* The scan of the pool takes and gives back the lock for every entry.  It *)
(* stops at MAX_THREADS with ERROR_OUT_OF_THREADS; the applications create *)
(* no more threads than that (PoolSuffices in ClientProofs), so the model  *)
(* has no step for it.                                                     *)
PC_Acquire(p) ==
  /\ tid[p] < MAX_THREADS
  /\ PthreadAcquire(p, "PC_Acquire", "PC_Scan")
  /\ UNCHANGED localVars

PC_Scan(p) ==
  /\ Jump(p, "PC_Scan",
          IF state[tid[p]] = "IDLE" THEN "PC_Claim" ELSE "PC_Skip")
  /\ UNCHANGED <<lockVars, devVars, uosVars, localVars, poolVars>>

(* The three stores under the lock: the state, os_thread.func, .arg.       *)
PC_Claim(p) ==
  /\ Jump(p, "PC_Claim", "PC_ClaimRelease")
  /\ state' = [state EXCEPT ![tid[p]] = "INITIALIZING"]
  /\ os_thread' = [os_thread EXCEPT ![tid[p]] = TRUE]
  /\ UNCHANGED <<lockVars, devVars, uosVars, localVars, pthread_initialized,
                 gLockPool, func, arg>>

PC_ClaimRelease(p) ==
  /\ PthreadRelease(p, "PC_ClaimRelease", "PC_Describe")
  /\ UNCHANGED localVars

(* Mutant: the lock is given back only when an entry has been found.       *)
PC_SkipHolding(p) ==
  /\ Jump(p, "PC_Skip", "PC_Acquire")
  /\ tid' = [tid EXCEPT ![p] = tid[p] + 1]
  /\ UNCHANGED <<lockVars, devVars, uosVars, pid, reg, idx, poolVars>>

PC_Skip(p) ==
  /\ PthreadRelease(p, "PC_Skip", "PC_Acquire")
  /\ tid' = [tid EXCEPT ![p] = tid[p] + 1]
  /\ UNCHANGED <<pid, reg, idx>>

(* The three stores outside the lock: func, arg and the state STOPPED; a   *)
(* is the caller's arg.                                                    *)
PC_Describe(p, a) ==
  /\ Jump(p, "PC_Describe", "SP_Acquire")
  /\ func' = [func EXCEPT ![tid[p]] = TRUE]
  /\ arg' = [arg EXCEPT ![tid[p]] = a]
  /\ state' = [state EXCEPT ![tid[p]] = "STOPPED"]
  /\ UNCHANGED <<lockVars, devVars, uosVars, localVars, pthread_initialized,
                 gLockPool, os_thread>>

-----------------------------------------------------------------------------
(* pthread_join                                                            *)

(* Mutant: while (state == STOPPED).                                       *)
PJ_PollStarted(p) ==
  /\ Jump(p, "PJ_Poll", "PJ_Acquire")
  /\ state[tid[p]] # "STOPPED"
  /\ UNCHANGED <<lockVars, devVars, uosVars, localVars, poolVars>>

PJ_Poll(p) ==
  /\ Jump(p, "PJ_Poll", "PJ_Acquire")
  /\ state[tid[p]] = "FINISHED"
  /\ UNCHANGED <<lockVars, devVars, uosVars, localVars, poolVars>>

PJ_Acquire(p) ==
  /\ PthreadAcquire(p, "PJ_Acquire", "PJ_Release")
  /\ UNCHANGED localVars

(* Both applications pass a NULL retval, so nothing is copied.             *)
PJ_Release(p) ==
  /\ PthreadRelease(p, "PJ_Release", "PJ_Return")
  /\ UNCHANGED localVars

-----------------------------------------------------------------------------
(* The call of thr->func(thr->arg) by the auxiliary loop, and the function *)
(* it calls, __thread_call.                                                *)

(* if (thr != NULL && thr->func != NULL).  A word of -1 would be a wild    *)
(* pointer: the model stops at it, and NoWildDescriptor shows it is never  *)
(* read.                                                                   *)
AL_Call(p) ==
  /\ reg[p] # Free
  /\ LET runnable == reg[p] # Null /\ os_thread[reg[p] - 1]
     IN  /\ Jump(p, "AL_Call", IF runnable THEN "TC_Run" ELSE "AL_Test")
         /\ tid' = [tid EXCEPT ![p] = IF runnable THEN reg[p] - 1 ELSE @]
  /\ UNCHANGED <<lockVars, devVars, uosVars, pid, reg, idx, poolVars>>

TC_Run(p) ==
  /\ Jump(p, "TC_Run", "TC_Test")
  /\ state' = [state EXCEPT ![tid[p]] = "RUNNING"]
  /\ UNCHANGED <<lockVars, devVars, uosVars, localVars, pthread_initialized,
                 gLockPool, func, arg, os_thread>>

TC_Test(p) ==
  /\ Jump(p, "TC_Test", IF func[tid[p]] THEN "TC_Call" ELSE "TC_Clear")
  /\ UNCHANGED <<lockVars, devVars, uosVars, localVars, poolVars>>

(* thr->func is loaded again for the call; if it has become NULL since the *)
(* test the processor jumps to address 0.                                  *)
TC_Call(p) ==
  /\ Jump(p, "TC_Call", IF func[tid[p]] THEN "Body" ELSE "Wild")
  /\ UNCHANGED <<lockVars, devVars, uosVars, localVars, poolVars>>

(* Mutant: thr->func is not set to NULL.                                   *)
TC_ClearForgotten(p) ==
  /\ Jump(p, "TC_Clear", "TC_Finish")
  /\ UNCHANGED <<lockVars, devVars, uosVars, localVars, poolVars>>

TC_Clear(p) ==
  /\ Jump(p, "TC_Clear", "TC_Finish")
  /\ func' = [func EXCEPT ![tid[p]] = FALSE]
  /\ UNCHANGED <<lockVars, devVars, uosVars, localVars, pthread_initialized,
                 gLockPool, state, arg, os_thread>>

(* Mutant: a finished thread gives its processor word back.                *)
TC_FinishFreeing(p) ==
  /\ Jump(p, "TC_Finish", "AL_Test")
  /\ state' = [state EXCEPT ![tid[p]] = "FINISHED"]
  /\ procs' = [procs EXCEPT ![pid[p]] = Free]
  /\ UNCHANGED <<lockVars, paused, uosVars, localVars, pthread_initialized,
                 gLockPool, func, arg, os_thread>>

TC_Finish(p) ==
  /\ Jump(p, "TC_Finish", "AL_Test")
  /\ state' = [state EXCEPT ![tid[p]] = "FINISHED"]
  /\ UNCHANGED <<lockVars, devVars, uosVars, localVars, pthread_initialized,
                 gLockPool, func, arg, os_thread>>

-----------------------------------------------------------------------------
PthreadStep(p) ==
  \/ PC_Check(p) \/ PC_InitAcquire(p) \/ PC_Recheck(p) \/ PC_InitPool(p)
  \/ PC_SetInit(p) \/ PC_InitRelease(p) \/ PC_Acquire(p) \/ PC_Scan(p)
  \/ PC_Claim(p) \/ PC_ClaimRelease(p) \/ PC_Skip(p)
  \/ PJ_Poll(p) \/ PJ_Acquire(p) \/ PJ_Release(p)
  \/ AL_Call(p) \/ TC_Run(p) \/ TC_Test(p) \/ TC_Call(p) \/ TC_Clear(p)
  \/ TC_Finish(p)

(* A step of the kernel or of the library.                                 *)
LibraryStep(p) == (UosStep(p) /\ UNCHANGED poolVars) \/ PthreadStep(p)

-----------------------------------------------------------------------------
(***************************************************************************)
(* What the kernel and the library promise whatever the application.  The  *)
(* second release of uos_start_processor (uos.c:73) may fall into another  *)
(* processor's critical section; `clobbered` records that it has.  A       *)
(* property that starts with ~clobbered is promised only as long as that   *)
(* has not happened; the others hold in every execution.                   *)
(***************************************************************************)

(* Sections guarded by the kernel lock.                                    *)
KernelSection ==
  {"US_Check", "US_InitOwn", "US_InitOther", "US_SetInit", "US_Load",
   "US_Store", "US_Release", "AL_Read", "AL_Release", "SP_Scan", "SP_Write",
   "SP_Release1", "SP_Fail", "UE_Load", "UE_Store", "UE_SetTerm", "UE_Resume",
   "UE_Release", "PC_Recheck", "PC_InitPool", "PC_SetInit", "PC_InitRelease"}

(* The library's sections, guarded by the lock gLockPool points at, by     *)
(* nothing while it is NULL.                                               *)
PthreadSection == {"PC_Scan", "PC_Claim", "PC_ClaimRelease", "PC_Skip", "PJ_Release"}

(* Labels outside every section; AP_Start and Body are where the main      *)
(* program and a thread's function begin.                                  *)
PthreadOutside ==
  {"US_Acquire", "AL_Test", "AL_Acquire", "AL_Call", "SP_Acquire",
   "SP_Release2", "UM_Terminate", "UE_Acquire", "UE_Wait", "Halted",
   "PC_Check", "PC_InitAcquire", "PC_Acquire", "PC_Describe", "PC_Return",
   "PJ_Poll", "PJ_Acquire", "PJ_Return", "TC_Run", "TC_Test", "TC_Call",
   "AP_Start", "Body", "Wild", "TC_Clear", "TC_Finish"}

(* Labels a processor reaches only after its exited++ has been stored.     *)
ExitCounted == {"UE_SetTerm", "UE_Resume", "UE_Release", "UE_Wait", "Halted"}

(* Every variable of the devices, the kernel and the library keeps its     *)
(* type; labels are the control points of the whole program.               *)
PthreadTypeOK(labels) ==
  /\ lock \in {0, 1}
  /\ procs \in [Proc -> Word]
  /\ paused \in [Proc -> BOOLEAN]
  /\ owners \subseteq Proc
  /\ clobbered \in BOOLEAN
  /\ initialized \in BOOLEAN
  /\ initialized_cores \in 0 .. NPROCS
  /\ SHOULD_TERMINATE \in BOOLEAN
  /\ exited \in 0 .. NPROCS
  /\ pc \in [Proc -> labels]
  /\ pid \in [Proc -> {-1} \cup Proc]
  /\ reg \in [Proc -> Int]
  /\ idx \in [Proc -> 0 .. NPROCS]
  /\ tid \in [Proc -> 0 .. MAX_THREADS]
  /\ pthread_initialized \in BOOLEAN
  /\ gLockPool \in BOOLEAN
  /\ state \in [Tid -> ThreadState]
  /\ func \in [Tid -> BOOLEAN]
  /\ arg \in [Tid -> Nat]
  /\ os_thread \in [Tid -> BOOLEAN]

(* One lock word serves the kernel and the library, and every section is   *)
(* entered and left through it: until a stray release hits a held lock, no *)
(* two processors are in any of the sections at once, and the word is 1    *)
(* exactly while one is.                                                   *)
ExclusiveOwner ==
  ~clobbered => /\ \A p, q \in owners : p = q
                /\ lock = 1 <=> owners # {}

(* pid = initialized_cores++ is done under the lock, so no two processors  *)
(* ever serve the same processor word.                                     *)
DistinctPids ==
  ~clobbered => \A p, q \in Proc : pid[p] # -1 /\ pid[p] = pid[q] => p = q

(* A processor polls the word of its pid, not its own; that word always    *)
(* holds a descriptor or NULL, never the -1 of a processor not started,    *)
(* whatever order the started processors boot in.                          *)
NoWildDescriptor ==
  \A p \in Proc : pc[p] = "AL_Call" => reg[p] # Free

(* No processor stops before every processor, the never started ones       *)
(* included, has reached uos_exit and been counted.                        *)
ExitRendezvous ==
  (\E p \in Proc : pc[p] = "Halted") => \A q \in Proc : pc[q] \in ExitCounted

(* The scan of the thread pool never runs past its end, so pthread_create  *)
(* never answers ERROR_OUT_OF_THREADS and the model needs no step for it.  *)
PoolNeverExhausted ==
  \A p \in Proc : pc[p] = "PC_Acquire" => tid[p] < MAX_THREADS

(* The lock as its users see it: entered by one at a time, left only by    *)
(* those who entered, until it is clobbered.                               *)
CS == INSTANCE CriticalSection WITH Users <- Proc

CriticalSectionSpec == CS!Spec

=============================================================================
