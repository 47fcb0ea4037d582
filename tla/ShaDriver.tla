----------------------------- MODULE ShaDriver -----------------------------
(***************************************************************************)
(* The second application (sw/sha_driver.c) on the kernel and the library: *)
(* the main thread reads the files, shares them out (Partition), creates   *)
(* one thread per share and joins them in order; each thread prints,       *)
(* digests the files of its share one by one and prints again.             *)
(*                                                                         *)
(* The printing before the first pthread_create, which goes through a NULL *)
(* lock and excludes nobody, is one aprintf: no other processor runs yet.  *)
(* compute_digest(f) is two steps, the fopen that truncates the output     *)
(* file and the fprintf of the digest; what is in between is private to    *)
(* the thread.  The file operations themselves are external (newlib and    *)
(* the simulator's system calls).                                          *)
(*                                                                         *)
(* The array of identifiers, workers, and the loop counter, index, of      *)
(* createWorkers and waitForWorkersToFinish are Client's threads and i.    *)
(***************************************************************************)
EXTENDS Client, Partition

ASSUME no_workersAssumption == no_workers = NTHREADS

VARIABLES
  paramsArr,  \* paramsArr[w], [s_index |-> 0, e_index |-> 0] before init
  index,      \* the loop counter of parallel_SHA_Dig_Calc on each processor
  digests     \* history: times the digest of each file has been written

shaVars == <<paramsArr, index, digests>>

Init ==
  /\ ClientInit
  /\ paramsArr = [w \in Worker |-> [s_index |-> 0, e_index |-> 0]]
  /\ index = [p \in Proc |-> 0]
  /\ digests = [f \in File |-> 0]

-----------------------------------------------------------------------------
(* application_entry, with PARALLEL = 1                                    *)

SD_Start(p) ==
  /\ PthreadAcquire(p, "AP_Start", "SD_Print")
  /\ UNCHANGED <<localVars, clientVars, shaVars>>

SD_Print(p) ==
  /\ PthreadRelease(p, "SD_Print", "SD_Divide")
  /\ UNCHANGED <<localVars, clientVars, shaVars>>

SD_Divide(p) ==
  /\ Jump(p, "SD_Divide", "PC_Check")
  /\ paramsArr' = [w \in Worker |-> params(w)]
  /\ UNCHANGED <<lockVars, devVars, uosVars, localVars, poolVars, clientVars,
                 index, digests>>

(* pthread_create(&workers[index], NULL, ..., &paramsArr[index])           *)
SD_Create(p) ==
  /\ PC_Describe(p, i)
  /\ UNCHANGED <<clientVars, shaVars>>

SD_Created(p) ==
  /\ Jump(p, "PC_Return", IF i + 1 = no_workers THEN "SD_Join" ELSE "PC_Check")
  /\ threads' = [threads EXCEPT ![i] = tid[p]]
  /\ i' = IF i + 1 = no_workers THEN 0 ELSE i + 1
  /\ UNCHANGED <<lockVars, devVars, uosVars, localVars, poolVars, runs, returns,
                 shaVars>>

(* pthread_join(workers[index], NULL)                                      *)
SD_Join(p) ==
  /\ Jump(p, "SD_Join", "PJ_Poll")
  /\ tid' = [tid EXCEPT ![p] = threads[i]]
  /\ UNCHANGED <<lockVars, devVars, uosVars, pid, reg, idx, poolVars, clientVars,
                 shaVars>>

(* Mutant: the loop ends at index < no_workers - 1.                        *)
SD_JoinedEarly(p) ==
  /\ Jump(p, "PJ_Return", IF i + 2 >= no_workers THEN "UM_Terminate" ELSE "SD_Join")
  /\ i' = i + 1
  /\ UNCHANGED <<lockVars, devVars, uosVars, localVars, poolVars, threads, runs,
                 returns, shaVars>>

SD_Joined(p) ==
  /\ Jump(p, "PJ_Return", IF i + 1 = no_workers THEN "UM_Terminate" ELSE "SD_Join")
  /\ i' = i + 1
  /\ UNCHANGED <<lockVars, devVars, uosVars, localVars, poolVars, threads, runs,
                 returns, shaVars>>

-----------------------------------------------------------------------------
(* parallel_SHA_Dig_Calc(&paramsArr[arg])                                  *)

SW_Start(p) ==
  /\ PthreadAcquire(p, "Body", "SW_StartPrint")
  /\ runs' = [runs EXCEPT ![tid[p]] = @ + 1]
  /\ UNCHANGED <<localVars, i, threads, returns, shaVars>>

SW_StartPrint(p) ==
  /\ PthreadRelease(p, "SW_StartPrint", "SW_Digest")
  /\ index' = [index EXCEPT ![p] = paramsArr[arg[tid[p]]].s_index]
  /\ UNCHANGED <<localVars, clientVars, paramsArr, digests>>

(* Mutant: index <= param->e_index.                                        *)
SW_DigestOneMore(p) ==
  /\ LET more == index[p] \leq paramsArr[arg[tid[p]]].e_index
     IN  Jump(p, "SW_Digest", IF more THEN "SW_Write" ELSE "SW_Finish")
  /\ UNCHANGED <<lockVars, devVars, uosVars, localVars, poolVars, clientVars,
                 shaVars>>

(* index < param->e_index: the output file is opened, hence emptied.       *)
SW_Digest(p) ==
  /\ LET more == index[p] < paramsArr[arg[tid[p]]].e_index
     IN  Jump(p, "SW_Digest", IF more THEN "SW_Write" ELSE "SW_Finish")
  /\ UNCHANGED <<lockVars, devVars, uosVars, localVars, poolVars, clientVars,
                 shaVars>>

SW_Write(p) ==
  /\ Jump(p, "SW_Write", "SW_Digest")
  /\ digests' = [digests EXCEPT ![index[p]] = @ + 1]
  /\ index' = [index EXCEPT ![p] = index[p] + 1]
  /\ UNCHANGED <<lockVars, devVars, uosVars, localVars, poolVars, clientVars,
                 paramsArr>>

SW_Finish(p) ==
  /\ PthreadAcquire(p, "SW_Finish", "SW_FinishPrint")
  /\ UNCHANGED <<localVars, clientVars, shaVars>>

SW_FinishPrint(p) ==
  /\ PthreadRelease(p, "SW_FinishPrint", "TC_Clear")
  /\ returns' = [returns EXCEPT ![tid[p]] = @ + 1]
  /\ UNCHANGED <<localVars, i, threads, runs, shaVars>>

-----------------------------------------------------------------------------
ShaStep(p) ==
  \/ SD_Start(p) \/ SD_Print(p) \/ SD_Divide(p) \/ SD_Create(p) \/ SD_Created(p)
  \/ SD_Join(p) \/ SD_Joined(p)
  \/ SW_Start(p) \/ SW_StartPrint(p) \/ SW_Digest(p) \/ SW_Write(p)
  \/ SW_Finish(p) \/ SW_FinishPrint(p)

(* As in AppDemo: one instruction of a processor that is not paused.       *)
Step(p) ==
  /\ ~paused[p]
  /\ (LibraryStep(p) /\ UNCHANGED <<clientVars, shaVars>>) \/ ShaStep(p)

Next == \E p \in Proc : Step(p)

Spec == Init /\ [][Next]_<<vars, shaVars>>

-----------------------------------------------------------------------------
Label ==
  KernelSection \cup PthreadSection \cup PthreadOutside
    \cup {"SD_Print", "SD_Divide", "SD_Join", "SW_StartPrint", "SW_Digest",
          "SW_Write", "SW_Finish", "SW_FinishPrint"}

(* Every variable keeps its type.                                          *)
TypeOK ==
  /\ ClientTypeOK
  /\ pc \in [Proc -> Label]
  /\ paramsArr \in [Worker -> [s_index : 0 .. no_files, e_index : 0 .. no_files]]
  /\ index \in [Proc -> 0 .. no_files]
  /\ digests \in [File -> Nat]

(* As in AppDemo: a processor of which CanStep says so has a step.         *)
CanStepIsEnabled == \A p \in Proc : CanStep(p) => ENABLED Step(p)

(* Between a file's fopen and its fprintf nobody else opens it, and no     *)
(* file is digested twice.                                                 *)
DigestedAtMostOnce ==
  /\ \A f \in File : digests[f] \leq 1
  /\ \A p, q \in Proc :
       pc[p] = "SW_Write" /\ pc[q] = "SW_Write" /\ index[p] = index[q] => p = q

(* Once the main thread has joined the workers every file has been         *)
(* digested, and nobody is writing any more.                               *)
JoinedIsDigested ==
  SHOULD_TERMINATE \/ (\E p \in Proc : pc[p] = "UM_Terminate") =>
    /\ \A f \in File : digests[f] \geq 1
    /\ ~clobbered => \A p \in Proc : pc[p] # "SW_Write"

(* As long as the lock has not been clobbered, no two processors run one   *)
(* worker, so "different files" are digested "by different threads".       *)
DigestedOnce == ~clobbered => DigestedAtMostOnce

(* A worker is never refused a processor.                                  *)
ProcessorForEveryWorker == \A p \in Proc : pc[p] # "SP_Fail"

=============================================================================
