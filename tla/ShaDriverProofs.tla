--------------------------- MODULE ShaDriverProofs --------------------------
(***************************************************************************)
(* Proofs about the SHA application, for every number of files, workers,   *)
(* processors and pool entries: it uses the library as Client says, and,   *)
(* while the lock is sound, no file is digested twice or by two threads at *)
(* once; when the main thread has joined its workers every file has been   *)
(* digested.                                                               *)
(*                                                                         *)
(* Three arguments meet: the shares of Partition cover the files and are   *)
(* disjoint; one processor at a time runs a thread (OneHolder, from        *)
(* ClientProofs), and that thread's argument is its own number       *)
(* (ArgIsTid); and a thread digests its share from the left (Digested,     *)
(* Fresh).                                                                 *)
(***************************************************************************)
EXTENDS ShaDriver, ClientProofs

-----------------------------------------------------------------------------
(* Partition: each file belongs to exactly one worker's share.             *)

(* The worker that is given the remainder.                                 *)
last == no_workers - 1

(* The sizes are natural numbers.                                          *)
LEMMA Sizes ==
  /\ partition_size \in Nat
  /\ no_files \in Nat
  /\ no_workers \in Nat \ {0}
  /\ last \in Worker
  /\ no_files % no_workers \in Nat
<1>1. MAX_NO_FILES \in Nat /\ no_workers \in Nat \ {0} /\ no_files = MAX_NO_FILES
  BY PartitionAssumption
<1>2. QED
  BY <1>1 DEF partition_size, Worker, last

(* The last share ends where the files do.                                 *)
LEMMA LastShare ==
  last * partition_size + partition_size + (no_files % no_workers) = no_files
<1>1. no_files = no_workers * partition_size + (no_files % no_workers)
  BY PartitionAssumption DEF partition_size
<1>2. no_workers * partition_size = last * partition_size + partition_size
  BY Sizes DEF last
<1> HIDE DEF last
<1>3. QED
  BY <1>1, <1>2, Sizes DEF Worker

(* Shares of partition_size files, one after the other.                    *)
LEMMA ProductSteps ==
  \A v, w, q \in Nat : v < w => v * q + q <= w * q
<1> SUFFICES ASSUME NEW v \in Nat, NEW w \in Nat, NEW q \in Nat, v < w
             PROVE  v * q + q <= w * q
  OBVIOUS
<1> DEFINE d == w - (v + 1)
<1>1. d \in Nat /\ w = v + 1 + d
  OBVIOUS
<1>2. w * q = v * q + q + d * q
  BY <1>1
<1>3. d * q \in Nat /\ v * q \in Nat /\ w * q \in Nat
  BY <1>1
<1> HIDE DEF d
<1>4. QED
  BY <1>2, <1>3

(* Every share consists of files that exist.                               *)
THEOREM SharesExist == \A w \in Worker : Share(w) \subseteq File
<1> SUFFICES ASSUME NEW w \in Worker, NEW f \in Share(w) PROVE f \in File
  OBVIOUS
<1>1. w \in Nat /\ w * partition_size \in Nat /\ f \in Int /\ f >= w * partition_size
  BY Sizes DEF Worker, Share, params
<1>2. CASE w = last
  BY <1>1, <1>2, LastShare, Sizes DEF Share, params, File, last
<1>3. CASE w # last
  <2>1. w < last /\ last \in Nat
    BY <1>3, Sizes DEF Worker, last
  <2>2. w * partition_size + partition_size <= last * partition_size
    BY <1>1, <2>1, Sizes, ProductSteps
  <2>3. f < w * partition_size + partition_size
    BY <1>1, <1>3, Sizes DEF Share, params, last
  <2>4. last * partition_size \in Nat
    BY <2>1, Sizes
  <2> HIDE DEF last
  <2>5. QED
    BY <1>1, <2>2, <2>3, <2>4, LastShare, Sizes DEF File
<1>4. QED
  BY <1>2, <1>3

(* No file is in two shares: no two workers truncate each other's digests. *)
THEOREM SharesDisjoint ==
  \A v, w \in Worker : v # w => Share(v) \cap Share(w) = {}
<1>1. ASSUME NEW v \in Worker, NEW w \in Worker, v < w
      PROVE  Share(v) \cap Share(w) = {}
  <2> SUFFICES ASSUME NEW f \in Share(v), f \in Share(w) PROVE FALSE
    OBVIOUS
  <2>1. v \in Nat /\ w \in Nat /\ v # last
    BY <1>1, Sizes DEF Worker, last
  <2>2. v * partition_size \in Nat /\ w * partition_size \in Nat
    BY <2>1, Sizes
  <2>3. v * partition_size + partition_size <= w * partition_size
    BY <1>1, <2>1, Sizes, ProductSteps
  <2>4. f \in Int /\ f < v * partition_size + partition_size
    BY <2>1, <2>2, Sizes DEF Share, params, last
  <2>5. f >= w * partition_size
    BY <2>2 DEF Share, params
  <2>6. QED
    BY <2>2, <2>3, <2>4, <2>5, Sizes
<1>2. QED
  BY <1>1 DEF Worker

(* Every file is in some share, the remainder of the division included.    *)
THEOREM SharesCover == \A f \in File : \E w \in Worker : f \in Share(w)
<1> SUFFICES ASSUME NEW f \in File PROVE \E w \in Worker : f \in Share(w)
  OBVIOUS
<1>1. f \in Nat /\ f < no_files /\ last \in Nat /\ last * partition_size \in Nat
  BY Sizes DEF File, Worker
<1>2. CASE f >= last * partition_size
  <2>1. params(last).s_index = last * partition_size /\ params(last).e_index = no_files
    BY LastShare, Sizes DEF params, last
  <2>2. f \in Share(last)
    BY <1>1, <1>2, <2>1, Sizes DEF Share
  <2>3. QED
    BY <2>2, Sizes
<1>3. CASE f < last * partition_size
  <2>1. partition_size > 0
    BY <1>1, <1>3, Sizes
  <2> DEFINE w == f \div partition_size
  <2>2. w \in Nat /\ w * partition_size <= f /\ f < w * partition_size + partition_size
    BY <1>1, <2>1, Sizes
  <2> HIDE DEF w
  <2>3. w < last
    <3>1. last < w => last * partition_size + partition_size <= w * partition_size
      BY <1>1, <2>2, Sizes, ProductSteps
    <3>2. w * partition_size \in Nat
      BY <2>2, Sizes
    <3> HIDE DEF last
    <3>3. QED
      BY <1>1, <1>3, <2>1, <2>2, <3>1, <3>2, Sizes
  <2>4. w \in Worker /\ w # no_workers - 1
    BY <2>2, <2>3, Sizes DEF Worker, last
  <2>5. f \in Share(w)
    BY <1>1, <2>2, <2>4, Sizes DEF Share, params
  <2>6. QED
    BY <2>4, <2>5
<1>4. QED
  BY <1>1, <1>2, <1>3, Sizes

-----------------------------------------------------------------------------
(* The inductive invariant.                                                *)

(* What the main program goes through before the files are shared out.     *)
First == PreBoot \cup {"US_Release", "AP_Start", "SD_Print", "SD_Divide"}

(* parallel_SHA_Dig_Calc, and the part of it where index has been set.     *)
Looping == {"SW_Digest", "SW_Write", "SW_Finish", "SW_FinishPrint"}
Working == {"SW_StartPrint"} \cup Looping

(* The files are shared out before the first thread is created.            *)
Divided ==
  /\ pc[0] \in First => i = 0
  /\ pc[0] \notin First => paramsArr = [w \in Worker |-> params(w)]

(* The thread with identifier t is the one created in turn t of the loop   *)
(* and has t for its argument.                                             *)
ArgIsTid == \A t \in Tid : t < UpTo(Described) => arg[t] = t

(* A worker's index is in its share, and at its end when it leaves it.     *)
IndexInShare ==
  \A q \in Proc : pc[q] \in Looping =>
    /\ params(tid[q]).s_index \leq index[q]
    /\ index[q] \leq params(tid[q]).e_index
    /\ pc[q] = "SW_Write" => index[q] < params(tid[q]).e_index
    /\ pc[q] \in {"SW_Finish", "SW_FinishPrint"} => index[q] = params(tid[q]).e_index

(* The files a worker has passed have been digested, all of them when it   *)
(* has returned.                                                           *)
Digested ==
  /\ \A q \in Proc : pc[q] \in Looping =>
       \A f \in Share(tid[q]) : f < index[q] => digests[f] \geq 1
  /\ \A w \in Worker : returns[w] \geq 1 => \A f \in Share(w) : digests[f] \geq 1

(* The files it has not reached have not, nor those of a worker that has   *)
(* not been entered.                                                       *)
Fresh ==
  ~clobbered =>
    /\ \A q \in Proc : pc[q] = "SW_StartPrint" =>
         \A f \in Share(tid[q]) : digests[f] = 0
    /\ \A q \in Proc : pc[q] \in Looping =>
         \A f \in Share(tid[q]) : index[q] \leq f => digests[f] = 0
    /\ \A w \in Worker : runs[w] = 0 => \A f \in Share(w) : digests[f] = 0
    /\ \A f \in File : digests[f] \leq 1

SInv ==
  /\ TypeOK
  /\ Divided
  /\ ArgIsTid
  /\ IndexInShare
  /\ Digested
  /\ Fresh

-----------------------------------------------------------------------------
(* A share is a range of files.                                            *)
LEMMA ShareInFiles ==
  \A w \in Worker : /\ params(w).s_index \in Nat /\ params(w).e_index \in Nat
                    /\ params(w).s_index \leq params(w).e_index
                    /\ params(w).e_index \leq no_files
<1> SUFFICES ASSUME NEW w \in Worker
             PROVE  /\ params(w).s_index \in Nat /\ params(w).e_index \in Nat
                    /\ params(w).s_index \leq params(w).e_index
                    /\ params(w).e_index \leq no_files
  OBVIOUS
<1>1. w \in Nat /\ w * partition_size \in Nat
  BY Sizes DEF Worker
<1>2. CASE w = last
  <2>1. params(w).s_index = w * partition_size /\ params(w).e_index = no_files
    BY <1>2, LastShare, Sizes DEF params, last
  <2>2. w * partition_size \leq no_files
    BY <1>1, <1>2, LastShare, Sizes
  <2> QED BY <1>1, <2>1, <2>2, Sizes
<1>3. CASE w # last
  <2>1. w < last /\ last \in Nat
    BY <1>3, Sizes DEF Worker, last
  <2>2. w * partition_size + partition_size <= last * partition_size
    BY <1>1, <2>1, Sizes, ProductSteps
  <2>3. /\ params(w).s_index = w * partition_size
        /\ params(w).e_index = w * partition_size + partition_size
    BY <1>1, <1>3, Sizes DEF params, last
  <2>4. last * partition_size \in Nat
    BY <2>1, Sizes
  <2> HIDE DEF last
  <2> QED BY <1>1, <2>2, <2>3, <2>4, LastShare, Sizes
<1> QED BY <1>2, <1>3

(* The workers are threads of the pool.                                    *)
LEMMA WorkersAreTids ==
  /\ NTHREADS \in Nat /\ no_workers = NTHREADS
  /\ Worker = 0 .. NTHREADS - 1 /\ Worker \subseteq Tid
  BY NTHREADSAssumption, MAX_THREADSAssumption, no_workersAssumption DEF Worker, Tid

-----------------------------------------------------------------------------
(* The SHA application implements Client.                                  *)

USE DEF ShaStep, SD_Start, SD_Print, SD_Divide, SD_Create, SD_Created, SD_Join,
  SD_Joined, SW_Start, SW_StartPrint, SW_Digest, SW_Write, SW_Finish, SW_FinishPrint

(* Every instruction of sha_driver.c is one that a client may execute.     *)
LEMMA StepIsClient ==
  ASSUME NEW p \in Proc, Step(p)
  PROVE  ClientStep(p)
<1> USE DEF UseStep, SpawnWork, SpawnPrint, JoinWork, JoinPrint, ThreadPrint, ThreadWork
<1> HIDE DEF ShaStep
<1>1. CASE LibraryStep(p) /\ UNCHANGED <<clientVars, shaVars>>
  BY <1>1 DEF Step, ClientStep
<1>2. CASE ShaStep(p)
  <2> SUFFICES UseStep(p)
    BY <1>2 DEF Step, ClientStep
  <2>1. CASE SD_Start(p)
    BY <2>1 DEF SpawnAcquire
  <2>2. CASE SD_Print(p)
    BY <2>2 DEF SpawnRelease
  <2>3. CASE SD_Divide(p)
    BY <2>3 DEF Spawn
  <2>4. CASE SD_Create(p)
    BY <2>4 DEF Create
  <2>5. CASE SD_Created(p)
    BY <2>5, WorkersAreTids DEF Created
  <2>6. CASE SD_Join(p)
    BY <2>6 DEF Join
  <2>7. CASE SD_Joined(p)
    BY <2>7, WorkersAreTids DEF JoinDone
  <2>8. CASE SW_Start(p)
    BY <2>8 DEF Enter
  <2>9. CASE SW_StartPrint(p)
    BY <2>9 DEF PrintDone
  <2>10. CASE SW_Digest(p)
    BY <2>10 DEF Work
  <2>11. CASE SW_Write(p)
    BY <2>11 DEF Work
  <2>12. CASE SW_Finish(p)
    BY <2>12 DEF PrintAgain
  <2>13. CASE SW_FinishPrint(p)
    BY <2>13 DEF Return
  <2> QED BY <1>2, <2>1, <2>2, <2>3, <2>4, <2>5, <2>6, <2>7, <2>8, <2>9, <2>10,
             <2>11, <2>12, <2>13 DEF ShaStep
<1> QED BY <1>1, <1>2 DEF Step

(* application_entry and parallel_SHA_Dig_Calc use the library as Client   *)
(* allows, so what is proved of ClientSpec holds of the SHA application.   *)
THEOREM DriverIsClient == Spec => ClientSpec
<1>1. Init => ClientInit
  BY DEF Init
<1>2. [Next]_<<vars, shaVars>> => [ClientNext]_vars
  BY StepIsClient DEF Next, ClientNext
<1> QED BY <1>1, <1>2, PTL DEF Spec, ClientSpec

(* So every thread is entered once, joined after it has returned, and goes *)
(* through the life the library promises; the processors stop together,    *)
(* after a bounded number of accesses; never do all of them wait for one   *)
(* another, nor the lock's owner at all, who gives it back after a bounded *)
(* number of accesses, with nobody else in any section (RunsOnce,          *)
(* JoinedIsDone, ExitRendezvous, DeadlockFree, OwnersCanStep,              *)
(* SectionsAdvance, SectionsExclude, ShutdownAdvances, ThreadLifeSpec).    *)
THEOREM DriverUsesThreads ==
  Spec => /\ [](RunsOnce /\ JoinedIsDone /\ ExitRendezvous /\ DeadlockFree)
          /\ [](SectionsExclude /\ OwnersCanStep) /\ SectionsAdvance
          /\ ShutdownAdvances /\ ThreadLifeSpec /\ CriticalSectionSpec
  BY DriverIsClient, EntersOnce, JoinWaits, ExitsTogether, NobodyStuck, OwnersGoOn,
     NullLockExcludes, SectionsBounded, ShutdownIsBounded, ThreadLifeRefinement,
     LockRefinement, PTL

(* createWorkers: each worker gets a processor when there are fewer        *)
(* workers than processors (ProcessorForEveryWorker), in whatever order    *)
(* the processors boot.                                                    *)
THEOREM EnoughProcessors ==
  ASSUME no_workers < NPROCS
  PROVE  Spec => []ProcessorForEveryWorker
<1>1. NTHREADS < NPROCS
  BY no_workersAssumption
<1>2. ClientSpec => []ProcessorForEveryWorker
  BY <1>1, NeverRefused DEF ProcessorForEveryWorker
<1> QED BY <1>2, DriverIsClient, PTL

(* With as many workers as processors, or more, the main program does not  *)
(* come out of createWorkers: it never returns to uos_main.                *)
THEOREM TooManyWorkers ==
  ASSUME no_workers >= NPROCS
  PROVE  Spec => []~SHOULD_TERMINATE
<1>1. NTHREADS >= NPROCS
  BY no_workersAssumption
<1>2. ClientSpec => []~SHOULD_TERMINATE
  BY <1>1, TooManyNeverReturn
<1> QED BY <1>2, DriverIsClient, PTL

-----------------------------------------------------------------------------
(* What a step does to the variables of the invariant.                     *)

USE DEF LibraryStep, UosStep, PthreadStep, US_Acquire, US_Check, US_InitOwn,
  US_InitOther, US_SetInit, US_Load, US_Store, US_Release, AL_Test,
  AL_Acquire, AL_Read, AL_Release, SP_Acquire, SP_Scan, SP_Write,
  SP_Release1, SP_Release2, SP_Fail, UM_Terminate, UE_Acquire, UE_Load,
  UE_Store, UE_SetTerm, UE_Resume, UE_Release, UE_Wait, PC_Check,
  PC_InitAcquire, PC_Recheck, PC_InitPool, PC_SetInit, PC_InitRelease,
  PC_Acquire, PC_Scan, PC_Claim, PC_ClaimRelease, PC_Skip, PJ_Poll,
  PJ_Acquire, PJ_Release, AL_Call, TC_Run, TC_Test, TC_Call, TC_Clear,
  TC_Finish, PC_Describe, Jump, Acquire, Release, PthreadAcquire,
  PthreadRelease

(* A step leads to a label of this application.                            *)
LEMMA StepLabels ==
  ASSUME pc \in [Proc -> Label], NEW p \in Proc, Step(p)
  PROVE  pc' \in [Proc -> Label]
<1> USE DEF Label, KernelSection, PthreadSection, PthreadOutside
<1>1. CASE UosStep(p) /\ UNCHANGED <<poolVars, clientVars, shaVars>>
  BY <1>1
<1>2. CASE PthreadStep(p) /\ UNCHANGED <<clientVars, shaVars>>
  BY <1>2
<1>3. CASE ShaStep(p)
  BY <1>3
<1> QED BY <1>1, <1>2, <1>3 DEF Step

(* A step outside parallel_SHA_Dig_Calc: the digests and the indices stay, *)
(* and no processor enters or leaves the function.                         *)
Elsewhere(p) ==
  /\ pc[p] \notin Working /\ pc'[p] \notin Working
  /\ \A q \in Proc : q # p => pc'[q] = pc[q] /\ tid'[q] = tid[q]
  /\ UNCHANGED <<index, digests, runs, returns>>

(* A step is inside the function or elsewhere.                             *)
LEMMA StepElsewhere ==
  ASSUME pc \in [Proc -> Label], NEW p \in Proc, Step(p)
  PROVE  \/ Elsewhere(p) \/ SW_Start(p) \/ SW_StartPrint(p) \/ SW_Digest(p)
         \/ SW_Write(p) \/ SW_Finish(p) \/ SW_FinishPrint(p)
<1> HIDE DEF SW_Start, SW_StartPrint, SW_Digest, SW_Write, SW_Finish, SW_FinishPrint
<1> USE DEF Elsewhere, Working, Looping, lockVars, devVars, uosVars, localVars,
        poolVars, clientVars, shaVars
<1>1. CASE UosStep(p) /\ UNCHANGED <<poolVars, clientVars, shaVars>>
  BY <1>1
<1>2. CASE PthreadStep(p) /\ UNCHANGED <<clientVars, shaVars>>
  <2>1. CASE PC_Check(p)
    BY <1>2, <2>1
  <2>2. CASE PC_Skip(p)
    BY <1>2, <2>2
  <2>3. CASE AL_Call(p)
    BY <1>2, <2>3
  <2>4. CASE PC_InitAcquire(p) \/ PC_Recheck(p) \/ PC_InitPool(p) \/ PC_SetInit(p)
             \/ PC_InitRelease(p) \/ PC_Acquire(p) \/ PC_Scan(p) \/ PC_Claim(p)
             \/ PC_ClaimRelease(p)
    BY <1>2, <2>4
  <2>5. CASE PJ_Poll(p) \/ PJ_Acquire(p) \/ PJ_Release(p) \/ TC_Run(p) \/ TC_Test(p)
             \/ TC_Call(p) \/ TC_Clear(p) \/ TC_Finish(p)
    BY <1>2, <2>5
  <2> QED BY <1>2, <2>1, <2>2, <2>3, <2>4, <2>5
<1>3. CASE ShaStep(p)
  <2>1. CASE SD_Join(p)
    BY <1>3, <2>1
  <2>2. CASE SD_Start(p) \/ SD_Print(p) \/ SD_Divide(p) \/ SD_Create(p) \/ SD_Created(p)
             \/ SD_Joined(p)
    BY <1>3, <2>2
  <2> QED BY <1>3, <2>1, <2>2
<1> QED BY <1>1, <1>2, <1>3 DEF Step

(* The main program shares the files out when it leaves its first part.    *)
LEMMA StepDivide ==
  ASSUME pc \in [Proc -> Label], MainIsZero, PidZero, NEW p \in Proc, Step(p)
  PROVE  /\ pc'[0] \in First => pc[0] \in First /\ i' = i
         /\ \/ paramsArr' = paramsArr /\ ~(pc[0] \in First /\ pc'[0] \notin First)
            \/ paramsArr' = [w \in Worker |-> params(w)]
<1> USE ZeroProc DEF MainIsZero, Main, PidZero, First, PreBoot, BootInit, SpawnWork,
        SpawnPrint, JoinWork, JoinPrint, lockVars, devVars, uosVars, localVars,
        poolVars, clientVars, shaVars
<1> HIDE DEF params
<1>1. CASE UosStep(p) /\ UNCHANGED <<poolVars, clientVars, shaVars>>
  BY <1>1
<1>2. CASE PthreadStep(p) /\ UNCHANGED <<clientVars, shaVars>>
  BY <1>2
<1>3. CASE ShaStep(p)
  BY <1>3
<1> QED BY <1>1, <1>2, <1>3 DEF Step

(* The arguments of the threads: cleared with the pool, then stored by     *)
(* pthread_create.                                                         *)
LEMMA StepArg ==
  ASSUME pc \in [Proc -> Label], MainIsZero, NEW p \in Proc, Step(p)
  PROVE  \/ arg' = arg /\ pc[p] # "PC_Describe"
         \/ p = 0 /\ pc[0] = "PC_InitPool" /\ arg' = [t \in Tid |-> 0]
         \/ p = 0 /\ pc[0] = "PC_Describe" /\ arg' = [arg EXCEPT ![tid[0]] = i]
<1> USE ZeroProc DEF MainIsZero, Main, poolVars
<1>1. CASE UosStep(p) /\ UNCHANGED <<poolVars, clientVars, shaVars>>
  BY <1>1
<1>2. CASE PthreadStep(p) /\ UNCHANGED <<clientVars, shaVars>>
  BY <1>2
<1>3. CASE ShaStep(p)
  BY <1>3
<1> QED BY <1>1, <1>2, <1>3 DEF Step

-----------------------------------------------------------------------------
(* The invariant is kept.                                                  *)

(* No count of threads exceeds the number of workers.                      *)
LEMMA CountsBounded ==
  ASSUME TInv
  PROVE  /\ UpTo(Handed) \in Nat /\ UpTo(Described) \in Nat
         /\ UpTo(Handed) \leq UpTo(Described) /\ UpTo(Handed) \leq NTHREADS
<1>1. i \in Nat /\ i \leq NTHREADS /\ (~Spawned => i < NTHREADS)
  BY WorkersAreTids
  DEF TInv, PInv, IInv, ClientTypeOK, CounterInRange, Spawned, Joining
<1> QED BY <1>1, WorkersAreTids DEF UpTo, Described

(* A processor that runs a thread is a worker with the share of its number.*)
LEMMA WorkerKnowsShare ==
  ASSUME TInv, SInv, NEW q \in Proc, pc[q] \in Running
  PROVE  tid[q] \in Worker /\ paramsArr[arg[tid[q]]] = params(tid[q])
<1>1. tid[q] \in Tid /\ tid[q] < UpTo(Handed)
  BY RunningTids DEF TInv
<1>2. tid[q] \in Nat
  BY <1>1, MAX_THREADSAssumption DEF Tid
<1>3. tid[q] \in Worker
  BY <1>1, <1>2, CountsBounded, WorkersAreTids
<1>4. arg[tid[q]] = tid[q]
  BY <1>1, <1>2, CountsBounded DEF SInv, ArgIsTid
<1>5. pc[0] \notin First
  <2>1. pc[0] \in First => i = 0 /\ UpTo(Handed) = i
    BY DEF SInv, Divided, First, PreBoot, BootInit, UpTo, Spawned, Joining, Exiting,
           ExitCounted, Handed, JoinWork, JoinPrint
  <2> QED BY <1>1, <1>2, <2>1
<1>6. paramsArr = [w \in Worker |-> params(w)]
  BY <1>5 DEF SInv, Divided
<1> QED BY <1>3, <1>4, <1>6

(* The files are shared out once, before anybody needs to know.            *)
LEMMA StepDivided ==
  ASSUME TInv, SInv, NEW p \in Proc, Step(p)
  PROVE  Divided'
<1>1. pc \in [Proc -> Label] /\ MainIsZero /\ PidZero /\ Divided
  BY DEF SInv, TypeOK, TInv, PInv, IInv
<1> QED BY ONLY <1>1, p \in Proc, Step(p), StepDivide DEF Divided

(* Turn i of createWorkers describes thread i and gives it argument i.     *)
LEMMA StepArgIsTid ==
  ASSUME TInv, SInv, NEW p \in Proc, Step(p)
  PROVE  ArgIsTid'
<1>1. /\ pc \in [Proc -> Label] /\ pc \in [Proc -> ClientLabel] /\ ArgIsTid
      /\ arg \in [Tid -> Nat] /\ i \in 0 .. NTHREADS
  BY DEF SInv, TypeOK, TInv, PInv, IInv, ClientTypeOK, PthreadTypeOK
<1>2. MainIsZero /\ ZeroIsMain /\ CounterInRange /\ PoolInit /\ ScanFollows
  BY DEF TInv, PInv, IInv
<1>3. \/ UpTo(Described)' = UpTo(Described)
      \/ p = 0 /\ pc[0] = "PC_Describe" /\ UpTo(Described) = i
         /\ UpTo(Described)' = i + 1
  BY ONLY <1>1, <1>2, p \in Proc, Step(p), StepUpTo, StepIsClient
<1>4. \/ arg' = arg /\ pc[p] # "PC_Describe"
      \/ p = 0 /\ pc[0] = "PC_InitPool" /\ arg' = [t \in Tid |-> 0]
      \/ p = 0 /\ pc[0] = "PC_Describe" /\ arg' = [arg EXCEPT ![tid[0]] = i]
  BY ONLY <1>1, <1>2, p \in Proc, Step(p), StepArg
<1>5. /\ pc[0] = "PC_InitPool" => UpTo(Described) = 0
      /\ pc[0] = "PC_Describe" => UpTo(Described) = i /\ tid[0] = i
  BY ONLY <1>2
  DEF UpTo, Spawned, Joining, Exiting, ExitCounted, Described, Handed, PoolInit,
      ScanFollows, Claimed, JoinWork, JoinPrint
<1>6. \A t \in Tid : t \in Nat
  BY MAX_THREADSAssumption DEF Tid
<1>7. i \in Nat
  BY <1>1, WorkersAreTids
<1> SUFFICES ASSUME NEW t \in Tid, t < UpTo(Described)' PROVE arg'[t] = t
  BY DEF ArgIsTid
<1>8. CASE arg' = arg /\ pc[p] # "PC_Describe"
  BY ONLY <1>1, <1>3, <1>8, t \in Tid, t < UpTo(Described)' DEF ArgIsTid
<1>9. CASE p = 0 /\ pc[0] = "PC_InitPool" /\ arg' = [x \in Tid |-> 0]
  BY ONLY <1>3, <1>5, <1>6, <1>9, t \in Tid, t < UpTo(Described)'
<1>10. CASE p = 0 /\ pc[0] = "PC_Describe" /\ arg' = [arg EXCEPT ![tid[0]] = i]
  <2>1. t = i \/ t < UpTo(Described)
    BY ONLY <1>3, <1>5, <1>6, <1>7, <1>10, t \in Tid, t < UpTo(Described)'
  <2> QED BY ONLY <1>1, <1>5, <1>6, <1>10, <2>1, t \in Tid DEF ArgIsTid
<1> QED BY <1>4, <1>8, <1>9, <1>10

(* What a processor inside the function knows.                             *)
LEMMA WorkerFacts ==
  ASSUME TInv, SInv, NEW q \in Proc, pc[q] \in Working
  PROVE  /\ tid[q] \in Worker /\ tid[q] \in Tid
         /\ paramsArr[arg[tid[q]]] = params(tid[q])
         /\ params(tid[q]).s_index \in Nat /\ params(tid[q]).e_index \in Nat
         /\ params(tid[q]).s_index \leq params(tid[q]).e_index
         /\ params(tid[q]).e_index \leq no_files /\ no_files \in Nat
         /\ index \in [Proc -> 0 .. no_files] /\ digests \in [File -> Nat]
         /\ ~clobbered => runs[tid[q]] \geq 1 /\ returns[tid[q]] = 0
<1>1. pc[q] \in Running /\ pc[q] \in InFunction
  BY DEF Working, Looping, Running, InFunction, ThreadPrint, ThreadWork
<1>2. tid[q] \in Worker /\ paramsArr[arg[tid[q]]] = params(tid[q])
  BY <1>1, WorkerKnowsShare
<1>3. ~clobbered => runs[tid[q]] \geq 1 /\ returns[tid[q]] = 0
  BY <1>1 DEF TInv, Callable
<1> QED BY <1>2, <1>3, ShareInFiles, WorkersAreTids, Sizes DEF SInv, TypeOK

(* A worker's index goes from the first file of its share to the last.     *)
LEMMA StepIndexInShare ==
  ASSUME TInv, SInv, NEW p \in Proc, Step(p)
  PROVE  IndexInShare'
<1> USE DEF Working, Looping, localVars
<1>1. pc \in [Proc -> Label] /\ IndexInShare
  BY DEF SInv, TypeOK
<1> SUFFICES ASSUME NEW q \in Proc, pc'[q] \in Looping
             PROVE  /\ params(tid'[q]).s_index \leq index'[q]
                    /\ index'[q] \leq params(tid'[q]).e_index
                    /\ pc'[q] = "SW_Write" => index'[q] < params(tid'[q]).e_index
                    /\ pc'[q] \in {"SW_Finish", "SW_FinishPrint"} =>
                         index'[q] = params(tid'[q]).e_index
  BY DEF IndexInShare
<1>2. CASE Elsewhere(p)
  BY <1>1, <1>2 DEF Elsewhere, IndexInShare
<1>3. CASE SW_Start(p)
  BY <1>1, <1>3 DEF IndexInShare, shaVars
<1>4. CASE SW_StartPrint(p)
  BY <1>1, <1>4, WorkerFacts DEF IndexInShare, shaVars
<1>5. CASE SW_Digest(p)
  BY <1>1, <1>5, WorkerFacts DEF IndexInShare, shaVars
<1>6. CASE SW_Write(p)
  BY <1>1, <1>6, WorkerFacts DEF IndexInShare, shaVars
<1>7. CASE SW_Finish(p)
  BY <1>1, <1>7, WorkerFacts DEF IndexInShare, shaVars
<1>8. CASE SW_FinishPrint(p)
  BY <1>1, <1>8, WorkerFacts DEF IndexInShare, shaVars
<1> QED BY <1>1, <1>2, <1>3, <1>4, <1>5, <1>6, <1>7, <1>8, StepElsewhere

(* A file of a share.                                                      *)
LEMMA ShareFiles ==
  \A w \in Worker : \A f \in Share(w) :
    /\ f \in File /\ f \in Nat
    /\ params(w).s_index \leq f /\ f < params(w).e_index
  BY ShareInFiles, Sizes DEF Share, File

(* A worker digests its share from the left, and all of it.                *)
LEMMA StepDigested ==
  ASSUME TInv, SInv, NEW p \in Proc, Step(p)
  PROVE  Digested'
<1> USE DEF Working, Looping, localVars
<1>1. /\ pc \in [Proc -> Label] /\ Digested /\ digests \in [File -> Nat]
      /\ returns \in [Tid -> Nat]
  BY DEF SInv, TypeOK, TInv, PInv, IInv, ClientTypeOK
<1>2. ASSUME NEW q \in Proc, pc'[q] \in Looping, NEW f \in Share(tid'[q]), f < index'[q]
      PROVE  digests'[f] \geq 1
  <2>1. CASE Elsewhere(p)
    BY <1>1, <1>2, <2>1 DEF Elsewhere, Digested
  <2>2. CASE SW_Start(p)
    BY <1>1, <1>2, <2>2 DEF Digested, shaVars
  <2>3. CASE SW_StartPrint(p)
    <3>1. CASE q = p
      BY <1>1, <1>2, <2>3, <3>1, WorkerFacts, ShareFiles
    <3>2. CASE q # p
      BY <1>1, <1>2, <2>3, <3>2 DEF Digested
    <3> QED BY <3>1, <3>2
  <2>4. CASE SW_Digest(p) \/ SW_Finish(p) \/ SW_FinishPrint(p)
    BY <1>1, <1>2, <2>4 DEF Digested, shaVars
  <2>5. CASE SW_Write(p)
    <3>1. digests' = [digests EXCEPT ![index[p]] = @ + 1] /\ tid' = tid
      BY <2>5
    <3>2. pc[q] \in Looping
      BY <1>1, <1>2, <2>5
    <3>3. f \in File /\ f \in Nat /\ tid[q] \in Worker /\ index[q] \in Nat
      BY <1>2, <3>1, <3>2, WorkerFacts, ShareFiles
    <3>4. f < index[q] \/ (q = p /\ f = index[p])
      <4>1. CASE q = p
        <5>1. index' = [index EXCEPT ![p] = index[p] + 1]
          BY <2>5
        <5>2. index \in [Proc -> 0 .. no_files]
          BY DEF SInv, TypeOK
        <5>3. index'[q] = index[p] + 1
          BY ONLY <4>1, <5>1, <5>2, p \in Proc
        <5> QED BY ONLY <1>2, <3>3, <4>1, <5>3
      <4>2. CASE q # p
        <5>1. index'[q] = index[q]
          BY <1>1, <2>5, <4>2
        <5> QED BY ONLY <1>2, <5>1
      <4> QED BY <4>1, <4>2
    <3>5. f < index[q] => digests[f] \geq 1
      BY <1>1, <1>2, <3>1, <3>2 DEF Digested
    <3>6. CASE f = index[p]
      <4>1. digests'[f] = digests[f] + 1
        BY ONLY <1>1, <3>1, <3>3, <3>6
      <4> QED BY ONLY <1>1, <3>3, <4>1
    <3>7. CASE f # index[p]
      <4>1. digests'[f] = digests[f]
        BY ONLY <1>1, <3>1, <3>3, <3>7
      <4> QED BY <3>4, <3>5, <3>7, <4>1
    <3> QED BY <3>6, <3>7
  <2> QED BY <1>1, <2>1, <2>2, <2>3, <2>4, <2>5, StepElsewhere
<1>3. ASSUME NEW w \in Worker, returns'[w] \geq 1, NEW f \in Share(w)
      PROVE  digests'[f] \geq 1
  <2>1. f \in File /\ f \in Nat /\ f < params(w).e_index
    BY ShareFiles
  <2>2. digests[f] \geq 1 => digests'[f] \geq 1
    <3>1. CASE SW_Write(p)
      <4>1. digests' = [digests EXCEPT ![index[p]] = @ + 1]
        BY <3>1
      <4> QED BY ONLY <2>1, <4>1, <1>1
    <3>2. CASE ~SW_Write(p)
      BY <1>1, <3>2, StepElsewhere DEF Elsewhere, shaVars
    <3> QED BY <3>1, <3>2
  <2>3. CASE returns[w] \geq 1
    BY <1>1, <2>2, <2>3 DEF Digested
  <2>4. CASE ~(returns[w] \geq 1)
    <3>1. SW_FinishPrint(p) /\ w = tid[p]
      <4>1. CASE SW_FinishPrint(p)
        <5>1. returns' = [returns EXCEPT ![tid[p]] = @ + 1]
          BY <4>1
        <5>2. w \in Tid
          BY WorkersAreTids
        <5> QED BY ONLY <1>1, <1>3, <2>4, <4>1, <5>1, <5>2
      <4>2. CASE ~SW_FinishPrint(p)
        BY <1>1, <1>3, <2>4, <4>2, StepElsewhere DEF Elsewhere, clientVars
      <4> QED BY <4>1, <4>2
    <3>2. pc[p] = "SW_FinishPrint"
      BY <3>1
    <3>3. index[p] = params(w).e_index
      BY <3>1, <3>2 DEF SInv, IndexInShare
    <3>4. f < index[p]
      BY <2>1, <3>3
    <3>5. digests[f] \geq 1
      BY <1>1, <3>1, <3>2, <3>4 DEF Digested
    <3> QED BY <2>2, <3>5
  <2> QED BY <2>3, <2>4
<1> QED BY <1>2, <1>3 DEF Digested

(* One processor at a time runs a worker.                                  *)
LEMMA OneRunner ==
  ASSUME TInv, ~clobbered, NEW q \in Proc, NEW r \in Proc, pc[q] \in Running,
         pc[r] \in Running, tid[q] = tid[r]
  PROVE  q = r
<1>1. tid[q] \in Tid /\ Holds(q, tid[q]) /\ Holds(r, tid[q])
  BY RunningTids DEF TInv
<1> QED BY <1>1 DEF TInv, OneHolder

(* A thread that is about to be entered has not been.                      *)
LEMMA EnterNew ==
  ASSUME TInv, TInv', ~clobbered', NEW p \in Proc, SW_Start(p)
  PROVE  tid[p] \in Tid /\ runs[tid[p]] = 0
<1>1. pc[p] \in Running /\ runs' = [runs EXCEPT ![tid[p]] = @ + 1]
  BY DEF Running
<1>2. tid[p] \in Tid
  BY <1>1, RunningTids DEF TInv
<1>3. runs \in [Tid -> Nat]
  BY DEF TInv, PInv, IInv, ClientTypeOK
<1>4. \A t \in Tid : runs'[t] \leq 1
  BY DEF TInv, Returned
<1> QED BY ONLY <1>1, <1>2, <1>3, <1>4

(* No other worker touches a file of the share.                            *)
LEMMA StepFresh ==
  ASSUME TInv, TInv', SInv, NEW p \in Proc, Step(p)
  PROVE  Fresh'
<1> USE DEF Working, Looping, localVars
<1>1. /\ pc \in [Proc -> Label] /\ Fresh /\ digests \in [File -> Nat]
      /\ runs \in [Tid -> Nat] /\ index \in [Proc -> 0 .. no_files]
  BY DEF SInv, TypeOK, TInv, PInv, IInv, ClientTypeOK
<1> SUFFICES ASSUME ~clobbered' PROVE Fresh'
  BY DEF Fresh
<1>2. ~clobbered
  BY StepIsClient, StepOwners DEF TInv, PInv, IInv, ClientTypeOK, PthreadTypeOK
<1>3. /\ \A q \in Proc : pc[q] = "SW_StartPrint" =>
           \A f \in Share(tid[q]) : digests[f] = 0
      /\ \A q \in Proc : pc[q] \in Looping =>
           \A f \in Share(tid[q]) : index[q] \leq f => digests[f] = 0
      /\ \A w \in Worker : runs[w] = 0 => \A f \in Share(w) : digests[f] = 0
      /\ \A f \in File : digests[f] \leq 1
  BY <1>1, <1>2 DEF Fresh
(* The file that is written is fresh, and in no other share.               *)
<1>4. ASSUME SW_Write(p)
      PROVE  /\ index[p] \in Share(tid[p]) /\ tid[p] \in Worker /\ index[p] \in File
             /\ digests[index[p]] = 0 /\ runs[tid[p]] \geq 1
             /\ digests' = [digests EXCEPT ![index[p]] = @ + 1]
             /\ \A w \in Worker : w # tid[p] =>
                  \A f \in Share(w) : digests'[f] = digests[f]
  <2>1. pc[p] = "SW_Write" /\ digests' = [digests EXCEPT ![index[p]] = @ + 1]
    BY <1>4
  <2>2. /\ tid[p] \in Worker /\ params(tid[p]).s_index \leq index[p]
        /\ index[p] < params(tid[p]).e_index /\ index[p] \in Nat
        /\ params(tid[p]).s_index \in Nat /\ params(tid[p]).e_index \in Nat
        /\ runs[tid[p]] \geq 1
    BY <1>1, <1>2, <2>1, WorkerFacts DEF SInv, IndexInShare
  <2>3. index[p] \in Share(tid[p])
    BY ONLY <2>2 DEF Share
  <2>4. index[p] \in File /\ digests[index[p]] = 0
    BY <1>3, <2>1, <2>2, <2>3, ShareFiles
  <2>5. ASSUME NEW w \in Worker, w # tid[p], NEW f \in Share(w)
        PROVE  digests'[f] = digests[f]
    <3>1. f # index[p] /\ f \in File
      BY <2>2, <2>3, <2>5, SharesDisjoint, ShareFiles
    <3> QED BY ONLY <1>1, <2>1, <3>1
  <2> QED BY <2>1, <2>2, <2>3, <2>4, <2>5
<1>5. ASSUME NEW q \in Proc, pc'[q] = "SW_StartPrint", NEW f \in Share(tid'[q])
      PROVE  digests'[f] = 0
  <2>1. CASE Elsewhere(p)
    BY <1>1, <1>3, <1>5, <2>1 DEF Elsewhere
  <2>2. CASE SW_Start(p)
    <3>1. digests' = digests /\ tid' = tid
      BY <2>2 DEF shaVars
    <3>2. CASE q = p
      <4>1. pc'[p] \in Working /\ tid'[p] = tid[p] /\ runs[tid[p]] = 0
        BY <1>5, <2>2, <3>1, <3>2, EnterNew
      <4>2. pc[p] \in Running
        BY <2>2 DEF Running
      <4>3. tid[p] \in Worker
        BY <4>2, WorkerKnowsShare
      <4> QED BY <1>3, <1>5, <3>1, <3>2, <4>1, <4>3
    <3>3. CASE q # p
      BY <1>1, <1>3, <1>5, <2>2, <3>1, <3>3
    <3> QED BY <3>2, <3>3
  <2>3. CASE SW_StartPrint(p) \/ SW_Digest(p) \/ SW_Finish(p) \/ SW_FinishPrint(p)
    BY <1>1, <1>3, <1>5, <2>3 DEF shaVars
  <2>4. CASE SW_Write(p)
    <3>1. pc[q] = "SW_StartPrint" /\ tid' = tid /\ q # p
      BY <1>1, <1>5, <2>4
    <3>2. tid[q] \in Worker /\ tid[q] # tid[p]
      BY <1>2, <2>4, <3>1, WorkerFacts, OneRunner
      DEF Running, InFunction, ThreadPrint, ThreadWork
    <3> QED BY <1>3, <1>4, <1>5, <2>4, <3>1, <3>2
  <2> QED BY <1>1, <2>1, <2>2, <2>3, <2>4, StepElsewhere
<1>6. ASSUME NEW q \in Proc, pc'[q] \in Looping, NEW f \in Share(tid'[q]), index'[q] \leq f
      PROVE  digests'[f] = 0
  <2>1. CASE Elsewhere(p)
    BY <1>1, <1>3, <1>6, <2>1 DEF Elsewhere
  <2>2. CASE SW_Start(p)
    BY <1>1, <1>3, <1>6, <2>2 DEF shaVars
  <2>3. CASE SW_StartPrint(p)
    <3>1. digests' = digests /\ tid' = tid
      BY <2>3
    <3>2. CASE q = p
      BY <1>3, <1>6, <2>3, <3>1, <3>2
    <3>3. CASE q # p
      <4>1. pc[q] \in Looping /\ index'[q] = index[q]
        BY <1>1, <1>6, <2>3, <3>3
      <4> QED BY <1>3, <1>6, <3>1, <4>1
    <3> QED BY <3>2, <3>3
  <2>4. CASE SW_Digest(p) \/ SW_Finish(p) \/ SW_FinishPrint(p)
    BY <1>1, <1>3, <1>6, <2>4 DEF shaVars
  <2>5. CASE SW_Write(p)
    <3>1. pc[q] \in Looping /\ tid' = tid
      BY <1>1, <1>6, <2>5
    <3>2. tid[q] \in Worker /\ index[q] \in Nat
      BY <1>1, <3>1, WorkerFacts
    <3>3. f \in File /\ f \in Nat
      BY <1>6, <3>1, <3>2, ShareFiles
    <3>4. CASE q = p
      <4>1. index'[p] = index[p] + 1
        BY <1>1, <2>5
      <4>2. index[p] \leq f /\ f # index[p]
        BY ONLY <1>6, <3>2, <3>3, <3>4, <4>1
      <4>3. digests[f] = 0
        BY <1>3, <1>6, <3>1, <3>4, <4>2
      <4> QED BY <1>1, <1>4, <2>5, <3>3, <4>2, <4>3
    <3>5. CASE q # p
      <4>1. index'[q] = index[q]
        BY <1>1, <2>5, <3>5
      <4>2. tid[q] # tid[p]
        BY <1>2, <2>5, <3>1, <3>5, OneRunner
        DEF Running, InFunction, ThreadPrint, ThreadWork
      <4> QED BY <1>3, <1>4, <1>6, <2>5, <3>1, <3>2, <4>1, <4>2
    <3> QED BY <3>4, <3>5
  <2> QED BY <1>1, <2>1, <2>2, <2>3, <2>4, <2>5, StepElsewhere
<1>7. ASSUME NEW w \in Worker, runs'[w] = 0, NEW f \in Share(w)
      PROVE  digests'[f] = 0
  <2>1. runs[w] = 0
    <3>1. w \in Tid
      BY WorkersAreTids
    <3>2. CASE SW_Start(p)
      <4>1. runs' = [runs EXCEPT ![tid[p]] = @ + 1]
        BY <3>2
      <4> QED BY ONLY <1>1, <1>7, <3>1, <4>1
    <3>3. CASE ~SW_Start(p)
      BY <1>1, <1>7, <3>3, StepElsewhere DEF Elsewhere, clientVars
    <3> QED BY <3>2, <3>3
  <2>2. CASE SW_Write(p)
    <3>1. w # tid[p]
      BY <1>4, <2>1, <2>2
    <3> QED BY <1>3, <1>4, <1>7, <2>1, <2>2, <3>1
  <2>3. CASE ~SW_Write(p)
    <3>1. digests' = digests
      BY <1>1, <2>3, StepElsewhere DEF Elsewhere, shaVars
    <3> QED BY <1>3, <1>7, <2>1, <3>1
  <2> QED BY <2>2, <2>3
<1>8. ASSUME NEW f \in File PROVE digests'[f] \leq 1
  <2>1. CASE SW_Write(p)
    BY <1>1, <1>3, <1>4, <1>8, <2>1
  <2>2. CASE ~SW_Write(p)
    <3>1. digests' = digests
      BY <1>1, <2>2, StepElsewhere DEF Elsewhere, shaVars
    <3> QED BY <1>3, <1>8, <3>1
  <2> QED BY <2>1, <2>2
<1> QED BY <1>5, <1>6, <1>7, <1>8 DEF Fresh

(* Every variable keeps its type; an index stays at or below no_files      *)
(* because SW_Write is reached below the end of a share.                   *)
LEMMA StepTypeOK ==
  ASSUME TInv, TInv', SInv, NEW p \in Proc, Step(p)
  PROVE  TypeOK'
<1>1. /\ pc \in [Proc -> Label] /\ index \in [Proc -> 0 .. no_files]
      /\ digests \in [File -> Nat]
      /\ paramsArr \in [Worker -> [s_index : 0 .. no_files, e_index : 0 .. no_files]]
      /\ MainIsZero /\ PidZero
  BY DEF SInv, TypeOK, TInv, PInv, IInv
<1>2. ClientTypeOK' /\ pc' \in [Proc -> Label]
  BY <1>1, StepLabels DEF TInv, PInv, IInv
<1>3. paramsArr' \in [Worker -> [s_index : 0 .. no_files, e_index : 0 .. no_files]]
  <2>1. \A w \in Worker : params(w) \in [s_index : 0 .. no_files, e_index : 0 .. no_files]
    <3> SUFFICES ASSUME NEW w \in Worker
                 PROVE  params(w) \in [s_index : 0 .. no_files, e_index : 0 .. no_files]
      OBVIOUS
    <3>1. params(w).s_index \in 0 .. no_files /\ params(w).e_index \in 0 .. no_files
      BY ShareInFiles, Sizes
    <3>2. params(w) = [s_index |-> params(w).s_index, e_index |-> params(w).e_index]
      BY DEF params
    <3> HIDE DEF params
    <3> QED BY <3>1, <3>2
  <2>2. paramsArr' = paramsArr \/ paramsArr' = [w \in Worker |-> params(w)]
    BY <1>1, StepDivide
  <2> QED BY ONLY <1>1, <2>1, <2>2
<1>4. index' \in [Proc -> 0 .. no_files]
  <2>1. CASE SW_StartPrint(p)
    <3>1. /\ pc[p] = "SW_StartPrint"
          /\ index' = [index EXCEPT ![p] = paramsArr[arg[tid[p]]].s_index]
      BY <2>1
    <3>2. /\ paramsArr[arg[tid[p]]] = params(tid[p]) /\ params(tid[p]).s_index \in Nat
          /\ params(tid[p]).e_index \in Nat /\ no_files \in Nat
          /\ params(tid[p]).s_index \leq params(tid[p]).e_index
          /\ params(tid[p]).e_index \leq no_files
      BY <3>1, WorkerFacts DEF Working
    <3>3. params(tid[p]).s_index \in 0 .. no_files
      BY ONLY <3>2
    <3> QED BY ONLY <1>1, <3>1, <3>2, <3>3
  <2>2. CASE SW_Write(p)
    <3>1. index' = [index EXCEPT ![p] = index[p] + 1] /\ pc[p] = "SW_Write"
      BY <2>2
    <3>2. /\ index[p] < params(tid[p]).e_index /\ params(tid[p]).e_index \in Nat
          /\ params(tid[p]).e_index \leq no_files /\ no_files \in Nat
      BY <3>1, WorkerFacts DEF SInv, IndexInShare, Working, Looping
    <3>3. index[p] + 1 \in 0 .. no_files
      BY ONLY <1>1, <3>2, p \in Proc
    <3> QED BY ONLY <1>1, <3>1, <3>3
  <2>3. CASE ~SW_StartPrint(p) /\ ~SW_Write(p)
    <3>1. index' = index
      BY <1>1, <2>3, StepElsewhere DEF Elsewhere, shaVars
    <3> QED BY <1>1, <3>1
  <2> QED BY <2>1, <2>2, <2>3
<1>5. digests' \in [File -> Nat]
  <2>1. CASE SW_Write(p)
    <3>1. digests' = [digests EXCEPT ![index[p]] = @ + 1]
      BY <2>1
    <3>2. \A f \in File : digests[f] \in Nat /\ digests[f] + 1 \in Nat
      BY <1>1
    <3>3. \A f \in File :
            digests'[f] = IF f = index[p] THEN digests[f] + 1 ELSE digests[f]
      BY ONLY <1>1, <3>1
    <3> QED BY ONLY <1>1, <3>1, <3>2, <3>3
  <2>2. CASE ~SW_Write(p)
    <3>1. digests' = digests
      BY <1>1, <2>2, StepElsewhere DEF Elsewhere, shaVars
    <3> QED BY <1>1, <3>1
  <2> QED BY <2>1, <2>2
<1> QED BY <1>2, <1>3, <1>4, <1>5 DEF TypeOK

(* The invariant holds at the start.                                       *)
LEMMA InitSInv == Init => SInv
<1> SUFFICES ASSUME Init PROVE SInv
  OBVIOUS
<1>1. TInv
  BY InitTInv DEF Init
<1>2. \A p \in Proc : pc[p] = "US_Acquire"
  BY DEF Init, ClientInit, UosInit
<1>3. i = 0 /\ UpTo(Described) = 0 /\ UpTo({}) = 0
  BY <1>2, ZeroProc
  DEF Init, ClientInit, UpTo, Spawned, Joining, Exiting, ExitCounted, JoinWork, JoinPrint,
      Described, Handed
<1>4. TypeOK
  <2>1. ClientTypeOK
    BY <1>1 DEF TInv, PInv, IInv
  <2>2. pc \in [Proc -> Label]
    BY DEF Init, ClientInit, UosInit, Label, KernelSection, PthreadSection, PthreadOutside
  <2>3. 0 \in 0 .. no_files
    BY Sizes
  <2>4. /\ paramsArr \in [Worker -> [s_index : 0 .. no_files, e_index : 0 .. no_files]]
        /\ index \in [Proc -> 0 .. no_files] /\ digests \in [File -> Nat]
    BY <2>3 DEF Init
  <2> QED BY <2>1, <2>2, <2>4 DEF TypeOK
<1>5. Divided
  BY <1>2, <1>3, ZeroProc DEF Divided, First, PreBoot
<1>6. ArgIsTid
  <2>1. \A t \in Tid : ~(t < 0)
    BY MAX_THREADSAssumption DEF Tid
  <2> QED BY <1>3, <2>1 DEF ArgIsTid
<1>7. IndexInShare
  BY <1>2 DEF IndexInShare, Looping
<1>8. Digested
  <2>1. \A w \in Worker : returns[w] = 0
    BY WorkersAreTids DEF Init, ClientInit
  <2> QED BY <1>2, <2>1 DEF Digested, Looping
<1>9. Fresh
  <2>1. \A f \in File : digests[f] = 0
    BY DEF Init
  <2> QED BY <1>2, <2>1, ShareFiles DEF Fresh, Looping
<1> QED BY <1>4, <1>5, <1>6, <1>7, <1>8, <1>9 DEF SInv

(* Every step keeps it.                                                    *)
LEMMA NextSInv == TInv /\ TInv' /\ SInv /\ [Next]_<<vars, shaVars>> => SInv'
<1> SUFFICES ASSUME TInv, TInv', SInv, [Next]_<<vars, shaVars>> PROVE SInv'
  OBVIOUS
<1>1. ASSUME NEW p \in Proc, Step(p) PROVE SInv'
  <2>1. TypeOK' /\ Divided' /\ ArgIsTid'
    BY <1>1, StepTypeOK, StepDivided, StepArgIsTid
  <2>2. IndexInShare' /\ Digested' /\ Fresh'
    BY <1>1, StepIndexInShare, StepDigested, StepFresh
  <2> QED BY <2>1, <2>2 DEF SInv
<1>2. CASE UNCHANGED <<vars, shaVars>>
  <2>1. ClientTypeOK'
    BY DEF TInv, PInv, IInv
  <2> QED BY <1>2, <2>1
          DEF vars, lockVars, devVars, uosVars, localVars, poolVars, clientVars, shaVars,
              SInv, TypeOK, Divided, ArgIsTid, IndexInShare,
              Digested, Fresh, UpTo, Spawned
<1> QED BY <1>1, <1>2 DEF Next

(* So it always holds, with what is proved of every client.                *)
LEMMA DriverInvariance == Spec => [](TInv /\ SInv)
<1>1. Spec => []TInv
  BY DriverIsClient, ThreadInvariance, PTL
<1>2. TInv /\ TInv' /\ SInv /\ [Next]_<<vars, shaVars>> => SInv'
  BY NextSInv
<1> QED BY <1>1, <1>2, InitSInv, PTL DEF Spec

-----------------------------------------------------------------------------
(* The correctness of the SHA application.                                 *)

(* Every variable of the SHA application keeps its type: no worker's index *)
(* passes the number of files (TypeOK).                                    *)
THEOREM DriverTypes == Spec => []TypeOK
<1>1. SInv => TypeOK
  BY DEF SInv
<1> QED BY <1>1, DriverInvariance, PTL

(* parallel_SHA_Dig_Calc: as long as the lock is sound, no file is         *)
(* digested twice, and no two processors have its output file open at once *)
(* (DigestedOnce).                                                         *)
THEOREM FilesDigestedOnce == Spec => []DigestedOnce
<1>1. TInv /\ SInv => DigestedOnce
  <2> SUFFICES ASSUME TInv, SInv, ~clobbered PROVE DigestedAtMostOnce
    BY DEF DigestedOnce
  <2>1. \A f \in File : digests[f] \leq 1
    BY DEF SInv, Fresh
  <2>2. ASSUME NEW p \in Proc, NEW q \in Proc, pc[p] = "SW_Write", pc[q] = "SW_Write",
               index[p] = index[q]
        PROVE  p = q
    <3>1. /\ tid[p] \in Worker /\ index[p] \in Share(tid[p])
          /\ tid[q] \in Worker /\ index[p] \in Share(tid[q])
      <4>1. ASSUME NEW r \in Proc, pc[r] = "SW_Write"
            PROVE  tid[r] \in Worker /\ index[r] \in Share(tid[r])
        <5>1. /\ tid[r] \in Worker /\ params(tid[r]).s_index \leq index[r]
              /\ index[r] < params(tid[r]).e_index /\ index[r] \in Nat
              /\ params(tid[r]).s_index \in Nat /\ params(tid[r]).e_index \in Nat
          BY <4>1, WorkerFacts DEF SInv, TypeOK, IndexInShare, Working, Looping
        <5> QED BY ONLY <5>1 DEF Share
      <4> QED BY <2>2, <4>1
    <3>2. tid[p] = tid[q]
      BY <3>1, SharesDisjoint
    <3> QED BY <2>2, <3>2, OneRunner DEF Running, InFunction, ThreadPrint, ThreadWork
  <2> QED BY <2>1, <2>2 DEF DigestedAtMostOnce
<1> QED BY <1>1, DriverInvariance, PTL

(* waitForWorkersToFinish: when the main program goes on to uos_exit every *)
(* file has been digested, and nobody is writing a digest any more         *)
(* (JoinedIsDigested).                                                     *)
THEOREM AllDigested == Spec => []JoinedIsDigested
<1>1. EInv /\ SInv => JoinedIsDigested
  <2> SUFFICES ASSUME EInv, SInv,
                      SHOULD_TERMINATE \/ \E p \in Proc : pc[p] = "UM_Terminate"
               PROVE  /\ \A f \in File : digests[f] \geq 1
                      /\ ~clobbered => \A p \in Proc : pc[p] # "SW_Write"
    BY DEF JoinedIsDigested
  <2>1. TInv
    BY DEF EInv, LInv
  <2>2. pc[0] \in {"UM_Terminate"} \cup Exiting
    BY <2>1 DEF TInv, Terminating, PInv, IInv, MainIsZero, Main
  <2>3. \A w \in Worker : returns[w] \geq 1
    BY <2>2, AllReturned, WorkersAreTids
  <2>4. \A f \in File : digests[f] \geq 1
    BY <2>3, SharesCover DEF SInv, Digested
  <2>5. ASSUME ~clobbered, NEW q \in Proc, pc[q] = "SW_Write" PROVE FALSE
    <3>1. tid[q] \in Worker /\ returns[tid[q]] = 0
      BY <2>1, <2>5, WorkerFacts DEF Working, Looping
    <3> QED BY <2>3, <3>1
  <2> QED BY <2>4, <2>5
<1>2. Spec => []EInv
  BY DriverIsClient, EndInvariance, PTL
<1> QED BY <1>1, <1>2, DriverInvariance, PTL

=============================================================================
