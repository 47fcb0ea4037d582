------------------------------- MODULE Client -------------------------------
(***************************************************************************)
(* How an application uses the kernel and the library: the main thread     *)
(* creates NTHREADS threads, then joins them in the order in which it      *)
(* created them and returns; a thread's function begins and ends with a    *)
(* printf under the library's lock.  What the main thread does between two *)
(* calls and what a thread computes between two printfs is left open.      *)
(*                                                                         *)
(* Both applications of the repository, AppDemo and ShaDriver, implement   *)
(* this specification, so what follows from it holds of both.  A printf    *)
(* happens at a label ending in Print, between an acquire and a release.   *)
(***************************************************************************)
EXTENDS Pthread

CONSTANT NTHREADS        \* threads the application creates

ASSUME NTHREADSAssumption == NTHREADS \in 1 .. MAX_THREADS

VARIABLES
  i,          \* the loop counter of the main thread
  threads,    \* its array of thread identifiers
  runs,       \* history: times each thread's function has been entered
  returns     \* history: times each thread's function has returned

clientVars == <<i, threads, runs, returns>>
vars       == <<lockVars, devVars, uosVars, localVars, poolVars, pc, clientVars>>

(* Labels of the main thread between two calls of pthread_create, between  *)
(* two calls of pthread_join, and in a printf there.                       *)
SpawnWork  == {"AP_Start", "SD_Divide"}
SpawnPrint == {"AP_SpawnPrint", "SD_Print"}
JoinWork   == {"AP_Join", "SD_Join"}
JoinPrint  == {"AP_JoinPrint"}

(* Labels of a thread's function in a printf and between two.              *)
ThreadPrint == {"SH_Print", "SW_StartPrint", "SW_FinishPrint"}
ThreadWork  == {"SW_Digest", "SW_Write", "SW_Finish"}
InFunction  == ThreadPrint \cup ThreadWork

ClientInit ==
  /\ UosInit
  /\ PthreadInit
  /\ i = 0
  /\ threads = [n \in 0 .. NTHREADS - 1 |-> 0]
  /\ runs = [t \in Tid |-> 0]
  /\ returns = [t \in Tid |-> 0]

-----------------------------------------------------------------------------
(* The main thread                                                         *)

SpawnAcquire(p) ==
  /\ \E from \in SpawnWork, to \in SpawnPrint : PthreadAcquire(p, from, to)
  /\ UNCHANGED <<localVars, clientVars>>

SpawnRelease(p) ==
  /\ \E from \in SpawnPrint, to \in SpawnWork \cup {"PC_Check"} :
       PthreadRelease(p, from, to)
  /\ UNCHANGED <<localVars, clientVars>>

(* pthread_create is called next.                                          *)
Spawn(p) ==
  /\ \E from \in SpawnWork : Jump(p, from, "PC_Check")
  /\ UNCHANGED <<lockVars, devVars, uosVars, localVars, poolVars, clientVars>>

(* The argument of the i-th thread is i.                                   *)
Create(p) ==
  /\ PC_Describe(p, i)
  /\ UNCHANGED clientVars

Created(p) ==
  /\ \E to \in IF i + 1 = NTHREADS THEN JoinWork ELSE SpawnWork \cup {"PC_Check"} :
       Jump(p, "PC_Return", to)
  /\ threads' = [threads EXCEPT ![i] = tid[p]]
  /\ i' = IF i + 1 = NTHREADS THEN 0 ELSE i + 1
  /\ UNCHANGED <<lockVars, devVars, uosVars, localVars, poolVars, runs, returns>>

JoinAcquire(p) ==
  /\ \E from \in JoinWork, to \in JoinPrint : PthreadAcquire(p, from, to)
  /\ UNCHANGED <<localVars, clientVars>>

(* pthread_join(threads[i]) is called next, with or without a printf.      *)
JoinRelease(p) ==
  /\ \E from \in JoinPrint : PthreadRelease(p, from, "PJ_Poll")
  /\ tid' = [tid EXCEPT ![p] = threads[i]]
  /\ UNCHANGED <<pid, reg, idx, clientVars>>

Join(p) ==
  /\ \E from \in JoinWork : Jump(p, from, "PJ_Poll")
  /\ tid' = [tid EXCEPT ![p] = threads[i]]
  /\ UNCHANGED <<lockVars, devVars, uosVars, pid, reg, idx, poolVars, clientVars>>

JoinDone(p) ==
  /\ \E to \in IF i + 1 = NTHREADS THEN {"UM_Terminate"} ELSE JoinWork :
       Jump(p, "PJ_Return", to)
  /\ i' = i + 1
  /\ UNCHANGED <<lockVars, devVars, uosVars, localVars, poolVars, threads, runs,
                 returns>>

-----------------------------------------------------------------------------
(* A thread's function                                                     *)

Enter(p) ==
  /\ \E to \in ThreadPrint : PthreadAcquire(p, "Body", to)
  /\ runs' = [runs EXCEPT ![tid[p]] = @ + 1]
  /\ UNCHANGED <<localVars, i, threads, returns>>

PrintDone(p) ==
  /\ \E from \in ThreadPrint, to \in ThreadWork : PthreadRelease(p, from, to)
  /\ UNCHANGED <<localVars, clientVars>>

Work(p) ==
  /\ \E from \in ThreadWork, to \in ThreadWork : Jump(p, from, to)
  /\ UNCHANGED <<lockVars, devVars, uosVars, localVars, poolVars, clientVars>>

PrintAgain(p) ==
  /\ \E from \in ThreadWork, to \in ThreadPrint : PthreadAcquire(p, from, to)
  /\ UNCHANGED <<localVars, clientVars>>

Return(p) ==
  /\ \E from \in ThreadPrint : PthreadRelease(p, from, "TC_Clear")
  /\ returns' = [returns EXCEPT ![tid[p]] = @ + 1]
  /\ UNCHANGED <<localVars, i, threads, runs>>

-----------------------------------------------------------------------------
UseStep(p) ==
  \/ SpawnAcquire(p) \/ SpawnRelease(p) \/ Spawn(p) \/ Create(p) \/ Created(p)
  \/ JoinAcquire(p) \/ JoinRelease(p) \/ Join(p) \/ JoinDone(p)
  \/ Enter(p) \/ PrintDone(p) \/ Work(p) \/ PrintAgain(p) \/ Return(p)

(* One instruction of processor p that touches shared memory.  Paused      *)
(* processors take no step: mips_isa's generic behaviour waits before each *)
(* instruction while pause is set.                                         *)
ClientStep(p) ==
  /\ ~paused[p]
  /\ (LibraryStep(p) /\ UNCHANGED clientVars) \/ UseStep(p)

ClientNext == \E p \in Proc : ClientStep(p)

(* What an application may do with the library; app.c and sha_driver.c     *)
(* each do no more than this.                                              *)
ClientSpec == ClientInit /\ [][ClientNext]_vars

-----------------------------------------------------------------------------
(* The application's own sections, and its labels outside any section.     *)
ClientSection == PthreadSection \cup SpawnPrint \cup JoinPrint \cup ThreadPrint

ClientOutside == PthreadOutside \cup SpawnWork \cup JoinWork \cup ThreadWork

ClientLabel == KernelSection \cup ClientSection \cup ClientOutside

(* Labels of the main thread in its second loop and after it.              *)
Joining ==
  JoinWork \cup JoinPrint
    \cup {"PJ_Poll", "PJ_Acquire", "PJ_Release", "PJ_Return", "UM_Terminate"}

(* Every variable of the devices, the kernel, the library and the          *)
(* application keeps its type.                                             *)
ClientTypeOK ==
  /\ PthreadTypeOK(ClientLabel)
  /\ i \in 0 .. NTHREADS
  /\ threads \in [0 .. NTHREADS - 1 -> Tid]
  /\ runs \in [Tid -> Nat]
  /\ returns \in [Tid -> Nat]

(* No two processors are ever between an acquire and its release at once,  *)
(* those included that pthread_acquire let through with a NULL gLockPool,  *)
(* which own nothing and exclude nobody: the word is set before another    *)
(* processor starts, and no such section is still open then.               *)
SectionsExclude ==
  ~clobbered =>
    \A p, q \in Proc : {pc[p], pc[q]} \subseteq KernelSection \cup ClientSection => p = q

(* An auxiliary processor calls __thread_call again and again for the same *)
(* descriptor, yet the thread's function is entered once, and never after  *)
(* it has been cleared.                                                    *)
RunsOnce ==
  ~clobbered => /\ \A t \in Tid : runs[t] \leq 1
                /\ \A p \in Proc : pc[p] # "Wild"

(* pthread_join polls a state that goes back from FINISHED to RUNNING; all *)
(* the same, what the main thread has joined has returned, and no          *)
(* processor is still inside it.                                           *)
JoinedIsDone ==
  \A p \in Proc : pc[p] \in Joining =>
    \A n \in 0 .. i - 1 :
      /\ returns[threads[n]] \geq 1
      /\ ~clobbered => \A q \in Proc :
           pc[q] \in {"TC_Call", "Body"} \cup InFunction => tid[q] # threads[n]

(* The thread that pthread_join waits for has not been lost: a word names  *)
(* it, and a started processor has that word's number for its pid or may   *)
(* still get it.  The store that gave the word resumed the processor of    *)
(* that number, which may boot with another pid.                           *)
AwaitedIsServed ==
  ~clobbered => \A p \in Proc : pc[p] = "PJ_Poll" =>
    \E n, q \in Proc : /\ procs[n] = Descriptor(tid[p])
                       /\ ~paused[q] /\ pid[q] \in {n, -1}
                       /\ pc[q] \notin ExitCounted \cup {"Wild"}

(* Processor p is neither stopped nor waiting for anybody: for the lock,   *)
(* for a thread to finish, or for the others in uos_exit.  An application  *)
(* may call printf, which takes the lock, wherever it is doing work.       *)
KernelAcquire ==
  {"US_Acquire", "AL_Acquire", "SP_Acquire", "PC_InitAcquire", "UE_Acquire"}

LibraryAcquire ==
  {"PC_Acquire", "PJ_Acquire", "Body"} \cup SpawnWork \cup JoinWork \cup ThreadWork

CanStep(p) ==
  /\ ~paused[p]
  /\ pc[p] \notin {"Halted", "Wild"}
  /\ pc[p] \in KernelAcquire => lock = 0
  /\ gLockPool /\ pc[p] \in LibraryAcquire => lock = 0
  /\ pc[p] = "PC_Acquire" => tid[p] < MAX_THREADS
  /\ pc[p] = "PJ_Poll" => state[tid[p]] = "FINISHED"
  /\ pc[p] = "AL_Call" => reg[p] # Free
  /\ pc[p] = "UE_Wait" => exited = NPROCS

AllHalted == \A p \in Proc : pc[p] = "Halted"

(* The processors wait for one another at the lock, at pthread_join and in *)
(* uos_exit, but never all of them for ever.                               *)
DeadlockFree == ~clobbered /\ ~AllHalted => \E p \in Proc : CanStep(p)

(* The threads as the application sees them.  A thread is joined when the  *)
(* second loop has counted it; one entered twice is in no stage the        *)
(* abstract specification knows.                                           *)
Joined ==
  IF SHOULD_TERMINATE \/ \E p \in Proc : pc[p] \in Joining
    THEN {threads[n] : n \in 0 .. i - 1} ELSE {}

Stage(t) ==
  IF clobbered THEN "lost"
  ELSE IF runs[t] > 1 THEN "entered again"
  ELSE IF t \in Joined THEN "joined"
  ELSE IF returns[t] = 1 THEN "returned"
  ELSE IF runs[t] = 1 THEN "running"
  ELSE IF state[t] \in {"IDLE", "INITIALIZING"} THEN "none" ELSE "created"

Life == INSTANCE ThreadLife WITH Threads <- Tid, life <- [t \in Tid |-> Stage(t)]

(* Polling descriptors without the lock, running __thread_call again for   *)
(* finished threads and joining by polling a state that goes back to       *)
(* RUNNING still gives every thread the life the library promises.         *)
ThreadLifeSpec == Life!Spec

(* The memset of the processor words in uos_start pauses every other       *)
(* processor; it never hits one that has been started.                     *)
NeverPausedAgain ==
  [][\A p \in Proc : ~paused[p] => ~paused'[p]]_vars

(* A processor word that has been given a thread is never free again, not  *)
(* even when the thread has finished.                                      *)
WordsNeverFreed ==
  [][\A p \in Proc : procs[p] # Free => procs'[p] # Free]_vars

(* At most how many accesses processor p still makes once the application  *)
(* has returned (a turn of a spin is none): what is left of its boot or of *)
(* a turn of the auxiliary loop, and uos_exit with its loop over the words.*)
(* Of the labels not named only AL_Acquire can still be reached then.      *)
StepsLeft(p) ==
  CASE pc[p] = "Halted"                      -> 0
    [] pc[p] = "UE_Wait"                     -> 1
    [] pc[p] = "UE_Release"                  -> 2
    [] pc[p] = "UE_Resume"                   -> 2 + NPROCS - idx[p]
    [] pc[p] = "UE_SetTerm"                  -> NPROCS + 3
    [] pc[p] = "UE_Store"                    -> NPROCS + 4
    [] pc[p] = "UE_Load"                     -> NPROCS + 5
    [] pc[p] = "UE_Acquire"                  -> NPROCS + 6
    [] pc[p] = "AL_Test"                     -> NPROCS + 7
    [] pc[p] \in {"TC_Finish", "US_Release"} -> NPROCS + 8
    [] pc[p] \in {"TC_Clear", "US_Store"}    -> NPROCS + 9
    [] pc[p] \in {"TC_Test", "US_Load"}      -> NPROCS + 10
    [] pc[p] \in {"TC_Run", "US_Check"}      -> NPROCS + 11
    [] pc[p] \in {"AL_Call", "US_Acquire"}   -> NPROCS + 12
    [] pc[p] = "AL_Release"                  -> NPROCS + 13
    [] pc[p] = "AL_Read"                     -> NPROCS + 14
    [] OTHER                                 -> NPROCS + 15

(* Once the application has returned nobody goes round the auxiliary loop  *)
(* again or enters a thread's function: every access brings its processor  *)
(* nearer to its end and no other further from it, whoever wins the races  *)
(* for the lock.                                                           *)
ShutdownAdvances ==
  [][SHOULD_TERMINATE /\ ~clobbered =>
       \E p \in Proc : /\ StepsLeft(p)' < StepsLeft(p)
                       /\ \A q \in Proc \ {p} : StepsLeft(q)' = StepsLeft(q)]_vars

(* A processor never waits while it owns the lock, neither for the lock it *)
(* has (it is no recursive lock) nor for a thread, and nobody pauses it.   *)
OwnersCanStep == \A p \in owners : CanStep(p)

(* At most how many steps processor p makes in its section, the one that   *)
(* gives the lock back included; the labels not named are those.           *)
SectionLeft(p) ==
  CASE pc[p] = "US_Check"     -> NPROCS + 5
    [] pc[p] = "US_InitOwn"   -> NPROCS + 4
    [] pc[p] = "US_InitOther" -> NPROCS + 4 - idx[p]
    [] pc[p] = "US_SetInit"   -> 4
    [] pc[p] = "UE_Load"      -> NPROCS + 4
    [] pc[p] = "UE_Store"     -> NPROCS + 3
    [] pc[p] = "UE_SetTerm"   -> NPROCS + 2
    [] pc[p] = "UE_Resume"    -> NPROCS + 1 - idx[p]
    [] pc[p] = "SP_Scan"      -> NPROCS + 2 - idx[p]
    [] pc[p] = "PC_Recheck"   -> 4
    [] pc[p] \in {"US_Load", "PC_InitPool", "PC_Scan"}                          -> 3
    [] pc[p] \in {"US_Store", "AL_Read", "SP_Write", "PC_SetInit", "PC_Claim"}  -> 2
    [] OTHER                                                                    -> 1

(* Every step in a section, its loops over the words included, brings the  *)
(* release nearer, and no other processor interferes: no section has more  *)
(* than NPROCS + 5 of them.  The memset of the pool and the stores of      *)
(* PC_Claim count as one each.                                             *)
SectionsAdvance ==
  [][\A p \in owners : p \in owners' =>
       UNCHANGED <<pc[p], idx[p]>> \/ SectionLeft(p)' < SectionLeft(p)]_vars

(* A thread is refused a processor exactly if NPROCS - 1 threads have been *)
(* created before it: no race for the words between the main thread, those *)
(* that boot and those that have finished loses one or gains one.          *)
RefusedOnlyWhenFull ==
  \A p \in Proc : /\ pc[p] = "SP_Fail" => i \geq NPROCS - 1
                  /\ pc[p] = "PC_Return" => i < NPROCS - 1

(* So a platform of NPROCS processors never runs more than NPROCS - 1      *)
(* threads, however many of them have finished: once uos_start_processor   *)
(* has refused a thread, pthread_create asks again for ever.               *)
RefusalIsFinal ==
  \A p \in Proc :
    [](pc[p] = "SP_Fail" => [](pc[p] \in {"SP_Acquire", "SP_Scan", "SP_Fail"}))

=============================================================================
