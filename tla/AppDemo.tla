------------------------------ MODULE AppDemo ------------------------------
(***************************************************************************)
(* The demo application (sw/app/app.c) on the kernel and the library: the  *)
(* main thread creates NTHREADS threads, printing before each, then joins  *)
(* them in order, printing before each; every thread prints once.  A       *)
(* printf happens at a label ending in Print, between an acquire and a     *)
(* release of the library's lock.                                          *)
(*                                                                         *)
(* Step(p) is one instruction of processor p that touches shared memory.   *)
(* Paused processors take no step: mips_isa's generic behaviour waits      *)
(* before each instruction while pause is set.                             *)
(***************************************************************************)
EXTENDS Client

Init == ClientInit

-----------------------------------------------------------------------------
(* application_entry                                                       *)

AP_Start(p) ==
  /\ PthreadAcquire(p, "AP_Start", "AP_SpawnPrint")
  /\ UNCHANGED <<localVars, clientVars>>

AP_SpawnPrint(p) ==
  /\ PthreadRelease(p, "AP_SpawnPrint", "PC_Check")
  /\ UNCHANGED <<localVars, clientVars>>

(* pthread_create(&threads[i], NULL, SayHello, i)                          *)
AP_Create(p) ==
  /\ PC_Describe(p, i)
  /\ UNCHANGED clientVars

(* threads[i] = t, then the next iteration or the second loop.             *)
AP_Created(p) ==
  /\ Jump(p, "PC_Return", IF i + 1 = NTHREADS THEN "AP_Join" ELSE "AP_Start")
  /\ threads' = [threads EXCEPT ![i] = tid[p]]
  /\ i' = IF i + 1 = NTHREADS THEN 0 ELSE i + 1
  /\ UNCHANGED <<lockVars, devVars, uosVars, localVars, poolVars, runs, returns>>

AP_Join(p) ==
  /\ PthreadAcquire(p, "AP_Join", "AP_JoinPrint")
  /\ UNCHANGED <<localVars, clientVars>>

(* Mutant: the second printf's lock is given back after pthread_join.      *)
AP_JoinPrintHolding(p) ==
  /\ Jump(p, "AP_JoinPrint", "PJ_Poll")
  /\ tid' = [tid EXCEPT ![p] = threads[i]]
  /\ UNCHANGED <<lockVars, devVars, uosVars, pid, reg, idx, poolVars, clientVars>>

(* Mutant: every turn of the second loop joins the first thread.           *)
AP_JoinPrintFirst(p) ==
  /\ PthreadRelease(p, "AP_JoinPrint", "PJ_Poll")
  /\ tid' = [tid EXCEPT ![p] = threads[0]]
  /\ UNCHANGED <<pid, reg, idx, clientVars>>

(* pthread_join(threads[i], NULL) is called next.                          *)
AP_JoinPrint(p) ==
  /\ PthreadRelease(p, "AP_JoinPrint", "PJ_Poll")
  /\ tid' = [tid EXCEPT ![p] = threads[i]]
  /\ UNCHANGED <<pid, reg, idx, clientVars>>

AP_Joined(p) ==
  /\ Jump(p, "PJ_Return", IF i + 1 = NTHREADS THEN "UM_Terminate" ELSE "AP_Join")
  /\ i' = i + 1
  /\ UNCHANGED <<lockVars, devVars, uosVars, localVars, poolVars, threads, runs,
                 returns>>

-----------------------------------------------------------------------------
(* SayHello, on the processor that runs the thread                         *)

SH_Acquire(p) ==
  /\ PthreadAcquire(p, "Body", "SH_Print")
  /\ runs' = [runs EXCEPT ![tid[p]] = @ + 1]
  /\ UNCHANGED <<localVars, i, threads, returns>>

SH_Print(p) ==
  /\ PthreadRelease(p, "SH_Print", "TC_Clear")
  /\ returns' = [returns EXCEPT ![tid[p]] = @ + 1]
  /\ UNCHANGED <<localVars, i, threads, runs>>

-----------------------------------------------------------------------------
AppStep(p) ==
  \/ AP_Start(p) \/ AP_SpawnPrint(p) \/ AP_Create(p) \/ AP_Created(p)
  \/ AP_Join(p) \/ AP_JoinPrint(p) \/ AP_Joined(p)
  \/ SH_Acquire(p) \/ SH_Print(p)

Step(p) ==
  /\ ~paused[p]
  /\ (LibraryStep(p) /\ UNCHANGED clientVars) \/ AppStep(p)

Next == \E p \in Proc : Step(p)

Spec == Init /\ [][Next]_vars

(* The simulator steps every processor that is neither paused nor stopped  *)
(* once per nanosecond, so none is overtaken for ever: weak fairness of    *)
(* each.  Nothing arbitrates the lock: no fairness is assumed of it.       *)
FairSpec == Spec /\ \A p \in Proc : WF_vars(Step(p))

-----------------------------------------------------------------------------
Label ==
  KernelSection \cup PthreadSection \cup PthreadOutside
    \cup {"AP_SpawnPrint", "AP_Join", "AP_JoinPrint", "SH_Print"}

(* Every variable keeps its type.                                          *)
TypeOK == ClientTypeOK /\ pc \in [Proc -> Label]

(* CanStep, by which DeadlockFree speaks of steps, is right about them: a  *)
(* processor of which it says so has a step.                               *)
CanStepIsEnabled == \A p \in Proc : CanStep(p) => ENABLED Step(p)

(* Whoever enters a critical section leaves it.                            *)
SectionsEnd ==
  \A p \in Proc : p \in owners ~> p \notin owners

(* Once the application has returned every processor stops: those in the   *)
(* auxiliary loop see SHOULD_TERMINATE, those never started are resumed    *)
(* and boot straight into uos_exit, and the count reaches NPROCS.          *)
ShutdownCompletes ==
  SHOULD_TERMINATE ~> (AllHalted \/ clobbered)

=============================================================================
