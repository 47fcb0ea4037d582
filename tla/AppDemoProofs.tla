--------------------------- MODULE AppDemoProofs ---------------------------
(***************************************************************************)
(* The demo application implements Client, for every number of processors, *)
(* pool entries and threads; what follows from ClientSpec holds of it.     *)
(***************************************************************************)
EXTENDS AppDemo, ClientProofs

(* Every instruction of app.c is one that a client may execute.            *)
LEMMA StepIsClient ==
  ASSUME NEW p \in Proc, Step(p)
  PROVE  ClientStep(p)
<1>1. CASE LibraryStep(p) /\ UNCHANGED clientVars
  BY <1>1 DEF Step, ClientStep
<1>2. CASE AppStep(p)
  <2> SUFFICES UseStep(p)
    BY <1>2 DEF Step, ClientStep
  <2>1. CASE AP_Start(p)
    BY <2>1 DEF AP_Start, SpawnAcquire, UseStep, SpawnWork, SpawnPrint
  <2>2. CASE AP_SpawnPrint(p)
    BY <2>2 DEF AP_SpawnPrint, SpawnRelease, UseStep, SpawnPrint
  <2>3. CASE AP_Create(p)
    BY <2>3 DEF AP_Create, Create, UseStep
  <2>4. CASE AP_Created(p)
    BY <2>4 DEF AP_Created, Created, UseStep, SpawnWork, JoinWork
  <2>5. CASE AP_Join(p)
    BY <2>5 DEF AP_Join, JoinAcquire, UseStep, JoinWork, JoinPrint
  <2>6. CASE AP_JoinPrint(p)
    BY <2>6 DEF AP_JoinPrint, JoinRelease, UseStep, JoinPrint
  <2>7. CASE AP_Joined(p)
    BY <2>7 DEF AP_Joined, JoinDone, UseStep, JoinWork
  <2>8. CASE SH_Acquire(p)
    BY <2>8 DEF SH_Acquire, Enter, UseStep, ThreadPrint
  <2>9. CASE SH_Print(p)
    BY <2>9 DEF SH_Print, Return, UseStep, ThreadPrint
  <2> QED BY <1>2, <2>1, <2>2, <2>3, <2>4, <2>5, <2>6, <2>7, <2>8, <2>9 DEF AppStep
<1> QED BY <1>1, <1>2 DEF Step

(* application_entry and SayHello use the library as Client allows.        *)
THEOREM DemoIsClient == Spec => ClientSpec
<1>1. Init => ClientInit
  BY DEF Init
<1>2. [Next]_vars => [ClientNext]_vars
  BY StepIsClient DEF Next, ClientNext
<1> QED BY <1>1, <1>2, PTL DEF Spec, ClientSpec

(* The demo application stays at its own labels.                           *)
LEMMA StepLabels ==
  ASSUME pc \in [Proc -> Label], NEW p \in Proc, Step(p)
  PROVE  pc' \in [Proc -> Label]
<1> USE DEF Jump, Label, KernelSection, PthreadSection, PthreadOutside
<1>1. CASE UosStep(p) /\ UNCHANGED clientVars
  BY <1>1
  DEF UosStep, US_Acquire, US_Check, US_InitOwn, US_InitOther, US_SetInit,
      US_Load, US_Store, US_Release, AL_Test, AL_Acquire, AL_Read, AL_Release,
      SP_Acquire, SP_Scan, SP_Write, SP_Release1, SP_Release2, SP_Fail,
      UM_Terminate, UE_Acquire, UE_Load, UE_Store, UE_SetTerm, UE_Resume,
      UE_Release, UE_Wait, Acquire, Release
<1>2. CASE PthreadStep(p) /\ UNCHANGED clientVars
  BY <1>2
  DEF PthreadStep, PC_Check, PC_InitAcquire, PC_Recheck, PC_InitPool, PC_SetInit,
      PC_InitRelease, PC_Acquire, PC_Scan, PC_Claim, PC_ClaimRelease, PC_Skip,
      PJ_Poll, PJ_Acquire, PJ_Release, AL_Call, TC_Run, TC_Test, TC_Call,
      TC_Clear, TC_Finish, PthreadAcquire, PthreadRelease, Acquire, Release
<1>3. CASE AppStep(p)
  BY <1>3
  DEF AppStep, AP_Start, AP_SpawnPrint, AP_Create, AP_Created, AP_Join, AP_JoinPrint,
      AP_Joined, SH_Acquire, SH_Print, PC_Describe, PthreadAcquire, PthreadRelease, Jump
<1> QED BY <1>1, <1>2, <1>3 DEF Step, LibraryStep

(* Every variable of the demo application keeps its type (TypeOK).         *)
THEOREM DemoTypes == Spec => []TypeOK
<1> DEFINE L == pc \in [Proc -> Label]
<1>1. Init => L
  BY DEF Init, ClientInit, UosInit, Label, PthreadOutside
<1>2. L /\ [Next]_vars => L'
  BY StepLabels DEF Next, vars
<1>3. Spec => []L
  <2> HIDE DEF L
  <2> QED BY <1>1, <1>2, PTL DEF Spec
<1>4. Spec => []ClientTypeOK
  BY DemoIsClient, TypeCorrect, PTL
<1>5. ClientTypeOK /\ L => TypeOK
  BY DEF TypeOK
<1> HIDE DEF L
<1> QED BY <1>3, <1>4, <1>5, PTL

(* So the demo's threads are entered once, joined after they have returned *)
(* and go through the life the library promises (ThreadLifeSpec), its      *)
(* processors stop together (ExitRendezvous) after a bounded number of     *)
(* accesses (ShutdownAdvances), never do all of them wait for one another  *)
(* (DeadlockFree), and the lock's owner does not wait at all               *)
(* (OwnersCanStep) and gives it back after a bounded number of accesses    *)
(* (SectionsAdvance), with nobody else in any section (SectionsExclude).   *)
THEOREM DemoIsSafe ==
  Spec => /\ [](RunsOnce /\ JoinedIsDone /\ ExitRendezvous /\ DeadlockFree)
          /\ [](SectionsExclude /\ OwnersCanStep) /\ SectionsAdvance
          /\ ShutdownAdvances /\ ThreadLifeSpec /\ CriticalSectionSpec
  BY DemoIsClient, EntersOnce, JoinWaits, ExitsTogether, NobodyStuck, OwnersGoOn,
     NullLockExcludes, SectionsBounded, ShutdownIsBounded, ThreadLifeRefinement,
     LockRefinement, PTL

(* application_entry: with fewer threads than processors the demo is never *)
(* refused a processor; with as many or more, its main program never       *)
(* returns (RefusedOnlyWhenFull says which threads are served).            *)
THEOREM DemoGetsProcessors ==
  /\ Spec => []RefusedOnlyWhenFull
  /\ NTHREADS < NPROCS => (Spec => [](\A p \in Proc : pc[p] # "SP_Fail"))
  /\ NTHREADS >= NPROCS => (Spec => []~SHOULD_TERMINATE)
<1>1. Spec => []RefusedOnlyWhenFull
  BY DemoIsClient, FirstThreadsServed, PTL
<1>2. ASSUME NTHREADS < NPROCS
      PROVE  Spec => [](\A p \in Proc : pc[p] # "SP_Fail")
  <2>1. ClientSpec => [](\A p \in Proc : pc[p] # "SP_Fail")
    BY <1>2, NeverRefused
  <2> QED BY <2>1, DemoIsClient, PTL
<1>3. ASSUME NTHREADS >= NPROCS PROVE Spec => []~SHOULD_TERMINATE
  <2>1. ClientSpec => []~SHOULD_TERMINATE
    BY <1>3, TooManyNeverReturn
  <2> QED BY <2>1, DemoIsClient, PTL
<1> QED BY <1>1, <1>2, <1>3

=============================================================================
