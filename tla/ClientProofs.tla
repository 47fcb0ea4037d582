---------------------------- MODULE ClientProofs ----------------------------
(***************************************************************************)
(* Proofs about Client, for every number of processors, pool entries and   *)
(* threads, in parts.  Each of the first four has an inductive invariant   *)
(* that strengthens the one before: the processors and the lock (IInv),    *)
(* the pool and the processor words (PInv), the life of a thread (TInv),   *)
(* what those who wait are waiting for (LInv).  Of LInv there are two      *)
(* strengthenings, for the end (EInv) and for the words given (WInv).      *)
(***************************************************************************)
EXTENDS Client, FiniteSetTheorems, TLAPS

-----------------------------------------------------------------------------
(***************************************************************************)
(* Part 1: the processors and the lock.                                    *)
(*                                                                         *)
(* The inductive invariant IInv says where each processor may be: before   *)
(* the pool is set up (gLockPool NULL) processor 0 is alone; later it is   *)
(* the only one in the main program, and it has pid 0.  From that follows  *)
(* who owns the lock (OwnersMatch), and that every index is in range.      *)
(***************************************************************************)

(* uos_start up to the store of initialized, and up to the store of pid.   *)
BootInit == {"US_InitOwn", "US_InitOther", "US_SetInit"}

PreBoot == {"US_Acquire", "US_Check", "US_Load", "US_Store"} \cup BootInit

(* What processor 0 goes through before gLockPool is set.                  *)
Early == PreBoot \cup {"US_Release", "PC_Check", "PC_InitAcquire", "PC_Recheck",
                       "PC_InitPool"} \cup SpawnWork \cup SpawnPrint

(* The main program, from pid 0's start to the end of its second loop.     *)
Main == {"PC_Check", "PC_InitAcquire",
         "PC_Recheck", "PC_InitPool", "PC_SetInit", "PC_InitRelease",
         "PC_Acquire", "PC_Scan", "PC_Claim", "PC_ClaimRelease", "PC_Skip",
         "PC_Describe", "SP_Acquire", "SP_Scan", "SP_Write", "SP_Release1",
         "SP_Release2", "SP_Fail", "PC_Return",
         "PJ_Poll", "PJ_Acquire", "PJ_Release", "PJ_Return", "UM_Terminate"}
        \cup SpawnWork \cup SpawnPrint \cup JoinWork \cup JoinPrint

(* Labels at which tid[p] names an entry of the pool.                      *)
Thread == {"PC_Scan", "PC_Claim", "PC_ClaimRelease", "PC_Skip", "PC_Describe",
           "SP_Acquire", "SP_Scan", "SP_Write", "SP_Release1", "SP_Release2",
           "SP_Fail", "PC_Return", "PJ_Poll", "PJ_Acquire", "PJ_Release",
           "PJ_Return", "TC_Run", "TC_Test", "TC_Call", "Body", "TC_Clear",
           "TC_Finish"} \cup InFunction

Exiting == {"UE_Acquire", "UE_Load", "UE_Store"} \cup ExitCounted

Booted  == {p \in Proc : pc[p] \notin PreBoot}
Counted == {p \in Proc : pc[p] \in ExitCounted}

-----------------------------------------------------------------------------
MainIsZero == \A p \in Proc : p # 0 => pc[p] \notin Main

Solo ==
  ~gLockPool =>
    /\ ~pthread_initialized
    /\ pc[0] \in Early
    /\ \A p \in Proc : p # 0 => pc[p] = "US_Acquire" /\ procs[p] = Free

PausedIffFree == \A p \in Proc : paused[p] <=> procs[p] = Free

(* initialized is set by processor 0, before anybody else starts.          *)
InitByZero ==
  /\ \A p \in Proc : pc[p] \in BootInit => p = 0
  /\ ~initialized => pc[0] \in {"US_Acquire", "US_Check"} \cup BootInit
  /\ pc[0] \in PreBoot => ~gLockPool

(* Processor 0 counts itself first, so pid 0 is its own.                   *)
PidZero ==
  /\ pc[0] \in PreBoot => initialized_cores = 0
  /\ pc[0] = "US_Store" => reg[0] = 0
  /\ pc[0] \notin PreBoot => pid[0] = 0 /\ initialized_cores > 0
  /\ \A p \in Proc : p # 0 => /\ pc[p] = "US_Store" => reg[p] > 0
                              /\ pc[p] \notin PreBoot => pid[p] > 0

NoPidYet == \A p \in Proc : pc[p] \in PreBoot => pid[p] = -1

(* The counters never exceed the number of processors that have counted.   *)
BootCount ==
  /\ initialized_cores \leq Cardinality(Booted)
  /\ \A p \in Proc : pc[p] = "US_Store" =>
       reg[p] \in 0 .. Cardinality(Booted)

ExitCount ==
  /\ exited \leq Cardinality(Counted)
  /\ \A p \in Proc : pc[p] = "UE_Store" =>
       reg[p] \in 0 .. Cardinality(Counted)

(* Every index is in range where it is used.                               *)
IdxInRange ==
  \A p \in Proc : pc[p] \in {"SP_Scan", "SP_Write", "UE_Resume"} => idx[p] < NPROCS

BootIdx == \A p \in Proc : pc[p] = "US_InitOther" => idx[p] \in 1 .. NPROCS - 1

TidInRange == \A p \in Proc : pc[p] \in Thread => tid[p] < MAX_THREADS

RegInRange == \A p \in Proc : pc[p] \in {"AL_Release", "AL_Call"} => reg[p] \in Word

CounterInRange == pc[0] \notin Exiting \cup {"UM_Terminate"} => i < NTHREADS

(* The processors between an acquire and its release: those in a kernel    *)
(* section, and, once gLockPool is set, those in a library section.        *)
Inside(p) == pc[p] \in KernelSection \/ (gLockPool /\ pc[p] \in ClientSection)

OwnersMatch == \A p \in Proc : p \in owners <=> Inside(p)

(* The load and the store of pid = initialized_cores++ are not torn apart. *)
PidsFollow ==
  ~clobbered =>
    \A p \in Proc : /\ pc[p] = "US_Store" => reg[p] = initialized_cores
                    /\ pid[p] < initialized_cores

IInv ==
  /\ ClientTypeOK
  /\ MainIsZero
  /\ Solo
  /\ PausedIffFree
  /\ InitByZero
  /\ PidZero
  /\ NoPidYet
  /\ BootCount
  /\ ExitCount
  /\ IdxInRange
  /\ BootIdx
  /\ TidInRange
  /\ RegInRange
  /\ CounterInRange
  /\ OwnersMatch
  /\ ExclusiveOwner
  /\ PidsFollow
  /\ DistinctPids

-----------------------------------------------------------------------------
(* Step lemmas: what a step of one processor does to one part of IInv,     *)
(* from the parts it depends on.  The actions are expanded in all of them. *)

USE DEF ClientStep, LibraryStep, UosStep, PthreadStep, UseStep, US_Acquire,
  US_Check, US_InitOwn, US_InitOther, US_SetInit, US_Load, US_Store,
  US_Release, AL_Test, AL_Acquire, AL_Read, AL_Release, SP_Acquire, SP_Scan,
  SP_Write, SP_Release1, SP_Release2, SP_Fail, UM_Terminate, UE_Acquire,
  UE_Load, UE_Store, UE_SetTerm, UE_Resume, UE_Release, UE_Wait, PC_Check,
  PC_InitAcquire, PC_Recheck, PC_InitPool, PC_SetInit, PC_InitRelease,
  PC_Acquire, PC_Scan, PC_Claim, PC_ClaimRelease, PC_Skip, PJ_Poll,
  PJ_Acquire, PJ_Release, AL_Call, TC_Run, TC_Test, TC_Call, TC_Clear,
  TC_Finish, SpawnAcquire, SpawnRelease, Spawn, Create, Created, JoinAcquire,
  JoinRelease, Join, JoinDone, Enter, PrintDone, Work, PrintAgain, Return,
  PC_Describe, Jump, Acquire, Release, PthreadAcquire, PthreadRelease,
  SpawnWork, SpawnPrint, JoinWork, JoinPrint, ThreadPrint, ThreadWork, InFunction

(* Processor 0 exists.                                                     *)
LEMMA ZeroProc == 0 \in Proc
  BY NPROCSAssumption DEF Proc

(* A step leads to a label.                                                *)
LEMMA StepLabel ==
  ASSUME pc \in [Proc -> ClientLabel], NEW p \in Proc, ClientStep(p)
  PROVE  pc' \in [Proc -> ClientLabel]
<1> USE DEF ClientLabel, KernelSection, ClientSection, PthreadSection,
        ClientOutside, PthreadOutside
<1>1. CASE UosStep(p) /\ UNCHANGED poolVars /\ UNCHANGED clientVars
  BY <1>1
<1>2. CASE PthreadStep(p) /\ UNCHANGED clientVars
  BY <1>2
<1>3. CASE UseStep(p)
  BY <1>3
<1> QED BY <1>1, <1>2, <1>3

(* Only the stepping processor moves, and booting and leaving are one-way. *)
LEMMA StepForward ==
  ASSUME pc \in [Proc -> ClientLabel], NEW p \in Proc, ClientStep(p)
  PROVE  \A q \in Proc : /\ pc[q] \notin PreBoot => pc'[q] \notin PreBoot
                         /\ pc[q] \in ExitCounted => pc'[q] \in ExitCounted
                         /\ q # p => pc'[q] = pc[q]
<1> USE DEF PreBoot, BootInit, ExitCounted
<1>1. CASE UosStep(p) /\ UNCHANGED poolVars /\ UNCHANGED clientVars
  BY <1>1
<1>2. CASE PthreadStep(p) /\ UNCHANGED clientVars
  BY <1>2
<1>3. CASE UseStep(p)
  BY <1>3
<1> QED BY <1>1, <1>2, <1>3

(* The main program is entered with pid 0.                                 *)
LEMMA StepMainIsZero ==
  ASSUME pc \in [Proc -> ClientLabel], MainIsZero, PidZero, NEW p \in Proc, ClientStep(p)
  PROVE  MainIsZero'
<1> USE DEF MainIsZero, PidZero, Main, PreBoot, BootInit
<1>1. CASE UosStep(p) /\ UNCHANGED poolVars /\ UNCHANGED clientVars
  BY <1>1
<1>2. CASE PthreadStep(p) /\ UNCHANGED clientVars
  BY <1>2
<1>3. CASE UseStep(p)
  BY <1>3
<1> QED BY <1>1, <1>2, <1>3

(* Before gLockPool is set no word is given to another processor.          *)
LEMMA StepSolo ==
  ASSUME pc \in [Proc -> ClientLabel], MainIsZero, PidZero, InitByZero,
         PausedIffFree, procs \in [Proc -> Word], Solo, NEW p \in Proc,
         ClientStep(p)
  PROVE  Solo'
<1> USE ZeroProc DEF Solo, Early, MainIsZero, PidZero, InitByZero,
        PausedIffFree, Main, PreBoot, BootInit, ProcWrite, lockVars, devVars,
        uosVars, localVars, poolVars, clientVars
<1>1. CASE UosStep(p) /\ UNCHANGED poolVars /\ UNCHANGED clientVars
  <2>1. CASE US_InitOwn(p) \/ US_InitOther(p)
    BY <1>1, <2>1
  <2>2. CASE US_Release(p)
    BY <1>1, <2>2
  <2>3. CASE SP_Write(p) \/ UE_Resume(p)
    BY <1>1, <2>3
  <2>4. CASE US_Acquire(p) \/ US_Check(p) \/ US_SetInit(p) \/ US_Load(p) \/
            US_Store(p) \/ AL_Test(p) \/ AL_Acquire(p) \/ AL_Read(p) \/
            AL_Release(p) \/ SP_Acquire(p) \/ SP_Scan(p) \/ SP_Release1(p)
            \/ SP_Release2(p) \/ SP_Fail(p) \/ UM_Terminate(p) \/
            UE_Acquire(p) \/ UE_Load(p) \/ UE_Store(p) \/ UE_SetTerm(p) \/
            UE_Release(p) \/ UE_Wait(p)
    BY <1>1, <2>4
  <2> QED BY <1>1, <2>1, <2>2, <2>3, <2>4
<1>2. CASE PthreadStep(p) /\ UNCHANGED clientVars
  BY <1>2
<1>3. CASE UseStep(p)
  BY <1>3
<1> QED BY <1>1, <1>2, <1>3

(* A word and the pause flag of its processor are written together.        *)
LEMMA StepPaused ==
  ASSUME PausedIffFree, procs \in [Proc -> Word], paused \in [Proc ->
         BOOLEAN], NEW p \in Proc, ClientStep(p)
  PROVE  PausedIffFree'
<1> USE DEF PausedIffFree, ProcWrite, devVars
<1>1. CASE UosStep(p) /\ UNCHANGED poolVars /\ UNCHANGED clientVars
  <2>1. CASE US_InitOwn(p)
    BY <1>1, <2>1, Zenon
  <2>2. CASE US_InitOther(p)
    BY <1>1, <2>2, Zenon
  <2>3. CASE SP_Write(p)
    BY <1>1, <2>3, Zenon
  <2>4. CASE UE_Resume(p)
    BY <1>1, <2>4, Zenon
  <2>5. CASE US_Acquire(p) \/ US_Check(p) \/ US_SetInit(p) \/ US_Load(p) \/
            US_Store(p) \/ US_Release(p) \/ AL_Test(p) \/ AL_Acquire(p) \/
            AL_Read(p) \/ AL_Release(p) \/ SP_Acquire(p) \/ SP_Scan(p) \/
            SP_Release1(p) \/ SP_Release2(p) \/ SP_Fail(p) \/
            UM_Terminate(p) \/ UE_Acquire(p) \/ UE_Load(p) \/ UE_Store(p) \/
            UE_SetTerm(p) \/ UE_Release(p) \/ UE_Wait(p)
    BY <1>1, <2>5
  <2> QED BY <1>1, <2>1, <2>2, <2>3, <2>4, <2>5
<1>2. CASE PthreadStep(p) /\ UNCHANGED clientVars
  BY <1>2
<1>3. CASE UseStep(p)
  BY <1>3
<1> QED BY <1>1, <1>2, <1>3, Zenon

(* Whoever boots after processor 0 finds initialized set.                  *)
LEMMA StepInit ==
  ASSUME pc \in [Proc -> ClientLabel], InitByZero, Solo, PausedIffFree, MainIsZero,
         NEW p \in Proc, ClientStep(p)
  PROVE  InitByZero'
<1> USE ZeroProc DEF InitByZero, Solo, MainIsZero, Main, Early, PausedIffFree,
        PreBoot, BootInit, lockVars, devVars, uosVars, localVars, poolVars,
        clientVars
<1>1. CASE UosStep(p) /\ UNCHANGED poolVars /\ UNCHANGED clientVars
  <2>1. CASE US_Check(p)
    BY <1>1, <2>1
  <2>2. CASE US_SetInit(p)
    BY <1>1, <2>2
  <2>3. CASE US_Acquire(p) \/ US_InitOwn(p) \/ US_InitOther(p) \/ US_Load(p)
            \/ US_Store(p) \/ US_Release(p) \/ AL_Test(p) \/ AL_Acquire(p)
            \/ AL_Read(p) \/ AL_Release(p) \/ SP_Acquire(p) \/ SP_Scan(p) \/
            SP_Write(p) \/ SP_Release1(p) \/ SP_Release2(p) \/ SP_Fail(p) \/
            UM_Terminate(p) \/ UE_Acquire(p) \/ UE_Load(p) \/ UE_Store(p) \/
            UE_SetTerm(p) \/ UE_Resume(p) \/ UE_Release(p) \/ UE_Wait(p)
    BY <1>1, <2>3
  <2> QED BY <1>1, <2>1, <2>2, <2>3
<1>2. CASE PthreadStep(p) /\ UNCHANGED clientVars
  BY <1>2
<1>3. CASE UseStep(p)
  BY <1>3
<1> QED BY <1>1, <1>2, <1>3

(* Whoever counts itself after processor 0 gets a pid above 0, even when   *)
(* the increment is torn.                                                  *)
LEMMA StepPidZero ==
  ASSUME pc \in [Proc -> ClientLabel], PidZero, InitByZero, Solo, PausedIffFree, pid
         \in [Proc -> {-1} \cup Proc], reg \in [Proc -> Int],
         initialized_cores \in 0 .. NPROCS, NEW p \in Proc, ClientStep(p)
  PROVE  PidZero'
<1> USE ZeroProc DEF PidZero, Solo, Early, PausedIffFree, InitByZero, PreBoot,
        BootInit, lockVars, devVars, uosVars, localVars, poolVars, clientVars
<1>1. CASE UosStep(p) /\ UNCHANGED poolVars /\ UNCHANGED clientVars
  <2>1. CASE US_Load(p)
    BY <1>1, <2>1
  <2>2. CASE US_Store(p)
    BY <1>1, <2>2
  <2>3. CASE US_Acquire(p) \/ US_Check(p) \/ US_InitOwn(p) \/
            US_InitOther(p) \/ US_SetInit(p) \/ US_Release(p) \/ AL_Test(p)
            \/ AL_Acquire(p) \/ AL_Read(p) \/ AL_Release(p) \/ SP_Acquire(p)
            \/ SP_Scan(p) \/ SP_Write(p) \/ SP_Release1(p) \/ SP_Release2(p)
            \/ SP_Fail(p) \/ UM_Terminate(p) \/ UE_Acquire(p) \/ UE_Load(p)
            \/ UE_Store(p) \/ UE_SetTerm(p) \/ UE_Resume(p) \/ UE_Release(p)
            \/ UE_Wait(p)
    BY <1>1, <2>3
  <2> QED BY <1>1, <2>1, <2>2, <2>3
<1>2. CASE PthreadStep(p) /\ UNCHANGED clientVars
  BY <1>2
<1>3. CASE UseStep(p)
  BY <1>3
<1> QED BY <1>1, <1>2, <1>3

(* A pid is given once.                                                    *)
LEMMA StepNoPidYet ==
  ASSUME pc \in [Proc -> ClientLabel], NoPidYet, pid \in [Proc -> {-1} \cup Proc],
         NEW p \in Proc, ClientStep(p)
  PROVE  NoPidYet'
<1> USE DEF NoPidYet, PreBoot, BootInit, lockVars, devVars, uosVars,
        localVars, poolVars, clientVars
<1>1. CASE UosStep(p) /\ UNCHANGED poolVars /\ UNCHANGED clientVars
  BY <1>1
<1>2. CASE PthreadStep(p) /\ UNCHANGED clientVars
  BY <1>2
<1>3. CASE UseStep(p)
  BY <1>3
<1> QED BY <1>1, <1>2, <1>3

(* The memset of uos_start stays within words 1 .. NPROCS - 1.             *)
LEMMA StepBootIdx ==
  ASSUME pc \in [Proc -> ClientLabel], BootIdx, InitByZero, idx \in [Proc -> 0 ..
         NPROCS], NEW p \in Proc, ClientStep(p)
  PROVE  BootIdx'
<1> USE NPROCSAssumption DEF BootIdx, lockVars, devVars, uosVars, localVars,
        poolVars, clientVars
<1>1. CASE UosStep(p) /\ UNCHANGED poolVars /\ UNCHANGED clientVars
  BY <1>1
<1>2. CASE PthreadStep(p) /\ UNCHANGED clientVars
  BY <1>2
<1>3. CASE UseStep(p)
  BY <1>3
<1> QED BY <1>1, <1>2, <1>3

(* The loops over the processor words stay within them.                    *)
LEMMA StepIdx ==
  ASSUME pc \in [Proc -> ClientLabel], IdxInRange, idx \in [Proc -> 0 .. NPROCS],
         NEW p \in Proc, ClientStep(p)
  PROVE  IdxInRange'
<1> USE NPROCSAssumption DEF IdxInRange, lockVars, devVars, uosVars,
        localVars, poolVars, clientVars
<1>1. CASE UosStep(p) /\ UNCHANGED poolVars /\ UNCHANGED clientVars
  BY <1>1
<1>2. CASE PthreadStep(p) /\ UNCHANGED clientVars
  BY <1>2
<1>3. CASE UseStep(p)
  BY <1>3
<1> QED BY <1>1, <1>2, <1>3

(* tid names an entry of the pool wherever it is used.                     *)
LEMMA StepTid ==
  ASSUME pc \in [Proc -> ClientLabel], TidInRange, RegInRange, tid \in [Proc -> 0 ..
         MAX_THREADS], threads \in [0 .. NTHREADS - 1 -> Tid], CounterInRange,
         MainIsZero, i \in 0 .. NTHREADS, NEW p \in Proc, ClientStep(p)
  PROVE  TidInRange'
<1> USE MAX_THREADSAssumption, NTHREADSAssumption, ZeroProc DEF TidInRange,
        RegInRange, CounterInRange, MainIsZero, Main, Exiting, ExitCounted,
        Thread, Word, Null, Free, Tid, lockVars, devVars, uosVars, localVars,
        poolVars, clientVars
<1>1. CASE UosStep(p) /\ UNCHANGED poolVars /\ UNCHANGED clientVars
  BY <1>1
<1>2. CASE PthreadStep(p) /\ UNCHANGED clientVars
  BY <1>2
<1>3. CASE UseStep(p)
  <2>1. CASE JoinRelease(p) \/ Join(p)
    BY <1>3, <2>1
  <2>2. CASE Created(p)
    BY <1>3, <2>2
  <2>3. CASE SpawnAcquire(p) \/ SpawnRelease(p) \/ Spawn(p) \/ Create(p)
            \/ JoinAcquire(p) \/ JoinDone(p) \/ Enter(p) \/ PrintDone(p)
            \/ Work(p) \/ PrintAgain(p) \/ Return(p)
    BY <1>3, <2>3
  <2> QED BY <1>3, <2>1, <2>2, <2>3, Zenon
<1> QED BY <1>1, <1>2, <1>3, Zenon

(* What the auxiliary loop has read is the contents of a word.             *)
LEMMA StepReg ==
  ASSUME pc \in [Proc -> ClientLabel], RegInRange, PidZero, procs \in [Proc ->
         Word], pid \in [Proc -> {-1} \cup Proc], reg \in [Proc -> Int], NEW p
         \in Proc, ClientStep(p)
  PROVE  RegInRange'
<1> USE ZeroProc DEF RegInRange, PidZero, PreBoot, BootInit, lockVars,
        devVars, uosVars, localVars, poolVars, clientVars
<1>1. CASE UosStep(p) /\ UNCHANGED poolVars /\ UNCHANGED clientVars
  <2>1. CASE AL_Read(p)
    BY <1>1, <2>1
  <2>2. CASE US_Acquire(p) \/ US_Check(p) \/ US_InitOwn(p) \/
            US_InitOther(p) \/ US_SetInit(p) \/ US_Load(p) \/ US_Store(p) \/
            US_Release(p) \/ AL_Test(p) \/ AL_Acquire(p) \/ AL_Release(p) \/
            SP_Acquire(p) \/ SP_Scan(p) \/ SP_Write(p) \/ SP_Release1(p) \/
            SP_Release2(p) \/ SP_Fail(p) \/ UM_Terminate(p) \/ UE_Acquire(p)
            \/ UE_Load(p) \/ UE_Store(p) \/ UE_SetTerm(p) \/ UE_Resume(p) \/
            UE_Release(p) \/ UE_Wait(p)
    BY <1>1, <2>2
  <2> QED BY <1>1, <2>1, <2>2
<1>2. CASE PthreadStep(p) /\ UNCHANGED clientVars
  BY <1>2
<1>3. CASE UseStep(p)
  BY <1>3
<1> QED BY <1>1, <1>2, <1>3

(* The counter of the main program stays below NTHREADS until it is done.  *)
LEMMA StepCounter ==
  ASSUME pc \in [Proc -> ClientLabel], CounterInRange, MainIsZero, i \in 0 ..
         NTHREADS, NEW p \in Proc, ClientStep(p)
  PROVE  CounterInRange'
<1> USE NTHREADSAssumption, ZeroProc DEF CounterInRange, MainIsZero, Main,
        Exiting, ExitCounted, lockVars, devVars, uosVars, localVars, poolVars,
        clientVars
<1>1. CASE UosStep(p) /\ UNCHANGED poolVars /\ UNCHANGED clientVars
  BY <1>1
<1>2. CASE PthreadStep(p) /\ UNCHANGED clientVars
  BY <1>2
<1>3. CASE UseStep(p)
  BY <1>3
<1> QED BY <1>1, <1>2, <1>3

(* What a step does to the lock is what it does to the place of its        *)
(* processor: going in takes the lock, coming out gives it back.           *)
LEMMA StepLock ==
  ASSUME pc \in [Proc -> ClientLabel], Solo, MainIsZero, NEW p \in Proc, ClientStep(p)
  PROVE  \/ LockAcquire(p) /\ ~Inside(p) /\ Inside(p)'
         \/ LockRelease(p) /\ Inside(p) /\ ~Inside(p)'
         \/ LockStrayRelease(p) /\ ~Inside(p) /\ ~Inside(p)'
         \/ UNCHANGED lockVars /\ (Inside(p) <=> Inside(p)')
<1> USE ZeroProc DEF Inside, Solo, Early, MainIsZero, Main, PreBoot, BootInit,
        KernelSection, ClientSection, PthreadSection, poolVars
<1>1. CASE UosStep(p) /\ UNCHANGED poolVars /\ UNCHANGED clientVars
  <2>1. CASE US_Acquire(p) \/ AL_Acquire(p) \/ SP_Acquire(p) \/
            UE_Acquire(p)
    BY <1>1, <2>1
  <2>2. CASE US_Release(p) \/ AL_Release(p) \/ SP_Release1(p) \/ SP_Fail(p)
            \/ UE_Release(p)
    BY <1>1, <2>2
  <2>3. CASE SP_Release2(p)
    BY <1>1, <2>3
  <2>4. CASE US_Check(p) \/ US_InitOwn(p) \/ US_InitOther(p) \/
            US_SetInit(p) \/ US_Load(p) \/ US_Store(p) \/ AL_Test(p) \/
            AL_Read(p) \/ SP_Scan(p) \/ SP_Write(p) \/ UM_Terminate(p) \/
            UE_Load(p) \/ UE_Store(p) \/ UE_SetTerm(p) \/ UE_Resume(p) \/
            UE_Wait(p)
    BY <1>1, <2>4
  <2> QED BY <1>1, <2>1, <2>2, <2>3, <2>4
<1>2. CASE PthreadStep(p) /\ UNCHANGED clientVars
  <2>1. CASE PC_InitAcquire(p) \/ PC_Acquire(p) \/ PJ_Acquire(p)
    BY <1>2, <2>1
  <2>2. CASE PC_InitRelease(p) \/ PC_ClaimRelease(p) \/ PC_Skip(p) \/
            PJ_Release(p)
    BY <1>2, <2>2
  <2>3. CASE PC_InitPool(p)
    BY <1>2, <2>3
  <2>4. CASE PC_Check(p) \/ PC_Recheck(p) \/ PC_SetInit(p) \/ PC_Scan(p) \/
            PC_Claim(p) \/ PJ_Poll(p) \/ AL_Call(p) \/ TC_Run(p) \/
            TC_Test(p) \/ TC_Call(p) \/ TC_Clear(p) \/ TC_Finish(p)
    BY <1>2, <2>4
  <2> QED BY <1>2, <2>1, <2>2, <2>3, <2>4
<1>3. CASE UseStep(p)
  BY <1>3
<1> QED BY <1>1, <1>2, <1>3

(* Setting gLockPool turns nobody into an owner: the only one in the       *)
(* library is the processor that sets it.                                  *)
LEMMA StepOthers ==
  ASSUME pc \in [Proc -> ClientLabel], Solo, MainIsZero, NEW p \in Proc, ClientStep(p)
  PROVE  \A q \in Proc : q # p => (Inside(q) <=> Inside(q)')
<1> USE ZeroProc DEF Inside, Solo, Early, MainIsZero, Main, PreBoot, BootInit,
        KernelSection, ClientSection, PthreadSection, poolVars
<1>1. CASE UosStep(p) /\ UNCHANGED poolVars /\ UNCHANGED clientVars
  BY <1>1
<1>2. CASE PthreadStep(p) /\ UNCHANGED clientVars
  BY <1>2
<1>3. CASE UseStep(p)
  BY <1>3
<1> QED BY <1>1, <1>2, <1>3

(* How pid = initialized_cores++ changes the count and the pids.           *)
LEMMA StepCores ==
  ASSUME pc \in [Proc -> ClientLabel], pid \in [Proc -> {-1} \cup Proc], reg \in
         [Proc -> Int], NEW p \in Proc, ClientStep(p)
  PROVE  /\ \/ initialized_cores' = initialized_cores /\ pid' = pid
            \/ /\ pc[p] = "US_Store" /\ pc'[p] = "US_Release"
               /\ initialized_cores' = reg[p] + 1
               /\ pid' = [pid EXCEPT ![p] = reg[p]]
         /\ \A q \in Proc : pc'[q] = "US_Store" =>
              \/ pc[q] = "US_Store" /\ reg'[q] = reg[q]
              \/ initialized_cores' = initialized_cores /\ reg'[q] = initialized_cores
<1> USE DEF lockVars, devVars, uosVars, localVars, poolVars, clientVars
<1>1. CASE UosStep(p) /\ UNCHANGED poolVars /\ UNCHANGED clientVars
  BY <1>1
<1>2. CASE PthreadStep(p) /\ UNCHANGED clientVars
  BY <1>2
<1>3. CASE UseStep(p)
  BY <1>3
<1> QED BY <1>1, <1>2, <1>3

(* How exited++ changes the count.                                         *)
LEMMA StepExited ==
  ASSUME pc \in [Proc -> ClientLabel], reg \in [Proc -> Int], NEW p \in Proc,
         ClientStep(p)
  PROVE  /\ \/ exited' = exited
            \/ pc[p] = "UE_Store" /\ pc'[p] = "UE_SetTerm" /\ exited' = reg[p] + 1
         /\ \A q \in Proc : pc'[q] = "UE_Store" =>
              \/ pc[q] = "UE_Store" /\ reg'[q] = reg[q]
              \/ exited' = exited /\ reg'[q] = exited
<1> USE DEF lockVars, devVars, uosVars, localVars, poolVars, clientVars
<1>1. CASE UosStep(p) /\ UNCHANGED poolVars /\ UNCHANGED clientVars
  BY <1>1
<1>2. CASE PthreadStep(p) /\ UNCHANGED clientVars
  BY <1>2
<1>3. CASE UseStep(p)
  BY <1>3
<1> QED BY <1>1, <1>2, <1>3

(* -1 is stored by the memset of uos_start only, in words that hold it.    *)
LEMMA StepWords ==
  ASSUME pc \in [Proc -> ClientLabel], procs \in [Proc -> Word], tid \in [Proc -> 0
         .. MAX_THREADS], Solo, InitByZero, BootIdx, NEW p \in Proc, ClientStep(p)
  PROVE  \A q \in Proc : procs[q] # Free => procs'[q] # Free
<1> USE ZeroProc, MAX_THREADSAssumption DEF Solo, InitByZero, BootIdx,
        BootInit, PreBoot, ProcWrite, Free, Null, Descriptor, lockVars,
        devVars, uosVars, localVars, poolVars, clientVars
<1>1. CASE UosStep(p) /\ UNCHANGED poolVars /\ UNCHANGED clientVars
  <2>1. CASE US_InitOwn(p)
    BY <1>1, <2>1
  <2>2. CASE US_InitOther(p)
    BY <1>1, <2>2
  <2>3. CASE SP_Write(p)
    BY <1>1, <2>3
  <2>4. CASE UE_Resume(p)
    BY <1>1, <2>4
  <2>5. CASE US_Acquire(p) \/ US_Check(p) \/ US_SetInit(p) \/ US_Load(p) \/
            US_Store(p) \/ US_Release(p) \/ AL_Test(p) \/ AL_Acquire(p) \/
            AL_Read(p) \/ AL_Release(p) \/ SP_Acquire(p) \/ SP_Scan(p) \/
            SP_Release1(p) \/ SP_Release2(p) \/ SP_Fail(p) \/
            UM_Terminate(p) \/ UE_Acquire(p) \/ UE_Load(p) \/ UE_Store(p) \/
            UE_SetTerm(p) \/ UE_Release(p) \/ UE_Wait(p)
    BY <1>1, <2>5
  <2> QED BY <1>1, <2>1, <2>2, <2>3, <2>4, <2>5
<1>2. CASE PthreadStep(p) /\ UNCHANGED clientVars
  BY <1>2
<1>3. CASE UseStep(p)
  BY <1>3
<1> QED BY <1>1, <1>2, <1>3

(* Types, variable by variable: a word holds Free, Null or a descriptor.    *)
LEMMA TypeProcs ==
  ASSUME pc \in [Proc -> ClientLabel], procs \in [Proc -> Word], TidInRange, tid \in
         [Proc -> 0 .. MAX_THREADS], NEW p \in Proc, ClientStep(p)
  PROVE  procs' \in [Proc -> Word]
<1> USE MAX_THREADSAssumption DEF ProcWrite, Word, Null, Free, Descriptor,
        TidInRange, Thread, lockVars, devVars, uosVars, localVars, poolVars,
        clientVars
<1>1. CASE UosStep(p) /\ UNCHANGED poolVars /\ UNCHANGED clientVars
  BY <1>1
<1>2. CASE PthreadStep(p) /\ UNCHANGED clientVars
  BY <1>2
<1>3. CASE UseStep(p)
  BY <1>3
<1> QED BY <1>1, <1>2, <1>3

(* ProcWrite sets the pause flag of the processor it names.                *)
LEMMA WritePaused ==
  ASSUME paused \in [Proc -> BOOLEAN], NEW n, NEW data, ProcWrite(n, data)
  PROVE  paused' \in [Proc -> BOOLEAN]
<1>1. (data = Free) \in BOOLEAN
  OBVIOUS
<1>2. paused' = [paused EXCEPT ![n] = (data = Free)]
  BY DEF ProcWrite
<1>3. ASSUME NEW b \in BOOLEAN
      PROVE  [paused EXCEPT ![n] = b] \in [Proc -> BOOLEAN]
  BY Zenon
<1> QED BY <1>1, <1>2, <1>3, Zenon

(* The pause flags stay booleans.                                          *)
LEMMA TypePaused ==
  ASSUME paused \in [Proc -> BOOLEAN], NEW p \in Proc, ClientStep(p)
  PROVE  paused' \in [Proc -> BOOLEAN]
<1> USE WritePaused DEF devVars
<1>1. CASE UosStep(p) /\ UNCHANGED poolVars /\ UNCHANGED clientVars
  <2>1. CASE US_InitOwn(p)
    BY <1>1, <2>1
  <2>2. CASE US_InitOther(p)
    BY <1>1, <2>2
  <2>3. CASE SP_Write(p)
    BY <1>1, <2>3
  <2>4. CASE UE_Resume(p)
    BY <1>1, <2>4
  <2>5. CASE US_Acquire(p) \/ US_Check(p) \/ US_SetInit(p) \/ US_Load(p) \/
            US_Store(p) \/ US_Release(p) \/ AL_Test(p) \/ AL_Acquire(p) \/
            AL_Read(p) \/ AL_Release(p) \/ SP_Acquire(p) \/ SP_Scan(p) \/
            SP_Release1(p) \/ SP_Release2(p) \/ SP_Fail(p) \/
            UM_Terminate(p) \/ UE_Acquire(p) \/ UE_Load(p) \/ UE_Store(p) \/
            UE_SetTerm(p) \/ UE_Release(p) \/ UE_Wait(p)
    BY <1>1, <2>5
  <2> QED BY <1>1, <2>1, <2>2, <2>3, <2>4, <2>5
<1>2. CASE PthreadStep(p) /\ UNCHANGED clientVars
  BY <1>2
<1>3. CASE UseStep(p)
  BY <1>3
<1> QED BY <1>1, <1>2, <1>3

(* A loop counter over the processor words stays in 0 .. NPROCS.           *)
LEMMA TypeIdx ==
  ASSUME pc \in [Proc -> ClientLabel], idx \in [Proc -> 0 .. NPROCS], IdxInRange,
         BootIdx, NEW p \in Proc, ClientStep(p)
  PROVE  idx' \in [Proc -> 0 .. NPROCS]
<1> USE NPROCSAssumption DEF IdxInRange, BootIdx, lockVars, devVars, uosVars,
        localVars, poolVars, clientVars
<1>1. CASE UosStep(p) /\ UNCHANGED poolVars /\ UNCHANGED clientVars
  BY <1>1
<1>2. CASE PthreadStep(p) /\ UNCHANGED clientVars
  BY <1>2
<1>3. CASE UseStep(p)
  BY <1>3
<1> QED BY <1>1, <1>2, <1>3

(* A thread number stays in 0 .. MAX_THREADS.                              *)
LEMMA TypeTid ==
  ASSUME pc \in [Proc -> ClientLabel], tid \in [Proc -> 0 .. MAX_THREADS],
         RegInRange, TidInRange, threads \in [0 .. NTHREADS - 1 -> Tid],
         CounterInRange, MainIsZero, i \in 0 .. NTHREADS, NEW p \in Proc,
         ClientStep(p)
  PROVE  tid' \in [Proc -> 0 .. MAX_THREADS]
<1> USE MAX_THREADSAssumption, NTHREADSAssumption, ZeroProc DEF RegInRange,
        TidInRange, Thread, Word, Null, Free, Tid, CounterInRange, MainIsZero,
        Main, Exiting, ExitCounted, lockVars, devVars, uosVars, localVars,
        poolVars, clientVars
<1>1. CASE UosStep(p) /\ UNCHANGED poolVars /\ UNCHANGED clientVars
  BY <1>1
<1>2. CASE PthreadStep(p) /\ UNCHANGED clientVars
  <2>1. CASE PC_Skip(p)
    BY <1>2, <2>1
  <2>2. CASE AL_Call(p)
    BY <1>2, <2>2
  <2>3. CASE PC_Check(p) \/ PC_InitAcquire(p) \/ PC_Recheck(p) \/
            PC_InitPool(p) \/ PC_SetInit(p) \/ PC_InitRelease(p)
    BY <1>2, <2>3
  <2>4. CASE PC_Acquire(p) \/ PC_Scan(p) \/ PC_Claim(p) \/ PC_ClaimRelease(p)
    BY <1>2, <2>4
  <2>5. CASE PJ_Poll(p) \/ PJ_Acquire(p) \/ PJ_Release(p) \/ TC_Run(p) \/
            TC_Test(p) \/ TC_Call(p) \/ TC_Clear(p) \/ TC_Finish(p)
    BY <1>2, <2>5
  <2> QED BY ONLY <1>2, <2>1, <2>2, <2>3, <2>4, <2>5, Zenon DEF PthreadStep
<1>3. CASE UseStep(p)
  <2>1. CASE JoinRelease(p) \/ Join(p)
    BY <1>3, <2>1
  <2>2. CASE SpawnAcquire(p) \/ SpawnRelease(p) \/ Spawn(p) \/ Create(p)
            \/ Created(p) \/ JoinAcquire(p) \/ JoinDone(p) \/ Enter(p)
            \/ PrintDone(p) \/ Work(p) \/ PrintAgain(p) \/ Return(p)
    BY <1>3, <2>2
  <2> QED BY <1>3, <2>1, <2>2, Zenon
<1> QED BY <1>1, <1>2, <1>3, Zenon

(* A processor loads integers.                                             *)
LEMMA TypeReg ==
  ASSUME pc \in [Proc -> ClientLabel], reg \in [Proc -> Int], procs \in [Proc ->
         Word], pid \in [Proc -> {-1} \cup Proc], initialized_cores \in 0 ..
         NPROCS, exited \in 0 .. NPROCS, PidZero, NEW p \in Proc, ClientStep(p)
  PROVE  reg' \in [Proc -> Int]
<1> USE NPROCSAssumption, MAX_THREADSAssumption, ZeroProc DEF PidZero,
        PreBoot, BootInit, Word, Free, lockVars, devVars, uosVars, localVars,
        poolVars, clientVars
<1>1. CASE UosStep(p) /\ UNCHANGED poolVars /\ UNCHANGED clientVars
  <2>1. CASE AL_Read(p)
    BY <1>1, <2>1
  <2>2. CASE US_Acquire(p) \/ US_Check(p) \/ US_InitOwn(p) \/
            US_InitOther(p) \/ US_SetInit(p) \/ US_Load(p) \/ US_Store(p) \/
            US_Release(p) \/ AL_Test(p) \/ AL_Acquire(p) \/ AL_Release(p) \/
            SP_Acquire(p) \/ SP_Scan(p) \/ SP_Write(p) \/ SP_Release1(p) \/
            SP_Release2(p) \/ SP_Fail(p) \/ UM_Terminate(p) \/ UE_Acquire(p)
            \/ UE_Load(p) \/ UE_Store(p) \/ UE_SetTerm(p) \/ UE_Resume(p) \/
            UE_Release(p) \/ UE_Wait(p)
    BY <1>1, <2>2
  <2> QED BY <1>1, <2>1, <2>2
<1>2. CASE PthreadStep(p) /\ UNCHANGED clientVars
  BY <1>2
<1>3. CASE UseStep(p)
  BY <1>3
<1> QED BY <1>1, <1>2, <1>3

(* The flags stay booleans.                                                *)
LEMMA TypeFlags ==
  ASSUME initialized \in BOOLEAN, SHOULD_TERMINATE \in BOOLEAN,
         pthread_initialized \in BOOLEAN, gLockPool \in BOOLEAN, NEW p \in
         Proc, ClientStep(p)
  PROVE  /\ initialized' \in BOOLEAN /\ SHOULD_TERMINATE' \in BOOLEAN
         /\ pthread_initialized' \in BOOLEAN /\ gLockPool' \in BOOLEAN
<1> USE DEF lockVars, devVars, uosVars, localVars, poolVars, clientVars
<1>1. CASE UosStep(p) /\ UNCHANGED poolVars /\ UNCHANGED clientVars
  BY <1>1, Zenon
<1>2. CASE PthreadStep(p) /\ UNCHANGED clientVars
  BY <1>2, Zenon
<1>3. CASE UseStep(p)
  BY <1>3
<1> QED BY <1>1, <1>2, <1>3, Zenon

(* The thread pool keeps its types.                                        *)
LEMMA TypePool ==
  ASSUME tid \in [Proc -> 0 .. MAX_THREADS], state \in [Tid -> ThreadState],
         func \in [Tid -> BOOLEAN], arg \in [Tid -> Nat], os_thread \in [Tid
         -> BOOLEAN], i \in Nat, NEW p \in Proc, ClientStep(p)
  PROVE  /\ state' \in [Tid -> ThreadState] /\ func' \in [Tid -> BOOLEAN]
         /\ arg' \in [Tid -> Nat] /\ os_thread' \in [Tid -> BOOLEAN]
<1> USE DEF ThreadState, lockVars, devVars, uosVars, localVars, poolVars,
        clientVars
<1>1. CASE UosStep(p) /\ UNCHANGED poolVars /\ UNCHANGED clientVars
  BY <1>1
<1>2. CASE PthreadStep(p) /\ UNCHANGED clientVars
  <2>1. CASE PC_InitPool(p)
    BY <1>2, <2>1
  <2>2. CASE PC_Claim(p)
    BY <1>2, <2>2, Zenon
  <2>3. CASE TC_Run(p)
    BY <1>2, <2>3, Zenon
  <2>4. CASE TC_Clear(p)
    BY <1>2, <2>4, Zenon
  <2>5. CASE TC_Finish(p)
    BY <1>2, <2>5, Zenon
  <2>6. CASE PC_Check(p) \/ PC_InitAcquire(p) \/ PC_Recheck(p) \/
            PC_SetInit(p) \/ PC_InitRelease(p) \/ PC_Acquire(p) \/
            PC_Scan(p) \/ PC_ClaimRelease(p) \/ PC_Skip(p) \/ PJ_Poll(p) \/
            PJ_Acquire(p) \/ PJ_Release(p) \/ AL_Call(p) \/ TC_Test(p) \/
            TC_Call(p)
    BY <1>2, <2>6
  <2> QED BY <1>2, <2>1, <2>2, <2>3, <2>4, <2>5, <2>6, Zenon
<1>3. CASE UseStep(p)
  <2>1. CASE Create(p)
    BY <1>3, <2>1, Zenon
  <2>2. CASE SpawnAcquire(p) \/ SpawnRelease(p) \/ Spawn(p) \/ Created(p)
            \/ JoinAcquire(p) \/ JoinRelease(p) \/ Join(p) \/ JoinDone(p)
            \/ Enter(p) \/ PrintDone(p) \/ Work(p) \/ PrintAgain(p) \/ Return(p)
    BY <1>3, <2>2
  <2> QED BY <1>3, <2>1, <2>2
<1> QED BY <1>1, <1>2, <1>3, Zenon

(* The counter of the main program stays in 0 .. NTHREADS.                 *)
LEMMA TypeI ==
  ASSUME pc \in [Proc -> ClientLabel], i \in 0 .. NTHREADS, CounterInRange,
         MainIsZero, NEW p \in Proc, ClientStep(p)
  PROVE  i' \in 0 .. NTHREADS
<1> USE NTHREADSAssumption, MAX_THREADSAssumption, ZeroProc DEF
        CounterInRange, MainIsZero, Main, Exiting, ExitCounted, lockVars,
        devVars, uosVars, localVars, poolVars, clientVars
<1>1. CASE UosStep(p) /\ UNCHANGED poolVars /\ UNCHANGED clientVars
  BY <1>1
<1>2. CASE PthreadStep(p) /\ UNCHANGED clientVars
  BY <1>2
<1>3. CASE UseStep(p)
  BY <1>3
<1> QED BY <1>1, <1>2, <1>3

(* threads holds entries of the pool.                                      *)
LEMMA TypeThreads ==
  ASSUME pc \in [Proc -> ClientLabel], threads \in [0 .. NTHREADS - 1 -> Tid],
         TidInRange, tid \in [Proc -> 0 .. MAX_THREADS], NEW p \in Proc,
         ClientStep(p)
  PROVE  threads' \in [0 .. NTHREADS - 1 -> Tid]
<1> USE MAX_THREADSAssumption DEF TidInRange, Thread, Tid, lockVars, devVars,
        uosVars, localVars, poolVars, clientVars
<1>1. CASE UosStep(p) /\ UNCHANGED poolVars /\ UNCHANGED clientVars
  BY <1>1
<1>2. CASE PthreadStep(p) /\ UNCHANGED clientVars
  BY <1>2
<1>3. CASE UseStep(p)
  BY <1>3
<1> QED BY <1>1, <1>2, <1>3, Zenon

(* The two histories of SayHello count up from 0.                          *)
LEMMA TypeRuns ==
  ASSUME runs \in [Tid -> Nat], returns \in [Tid -> Nat], NEW p \in Proc,
         ClientStep(p)
  PROVE  runs' \in [Tid -> Nat] /\ returns' \in [Tid -> Nat]
<1> USE DEF lockVars, devVars, uosVars, localVars, poolVars, clientVars
<1>1. CASE UosStep(p) /\ UNCHANGED poolVars /\ UNCHANGED clientVars
  BY <1>1
<1>2. CASE PthreadStep(p) /\ UNCHANGED clientVars
  BY <1>2
<1>3. CASE UseStep(p)
  BY <1>3
<1> QED BY <1>1, <1>2, <1>3

-----------------------------------------------------------------------------
(* From here on a step is known by the lemmas above only.                  *)

HIDE DEF ClientStep, Jump

(* A set of processors that grows, by how much and up to what.             *)
LEMMA Counting ==
  ASSUME NEW S \in SUBSET Proc, NEW T \in SUBSET Proc, S \subseteq T
  PROVE  /\ Cardinality(S) \in Nat
         /\ Cardinality(T) \in Nat
         /\ Cardinality(S) \leq Cardinality(T)
         /\ Cardinality(T) \leq NPROCS
         /\ \A x \in T : x \notin S => Cardinality(S) + 1 \leq Cardinality(T)
<1>1. IsFiniteSet(Proc) /\ Cardinality(Proc) = NPROCS
  BY FS_Interval, NPROCSAssumption DEF Proc
<1>2. IsFiniteSet(T) /\ Cardinality(T) \leq NPROCS
  BY <1>1, FS_Subset
<1>3. \A R \in SUBSET T : IsFiniteSet(R) /\ Cardinality(R) \in Nat
                          /\ Cardinality(R) \leq Cardinality(T)
  BY <1>2, FS_Subset, FS_CardinalityType
<1>4. ASSUME NEW x \in T, x \notin S
      PROVE  Cardinality(S) + 1 \leq Cardinality(T)
  <2>1. Cardinality(S \cup {x}) = Cardinality(S) + 1
    BY <1>3, <1>4, FS_AddElement
  <2> QED BY <1>3, <1>4, <2>1
<1> QED BY <1>2, <1>3, <1>4, FS_CardinalityType

(* The count of booted processors never exceeds their number, whether the  *)
(* increments are torn or not: each processor adds at most 1 to it.        *)
LEMMA StepBootCount ==
  ASSUME pc \in [Proc -> ClientLabel], pid \in [Proc -> {-1} \cup Proc],
         reg \in [Proc -> Int], initialized_cores \in 0 .. NPROCS, BootCount,
         NEW p \in Proc, ClientStep(p)
  PROVE  /\ BootCount' /\ (initialized_cores \in 0 .. NPROCS)'
         /\ (pid \in [Proc -> {-1} \cup Proc])'
<1> DEFINE b == Cardinality(Booted)
           c == Cardinality(Booted')
<1>1. Booted \in SUBSET Proc /\ Booted' \in SUBSET Proc /\ Booted \subseteq Booted'
  <2>1. \A q \in Proc : pc[q] \notin PreBoot => pc'[q] \notin PreBoot
    BY StepForward
  <2> QED BY <2>1 DEF Booted
<1>2. b \in Nat /\ c \in Nat /\ b \leq c /\ c \leq NPROCS
  BY <1>1, Counting
<1>3. \A x \in Booted' : x \notin Booted => b + 1 \leq c
  BY <1>1, Counting
<1>4. ASSUME NEW q \in Proc, pc'[q] = "US_Store" PROVE reg'[q] \in 0 .. c
  <2>1. CASE pc[q] = "US_Store" /\ reg'[q] = reg[q]
    BY <1>2, <2>1 DEF BootCount
  <2>2. CASE initialized_cores' = initialized_cores /\ reg'[q] = initialized_cores
    BY <1>2, <2>2 DEF BootCount
  <2> QED BY <1>4, <2>1, <2>2, StepCores
<1>5. CASE initialized_cores' = initialized_cores /\ pid' = pid
  BY <1>2, <1>4, <1>5 DEF BootCount
<1>6. CASE /\ pc[p] = "US_Store" /\ pc'[p] = "US_Release"
           /\ initialized_cores' = reg[p] + 1
           /\ pid' = [pid EXCEPT ![p] = reg[p]]
  <2>1. p \in Booted' /\ p \notin Booted
    BY <1>6 DEF Booted, PreBoot, BootInit
  <2>2. reg[p] \in 0 .. b
    BY <1>6 DEF BootCount
  <2>3. reg[p] + 1 \leq c /\ reg[p] \in Proc
    BY <1>2, <1>3, <2>1, <2>2, NPROCSAssumption DEF Proc
  <2> QED BY <1>2, <1>4, <1>6, <2>2, <2>3, NPROCSAssumption DEF BootCount
<1> QED BY <1>5, <1>6, StepCores

(* The same for the count of uos_exit.                                     *)
LEMMA StepExitCount ==
  ASSUME pc \in [Proc -> ClientLabel], reg \in [Proc -> Int], exited \in 0 .. NPROCS,
         ExitCount, NEW p \in Proc, ClientStep(p)
  PROVE  ExitCount' /\ (exited \in 0 .. NPROCS)'
<1> DEFINE b == Cardinality(Counted)
           c == Cardinality(Counted')
<1>1. Counted \in SUBSET Proc /\ Counted' \in SUBSET Proc /\ Counted \subseteq Counted'
  <2>1. \A q \in Proc : pc[q] \in ExitCounted => pc'[q] \in ExitCounted
    BY StepForward
  <2> QED BY <2>1 DEF Counted
<1>2. b \in Nat /\ c \in Nat /\ b \leq c /\ c \leq NPROCS
  BY <1>1, Counting
<1>3. \A x \in Counted' : x \notin Counted => b + 1 \leq c
  BY <1>1, Counting
<1>4. ASSUME NEW q \in Proc, pc'[q] = "UE_Store" PROVE reg'[q] \in 0 .. c
  <2>1. CASE pc[q] = "UE_Store" /\ reg'[q] = reg[q]
    BY <1>2, <2>1 DEF ExitCount
  <2>2. CASE exited' = exited /\ reg'[q] = exited
    BY <1>2, <2>2 DEF ExitCount
  <2> QED BY <1>4, <2>1, <2>2, StepExited
<1>5. CASE exited' = exited
  BY <1>2, <1>4, <1>5 DEF ExitCount
<1>6. CASE pc[p] = "UE_Store" /\ pc'[p] = "UE_SetTerm" /\ exited' = reg[p] + 1
  <2>1. p \in Counted' /\ p \notin Counted
    BY <1>6 DEF Counted, ExitCounted
  <2>2. reg[p] \in 0 .. b
    BY <1>6 DEF ExitCount
  <2>3. reg[p] + 1 \leq c
    BY <1>2, <1>3, <2>1, <2>2
  <2> QED BY <1>2, <1>4, <1>6, <2>2, <2>3, NPROCSAssumption DEF ExitCount
<1> QED BY <1>5, <1>6, StepExited

(* The lock word and its owners follow the places of the processors, and   *)
(* two owners can only come after a stray release.                         *)
LEMMA StepOwners ==
  ASSUME pc \in [Proc -> ClientLabel], Solo, MainIsZero, owners \subseteq Proc,
         lock \in {0, 1}, clobbered \in BOOLEAN,
         OwnersMatch, ExclusiveOwner, NEW p \in Proc, ClientStep(p)
  PROVE  /\ OwnersMatch' /\ ExclusiveOwner' /\ (clobbered => clobbered')
         /\ (lock \in {0, 1})' /\ (clobbered \in BOOLEAN)' /\ (owners \subseteq Proc)'
<1> USE StepOthers DEF OwnersMatch, ExclusiveOwner
<1>1. CASE LockAcquire(p) /\ ~Inside(p) /\ Inside(p)'
  BY <1>1 DEF LockAcquire
<1>2. CASE LockRelease(p) /\ Inside(p) /\ ~Inside(p)'
  BY <1>2 DEF LockRelease
<1>3. CASE LockStrayRelease(p) /\ ~Inside(p) /\ ~Inside(p)'
  BY <1>3, Zenon DEF LockStrayRelease
<1>4. CASE UNCHANGED lockVars /\ (Inside(p) <=> Inside(p)')
  BY <1>4 DEF lockVars
<1> QED BY <1>1, <1>2, <1>3, <1>4, StepLock

(* While the lock is not clobbered the increment is not torn, so every pid *)
(* is new.                                                                 *)
LEMMA StepPids ==
  ASSUME pc \in [Proc -> ClientLabel], pid \in [Proc -> {-1} \cup Proc],
         reg \in [Proc -> Int], initialized_cores \in 0 .. NPROCS,
         clobbered => clobbered',
         OwnersMatch, ExclusiveOwner, PidsFollow, DistinctPids,
         NEW p \in Proc, ClientStep(p)
  PROVE  PidsFollow' /\ DistinctPids'
<1> SUFFICES ASSUME ~clobbered'
             PROVE  PidsFollow' /\ DistinctPids'
  BY DEF PidsFollow, DistinctPids
<1>1. ~clobbered
  OBVIOUS
<1>2. \A q \in Proc : pc[q] = "US_Store" /\ pc[p] = "US_Store" => q = p
  BY <1>1 DEF OwnersMatch, ExclusiveOwner, Inside, KernelSection
<1>3. CASE initialized_cores' = initialized_cores /\ pid' = pid
  BY <1>1, <1>3, StepCores DEF PidsFollow, DistinctPids
<1>4. CASE /\ pc[p] = "US_Store" /\ pc'[p] = "US_Release"
           /\ initialized_cores' = reg[p] + 1
           /\ pid' = [pid EXCEPT ![p] = reg[p]]
  <2>1. reg[p] = initialized_cores
    BY <1>1, <1>4 DEF PidsFollow
  <2>2. \A q \in Proc : pc'[q] # "US_Store"
    BY <1>2, <1>4, <2>1, StepCores
  <2>3. \A q \in Proc : pid'[q] = IF q = p THEN initialized_cores ELSE pid[q]
    BY <1>4, <2>1
  <2>4. \A q \in Proc : pid[q] < initialized_cores /\ pid[q] \in Int
    BY <1>1 DEF PidsFollow, Proc
  <2> QED BY <1>1, <1>4, <2>1, <2>2, <2>3, <2>4 DEF PidsFollow, DistinctPids
<1> QED BY <1>3, <1>4, StepCores

(* The types, put together.                                                *)
LEMMA StepTypes ==
  ASSUME IInv, NEW p \in Proc, ClientStep(p)
  PROVE  ClientTypeOK'
<1> USE DEF IInv, ClientTypeOK, PthreadTypeOK
<1>1. i \in Nat
  BY NTHREADSAssumption, MAX_THREADSAssumption
<1>2. /\ lock' \in {0, 1} /\ clobbered' \in BOOLEAN /\ owners' \subseteq Proc
      /\ procs' \in [Proc -> Word] /\ paused' \in [Proc -> BOOLEAN]
  BY StepOwners, TypeProcs, TypePaused
<1>3. /\ pc' \in [Proc -> ClientLabel]
      /\ initialized_cores' \in 0 .. NPROCS /\ pid' \in [Proc -> {-1} \cup Proc]
      /\ exited' \in 0 .. NPROCS
  BY StepLabel, StepBootCount, StepExitCount
<1>4. reg' \in [Proc -> Int]
  BY TypeReg
<1>5. idx' \in [Proc -> 0 .. NPROCS] /\ tid' \in [Proc -> 0 .. MAX_THREADS]
  BY TypeIdx, TypeTid
<1>6. /\ initialized' \in BOOLEAN /\ SHOULD_TERMINATE' \in BOOLEAN
      /\ pthread_initialized' \in BOOLEAN /\ gLockPool' \in BOOLEAN
  BY TypeFlags
<1>7. /\ state' \in [Tid -> ThreadState] /\ func' \in [Tid -> BOOLEAN]
      /\ arg' \in [Tid -> Nat] /\ os_thread' \in [Tid -> BOOLEAN]
  BY <1>1, TypePool
<1>8. /\ i' \in 0 .. NTHREADS /\ threads' \in [0 .. NTHREADS - 1 -> Tid]
      /\ runs' \in [Tid -> Nat] /\ returns' \in [Tid -> Nat]
  BY TypeI, TypeThreads, TypeRuns
<1> QED BY <1>2, <1>3, <1>4, <1>5, <1>6, <1>7, <1>8, Zenon

(* IInv holds initially.                                                   *)
LEMMA InitIInv == ClientInit => IInv
<1> SUFFICES ASSUME ClientInit PROVE IInv
  OBVIOUS
<1> USE NPROCSAssumption, ZeroProc
    DEF ClientInit, UosInit, PthreadInit, LockInit, ProcDeviceInit, Free, Null
<1>1. ClientTypeOK
  <2>1. pc \in [Proc -> ClientLabel]
    BY DEF ClientLabel, ClientOutside, PthreadOutside
  <2>2. /\ procs \in [Proc -> Word] /\ owners \subseteq Proc
        /\ idx \in [Proc -> 0 .. NPROCS] /\ tid \in [Proc -> 0 .. MAX_THREADS]
        /\ initialized_cores \in 0 .. NPROCS /\ exited \in 0 .. NPROCS
    BY MAX_THREADSAssumption DEF Word
  <2>3. paused \in [Proc -> BOOLEAN]
    BY Zenon
  <2>4. /\ i \in 0 .. NTHREADS /\ threads \in [0 .. NTHREADS - 1 -> Tid]
        /\ state \in [Tid -> ThreadState] /\ func \in [Tid -> BOOLEAN]
        /\ os_thread \in [Tid -> BOOLEAN]
    BY MAX_THREADSAssumption, NTHREADSAssumption DEF Tid, ThreadState
  <2>5. /\ lock \in {0, 1} /\ clobbered \in BOOLEAN /\ initialized \in BOOLEAN
        /\ SHOULD_TERMINATE \in BOOLEAN /\ pthread_initialized \in BOOLEAN
        /\ gLockPool \in BOOLEAN
    BY Zenon
  <2>6. /\ pid \in [Proc -> {-1} \cup Proc] /\ reg \in [Proc -> Int]
        /\ arg \in [Tid -> Nat] /\ runs \in [Tid -> Nat]
        /\ returns \in [Tid -> Nat]
    OBVIOUS
  <2> HIDE DEF ClientInit, UosInit, PthreadInit, LockInit, ProcDeviceInit
  <2> QED BY <2>1, <2>2, <2>3, <2>4, <2>5, <2>6 DEF ClientTypeOK, PthreadTypeOK
<1>2. Booted = {} /\ Counted = {}
  BY DEF Booted, Counted, PreBoot, ExitCounted
<1>3. BootCount /\ ExitCount
  BY <1>2, FS_EmptySet DEF BootCount, ExitCount
<1>4. /\ MainIsZero /\ Solo /\ InitByZero /\ PidZero /\ NoPidYet
      /\ PausedIffFree
  <2>1. MainIsZero /\ Solo
    BY DEF MainIsZero, Main, Solo, Early, PreBoot
  <2>2. InitByZero /\ PidZero /\ NoPidYet
    BY DEF InitByZero, PidZero, NoPidYet, PreBoot, BootInit
  <2>3. \A p \in Proc : paused[p] <=> p # 0
    BY Zenon
  <2>4. \A p \in Proc : procs[p] = Free <=> p # 0
    OBVIOUS
  <2> QED BY <2>1, <2>2, <2>3, <2>4 DEF PausedIffFree
<1>5. IdxInRange /\ BootIdx /\ TidInRange /\ RegInRange /\ CounterInRange
  BY NTHREADSAssumption, MAX_THREADSAssumption
  DEF IdxInRange, BootIdx, TidInRange, Thread, RegInRange, CounterInRange
<1>6. OwnersMatch /\ ExclusiveOwner
  BY DEF OwnersMatch, ExclusiveOwner, Inside, KernelSection, ClientSection,
         PthreadSection
<1>7. PidsFollow /\ DistinctPids
  BY DEF PidsFollow, DistinctPids, Proc
<1> QED BY <1>1, <1>3, <1>4, <1>5, <1>6, <1>7 DEF IInv

(* IInv is inductive.                                                      *)
LEMMA NextIInv == IInv /\ [ClientNext]_vars => IInv'
<1> SUFFICES ASSUME IInv, [ClientNext]_vars PROVE IInv'
  OBVIOUS
<1>1. ASSUME NEW p \in Proc, ClientStep(p) PROVE IInv'
  <2> USE <1>1
  <2>1. ClientTypeOK'
    BY StepTypes
  <2>2. OwnersMatch' /\ ExclusiveOwner' /\ (clobbered => clobbered')
    BY StepOwners DEF IInv, ClientTypeOK, PthreadTypeOK
  <2>3. PidsFollow' /\ DistinctPids'
    BY <2>2, StepPids DEF IInv, ClientTypeOK, PthreadTypeOK
  <2>4. BootCount' /\ ExitCount'
    BY StepBootCount, StepExitCount DEF IInv, ClientTypeOK, PthreadTypeOK
  <2>5. MainIsZero' /\ Solo' /\ PausedIffFree' /\ InitByZero'
    BY StepMainIsZero, StepSolo, StepPaused, StepInit
    DEF IInv, ClientTypeOK, PthreadTypeOK
  <2>6. PidZero' /\ NoPidYet' /\ BootIdx' /\ IdxInRange'
    BY StepPidZero, StepNoPidYet, StepBootIdx, StepIdx
    DEF IInv, ClientTypeOK, PthreadTypeOK
  <2>7. TidInRange' /\ RegInRange' /\ CounterInRange'
    BY StepTid, StepReg, StepCounter DEF IInv, ClientTypeOK, PthreadTypeOK
  <2> QED BY <2>1, <2>2, <2>3, <2>4, <2>5, <2>6, <2>7 DEF IInv
<1>2. CASE UNCHANGED vars
  BY <1>2
  DEF vars, lockVars, devVars, uosVars, localVars, poolVars, clientVars, IInv,
      ClientTypeOK, PthreadTypeOK, MainIsZero, Solo, PausedIffFree, InitByZero,
      PidZero, NoPidYet,
      BootCount, Booted, ExitCount, Counted, IdxInRange, BootIdx, TidInRange,
      RegInRange, CounterInRange, OwnersMatch, Inside, ExclusiveOwner, PidsFollow,
      DistinctPids
<1> QED BY <1>1, <1>2 DEF ClientNext

(* The inductive invariant.                                                *)
THEOREM Invariance == ClientSpec => []IInv
  BY InitIInv, NextIInv, PTL DEF ClientSpec

-----------------------------------------------------------------------------
(* Every variable keeps its type: no index is out of range, no counter     *)
(* runs past the number of processors, whatever the lock does.             *)
THEOREM TypeCorrect == ClientSpec => []ClientTypeOK
<1>1. IInv => ClientTypeOK
  BY DEF IInv
<1> QED BY <1>1, Invariance, PTL

(* Until a stray release hits a held lock, one processor at a time is in   *)
(* the kernel's and the library's critical sections together.              *)
THEOREM MutualExclusion == ClientSpec => []ExclusiveOwner
<1>1. IInv => ExclusiveOwner
  BY DEF IInv
<1> QED BY <1>1, Invariance, PTL

(* Nor does anybody else come into a section while processor 0 is in one   *)
(* that a NULL gLockPool does not guard: nobody else has been started.     *)
THEOREM NullLockExcludes == ClientSpec => []SectionsExclude
<1>1. IInv => SectionsExclude
  <2> SUFFICES ASSUME IInv, ~clobbered, NEW p \in Proc, NEW q \in Proc,
                      pc[p] \in KernelSection \cup ClientSection,
                      pc[q] \in KernelSection \cup ClientSection
               PROVE  p = q
    BY DEF SectionsExclude
  <2>1. CASE gLockPool
    <3>1. p \in owners /\ q \in owners
      BY <2>1 DEF IInv, OwnersMatch, Inside
    <3> QED BY <3>1 DEF IInv, ExclusiveOwner
  <2>2. CASE ~gLockPool
    <3>1. \A r \in Proc : r # 0 => pc[r] = "US_Acquire"
      BY <2>2 DEF IInv, Solo
    <3>2. "US_Acquire" \notin KernelSection \cup ClientSection
      BY DEF KernelSection, ClientSection, PthreadSection
    <3> QED BY <3>1, <3>2
  <2> QED BY <2>1, <2>2
<1> QED BY <1>1, Invariance, PTL

(* Until then, no two processors serve the same processor word.            *)
THEOREM PidsDistinct == ClientSpec => []DistinctPids
<1>1. IInv => DistinctPids
  BY DEF IInv
<1> QED BY <1>1, Invariance, PTL

(* A processor word given to a thread is never free again.                 *)
THEOREM WordsStayGiven == ClientSpec => WordsNeverFreed
<1>1. ASSUME IInv, [ClientNext]_vars
      PROVE  [\A p \in Proc : procs[p] # Free => procs'[p] # Free]_vars
  <2>1. ASSUME NEW p \in Proc, ClientStep(p)
        PROVE  \A q \in Proc : procs[q] # Free => procs'[q] # Free
    BY <1>1, <2>1, StepWords DEF IInv, ClientTypeOK, PthreadTypeOK
  <2> QED BY <1>1, <2>1 DEF ClientNext
<1> QED BY <1>1, Invariance, PTL DEF ClientSpec, WordsNeverFreed

(* The memset of uos_start pauses processors that are paused already, and  *)
(* no other store of -1 exists: a started processor runs until it stops.   *)
THEOREM StaysStarted == ClientSpec => NeverPausedAgain
<1>1. ASSUME IInv, IInv', [ClientNext]_vars
      PROVE  [\A p \in Proc : ~paused[p] => ~paused'[p]]_vars
  <2>1. ASSUME NEW p \in Proc, ClientStep(p)
        PROVE  \A q \in Proc : ~paused[q] => ~paused'[q]
    <3>1. \A q \in Proc : procs[q] # Free => procs'[q] # Free
      BY <1>1, <2>1, StepWords, Zenon DEF IInv, ClientTypeOK, PthreadTypeOK
    <3>2. PausedIffFree /\ PausedIffFree'
      BY <1>1 DEF IInv
    <3> QED BY <3>1, <3>2 DEF PausedIffFree, Free
  <2> QED BY <1>1, <2>1 DEF ClientNext
<1> QED BY <1>1, Invariance, PTL DEF ClientSpec, NeverPausedAgain

(* The program uses the lock as the abstract critical section says.        *)
THEOREM LockRefinement == ClientSpec => CriticalSectionSpec
<1>1. ClientInit => CS!Init
  BY DEF ClientInit, UosInit, LockInit, CS!Init
<1>2. ASSUME IInv, [ClientNext]_vars
      PROVE  [CS!Next]_<<owners, clobbered>>
  <2>1. ASSUME NEW p \in Proc, ClientStep(p)
        PROVE  \/ CS!Enter(p) \/ CS!Leave(p) \/ CS!Clobber(p)
               \/ UNCHANGED <<owners, clobbered>>
    <3> USE <1>2 DEF IInv, ClientTypeOK, PthreadTypeOK, OwnersMatch, ExclusiveOwner
    <3>1. CASE LockAcquire(p) /\ ~Inside(p)
      BY <3>1 DEF LockAcquire, CS!Enter
    <3>2. CASE LockRelease(p) /\ Inside(p)
      BY <3>2 DEF LockRelease, CS!Leave
    <3>3. CASE LockStrayRelease(p) /\ ~Inside(p)
      BY <3>3, Zenon DEF LockStrayRelease, CS!Clobber
    <3>4. CASE UNCHANGED lockVars
      BY <3>4 DEF lockVars
    <3> QED BY <2>1, <3>1, <3>2, <3>3, <3>4, StepLock
  <2>2. CASE UNCHANGED vars
    BY <2>2 DEF vars, lockVars
  <2> QED BY <1>2, <2>1, <2>2 DEF ClientNext, CS!Next
<1> QED BY <1>1, <1>2, Invariance, PTL DEF ClientSpec, CriticalSectionSpec, CS!Spec

-----------------------------------------------------------------------------
(***************************************************************************)
(* Part 2: the pool of threads and the words of the processors.            *)
(*                                                                         *)
(* PInv ties the data to the place the main program has reached.  Threads  *)
(* are claimed, described and handed to a processor in order, so that one  *)
(* count for each (UpTo) says which entries of the pool have gone how far; *)
(* and the words are given from the left and never taken back, so that     *)
(* what a processor reads from its own word was written for it.            *)
(***************************************************************************)

(* The main program has left its first loop.                               *)
Spawned == pc[0] \in Joining \cup Exiting

(* The turn of that loop has claimed an entry of the pool, has described   *)
(* its thread, and has handed it to a processor.                           *)
Handed    == {"SP_Release1", "SP_Release2", "PC_Return"}
Described == {"SP_Acquire", "SP_Scan", "SP_Write", "SP_Fail"} \cup Handed
Claimed   == {"PC_ClaimRelease", "PC_Describe"} \cup Described

(* How many threads have gone as far as the labels of S.                   *)
UpTo(S) == IF Spawned THEN NTHREADS ELSE IF pc[0] \in S THEN i + 1 ELSE i

(* A processor runs the thread tid[p].                                     *)
Running == {"TC_Run", "TC_Test", "TC_Call", "Body", "TC_Clear", "TC_Finish"}
             \cup InFunction

-----------------------------------------------------------------------------
(* Processor 0 runs the main program and never the auxiliary loop.         *)
ZeroIsMain == pc[0] \in PreBoot \cup {"US_Release"} \cup Main \cup Exiting

(* The pool is set up once, before the first thread is claimed.            *)
PoolInit ==
  /\ pc[0] \in {"PC_InitAcquire", "PC_Recheck", "PC_InitPool"} => ~gLockPool
  /\ pc[0] \in {"PC_SetInit", "PC_InitRelease"} => i = 0
  /\ gLockPool /\ pc[0] # "PC_SetInit" => pthread_initialized
  /\ ~gLockPool => i = 0

(* The search for an idle entry stops at the entry of the thread's number. *)
ScanFollows ==
  /\ pc[0] \in {"PC_InitAcquire", "PC_Recheck", "PC_InitPool", "PC_SetInit",
                "PC_InitRelease", "PC_Acquire", "PC_Scan"} => tid[0] \leq i
  /\ pc[0] = "PC_Skip" => tid[0] < i
  /\ pc[0] = "PC_Claim" \/ pc[0] \in Claimed => tid[0] = i

(* Words and processors know no thread that has not been handed out.       *)
Given ==
  /\ \A n \in Proc : procs[n] \leq UpTo(Handed)
  /\ \A p \in Proc : pc[p] \in {"AL_Release", "AL_Call"} => reg[p] \leq UpTo(Handed)
  /\ \A p \in Proc : pc[p] \in Running => tid[p] < UpTo(Handed)

(* The entries in use are those that have been claimed.                    *)
Pool ==
  \A t \in Tid : /\ state[t] = "IDLE" <=> t >= UpTo(Claimed)
                 /\ os_thread[t] <=> t < UpTo(Claimed)

(* FINISHED, or a function that has been cleared, means it has returned.   *)
Done ==
  /\ \A t \in Tid : state[t] = "FINISHED" => returns[t] >= 1
  /\ \A t \in Tid : t < UpTo(Described) /\ ~func[t] => returns[t] >= 1
  /\ \A p \in Proc : pc[p] \in {"TC_Clear", "TC_Finish"} => returns[tid[p]] >= 1

(* pthread_join goes on, and the second loop past it, for a thread that    *)
(* has returned.                                                           *)
Joins ==
  /\ pc[0] \in {"PJ_Poll", "PJ_Acquire", "PJ_Release", "PJ_Return"} =>
       tid[0] = threads[i]
  /\ pc[0] \in {"PJ_Acquire", "PJ_Release", "PJ_Return"} => returns[tid[0]] >= 1
  /\ Spawned => \A n \in 0 .. i - 1 : returns[threads[n]] >= 1

(* The words are given from the left.                                      *)
WordsInOrder == \A m, n \in Proc : m < n /\ procs[n] # Free => procs[m] # Free

(* What a loop over the words has passed is not free, nor becomes so.      *)
Scanned ==
  /\ \A p \in Proc : pc[p] \in {"SP_Scan", "SP_Write", "UE_Resume"} =>
       \A n \in Proc : n < idx[p] => procs[n] # Free
  /\ \A p \in Proc : pc[p] = "SP_Fail" => \A n \in Proc : procs[n] # Free

(* A processor that has started has a word that is not free ...            *)
HasWord == \A p \in Proc : pc[p] # "US_Acquire" => procs[p] # Free

(* ... and its pid, which counts those that have started, is the number of *)
(* a word that is not free either.                                         *)
PidBelow == \A p \in Proc : pid[p] < Cardinality(Booted)

RegGiven == \A p \in Proc : pc[p] \in {"AL_Release", "AL_Call"} => reg[p] # Free

AllCounted == (\E p \in Proc : pc[p] = "Halted") => Counted = Proc

-----------------------------------------------------------------------------
(* What a step does to the variables the invariant speaks of, and what the *)
(* parts of the invariant make of it.                                      *)

USE DEF ClientStep, Jump

(* Pid 0 enters the main program, so processor 0 stays in it.              *)
LEMMA StepZero ==
  ASSUME pc \in [Proc -> ClientLabel], PidZero, ZeroIsMain, NEW p \in Proc, ClientStep(p)
  PROVE  ZeroIsMain'
<1> USE ZeroProc DEF ZeroIsMain, PidZero, Main, PreBoot, BootInit, Exiting,
        ExitCounted
<1>1. CASE UosStep(p) /\ UNCHANGED poolVars /\ UNCHANGED clientVars
  BY <1>1
<1>2. CASE PthreadStep(p) /\ UNCHANGED clientVars
  BY <1>2
<1>3. CASE UseStep(p)
  BY <1>3
<1> QED BY <1>1, <1>2, <1>3

(* Where a step takes the main program, and its counter i.                 *)
LEMMA StepMain ==
  ASSUME pc \in [Proc -> ClientLabel], MainIsZero, ZeroIsMain, i \in 0 .. NTHREADS,
         CounterInRange, NEW p \in Proc, ClientStep(p)
  PROVE  /\ \/ pc'[0] = pc[0] /\ i' = i
            \/ /\ p = 0 /\ i' = i
               /\ pc[0] \notin Joining \cup Exiting /\ pc'[0] \notin Joining \cup Exiting
               /\ pc[0] \in Claimed <=> pc'[0] \in Claimed
               /\ pc[0] \in Described <=> pc'[0] \in Described
               /\ pc[0] \in Handed <=> pc'[0] \in Handed
            \/ pc[0] \in Joining \cup Exiting /\ pc'[0] \in Joining \cup Exiting
            \/ p = 0 /\ pc[0] = "PC_Claim" /\ pc'[0] = "PC_ClaimRelease" /\ i' = i
            \/ p = 0 /\ pc[0] = "PC_Describe" /\ pc'[0] = "SP_Acquire" /\ i' = i
            \/ p = 0 /\ pc[0] = "SP_Write" /\ pc'[0] = "SP_Release1" /\ i' = i
            \/ p = 0 /\ pc[0] = "PC_Return" /\ pc'[0] \in SpawnWork \cup {"PC_Check"}
               /\ i' = i + 1
            \/ p = 0 /\ pc[0] = "PC_Return" /\ pc'[0] \in JoinWork
               /\ i + 1 = NTHREADS
<1> USE ZeroProc DEF ZeroIsMain, MainIsZero, Main, PreBoot, BootInit, Claimed,
        Described, Handed, Joining, Exiting, ExitCounted, CounterInRange,
        lockVars, devVars, uosVars, localVars, poolVars, clientVars
<1>1. CASE UosStep(p) /\ UNCHANGED poolVars /\ UNCHANGED clientVars
  BY <1>1
<1>2. CASE PthreadStep(p) /\ UNCHANGED clientVars
  BY <1>2
<1>3. CASE UseStep(p)
  BY <1>3
<1> QED BY <1>1, <1>2, <1>3

(* Which words a step writes: a descriptor only for the thread the search  *)
(* is for.                                                                 *)
LEMMA StepWrites ==
  ASSUME pc \in [Proc -> ClientLabel], procs \in [Proc -> Word], NEW p \in Proc,
         ClientStep(p)
  PROVE  \A n \in Proc : procs'[n] # procs[n] =>
            \/ procs'[n] \in {Free, Null}
            \/ /\ pc[p] = "SP_Write" /\ pc'[p] = "SP_Release1"
               /\ n = idx[p] /\ procs'[n] = Descriptor(tid[p])
<1> USE DEF ProcWrite, Free, Null, lockVars, devVars, uosVars, localVars,
        poolVars, clientVars
<1>1. CASE UosStep(p) /\ UNCHANGED poolVars /\ UNCHANGED clientVars
  <2>1. CASE US_InitOwn(p)
    BY <1>1, <2>1
  <2>2. CASE US_InitOther(p)
    BY <1>1, <2>2
  <2>3. CASE SP_Write(p)
    BY <1>1, <2>3
  <2>4. CASE UE_Resume(p)
    BY <1>1, <2>4
  <2>5. CASE US_Acquire(p) \/ US_Check(p) \/ US_SetInit(p) \/ US_Load(p) \/
            US_Store(p) \/ US_Release(p) \/ AL_Test(p) \/ AL_Acquire(p) \/
            AL_Read(p) \/ AL_Release(p) \/ SP_Acquire(p) \/ SP_Scan(p) \/
            SP_Release1(p) \/ SP_Release2(p) \/ SP_Fail(p) \/ UM_Terminate(p)
            \/ UE_Acquire(p) \/ UE_Load(p) \/ UE_Store(p) \/ UE_SetTerm(p) \/
            UE_Release(p) \/ UE_Wait(p)
    BY <1>1, <2>5
  <2> QED BY <1>1, <2>1, <2>2, <2>3, <2>4, <2>5
<1>2. CASE PthreadStep(p) /\ UNCHANGED clientVars
  BY <1>2
<1>3. CASE UseStep(p)
  BY <1>3
<1> QED BY <1>1, <1>2, <1>3

(* What a processor of the auxiliary loop holds was read from its own      *)
(* word.                                                                   *)
LEMMA StepReads ==
  ASSUME pc \in [Proc -> ClientLabel], reg \in [Proc -> Int],
         NEW p \in Proc, ClientStep(p)
  PROVE  \A q \in Proc : pc'[q] \in {"AL_Release", "AL_Call"} =>
            \/ pc[q] \in {"AL_Release", "AL_Call"} /\ reg'[q] = reg[q]
            \/ q = p /\ pc[q] = "AL_Read" /\ reg'[q] = procs[pid[q]]
               /\ UNCHANGED <<procs, pid>>
<1> USE DEF lockVars, devVars, uosVars, localVars, poolVars, clientVars
<1>1. CASE UosStep(p) /\ UNCHANGED poolVars /\ UNCHANGED clientVars
  BY <1>1
<1>2. CASE PthreadStep(p) /\ UNCHANGED clientVars
  BY <1>2
<1>3. CASE UseStep(p)
  BY <1>3
<1> QED BY <1>1, <1>2, <1>3

(* A processor that starts to run a thread had its descriptor in its       *)
(* register.                                                               *)
LEMMA StepRuns ==
  ASSUME pc \in [Proc -> ClientLabel], tid \in [Proc -> 0 .. MAX_THREADS],
         reg \in [Proc -> Int], NEW p \in Proc, ClientStep(p)
  PROVE  \A q \in Proc : pc'[q] \in Running =>
            \/ pc[q] \in Running /\ tid'[q] = tid[q]
            \/ q = p /\ pc[q] = "AL_Call" /\ reg[q] # Null /\ reg[q] # Free
               /\ tid'[q] = reg[q] - 1
<1> USE DEF Running, lockVars, devVars, uosVars, localVars, poolVars, clientVars
<1>1. CASE UosStep(p) /\ UNCHANGED poolVars /\ UNCHANGED clientVars
  BY <1>1
<1>2. CASE PthreadStep(p) /\ UNCHANGED clientVars
  BY <1>2
<1>3. CASE UseStep(p)
  BY <1>3
<1> QED BY <1>1, <1>2, <1>3

(* The counts of threads claimed, described and handed out grow one at a   *)
(* time.                                                                   *)
LEMMA StepUpTo ==
  ASSUME pc \in [Proc -> ClientLabel], MainIsZero, ZeroIsMain, i \in 0 .. NTHREADS,
         CounterInRange, NEW p \in Proc, ClientStep(p)
  PROVE  /\ \/ UpTo(Claimed)' = UpTo(Claimed)
            \/ p = 0 /\ pc[0] = "PC_Claim" /\ UpTo(Claimed) = i
               /\ UpTo(Claimed)' = i + 1
         /\ \/ UpTo(Described)' = UpTo(Described)
            \/ p = 0 /\ pc[0] = "PC_Describe" /\ UpTo(Described) = i
               /\ UpTo(Described)' = i + 1
         /\ \/ UpTo(Handed)' = UpTo(Handed)
            \/ p = 0 /\ pc[0] = "SP_Write" /\ UpTo(Handed) = i
               /\ UpTo(Handed)' = i + 1
<1> HIDE DEF ClientStep
<1> USE DEF UpTo, Spawned
<1>1. CASE pc'[0] = pc[0] /\ i' = i
  BY <1>1
<1>2. CASE /\ i' = i
           /\ pc[0] \notin Joining \cup Exiting /\ pc'[0] \notin Joining \cup Exiting
           /\ pc[0] \in Claimed <=> pc'[0] \in Claimed
           /\ pc[0] \in Described <=> pc'[0] \in Described
           /\ pc[0] \in Handed <=> pc'[0] \in Handed
  BY <1>2
<1>3. CASE pc[0] \in Joining \cup Exiting /\ pc'[0] \in Joining \cup Exiting
  BY <1>3
<1> USE DEF Claimed, Described, Handed, Joining, Exiting, ExitCounted
<1>4. CASE p = 0 /\ pc[0] = "PC_Claim" /\ pc'[0] = "PC_ClaimRelease" /\ i' = i
  BY <1>4
<1>5. CASE p = 0 /\ pc[0] = "PC_Describe" /\ pc'[0] = "SP_Acquire" /\ i' = i
  BY <1>5
<1>6. CASE p = 0 /\ pc[0] = "SP_Write" /\ pc'[0] = "SP_Release1" /\ i' = i
  BY <1>6
<1>7. CASE p = 0 /\ pc[0] = "PC_Return" /\ pc'[0] \in SpawnWork \cup {"PC_Check"}
           /\ i' = i + 1
  BY <1>7
<1>8. CASE p = 0 /\ pc[0] = "PC_Return" /\ pc'[0] \in JoinWork /\ i + 1 = NTHREADS
  BY <1>8
<1> QED BY ONLY <1>1, <1>2, <1>3, <1>4, <1>5, <1>6, <1>7, <1>8, StepMain,
                pc \in [Proc -> ClientLabel], MainIsZero, ZeroIsMain, i \in 0 .. NTHREADS,
                CounterInRange, p \in Proc, ClientStep(p)

(* A thread is handed out before any word or processor knows it.           *)
LEMMA StepGiven ==
  ASSUME pc \in [Proc -> ClientLabel], MainIsZero, ZeroIsMain, i \in 0 .. NTHREADS,
         CounterInRange, ScanFollows, Given, PidZero, procs \in [Proc -> Word],
         pid \in [Proc -> {-1} \cup Proc],
         tid \in [Proc -> 0 .. MAX_THREADS], reg \in [Proc -> Int], NEW p \in Proc,
         ClientStep(p)
  PROVE Given'
<1> HIDE DEF ClientStep
<1> DEFINE u == UpTo(Handed)
           v == UpTo(Handed)'
<1>1. /\ u \in Nat /\ v \in Nat /\ u \leq v
      /\ v = u \/ (p = 0 /\ pc[0] = "SP_Write" /\ u = i /\ v = i + 1)
  <2>1. u \in Nat
    BY NTHREADSAssumption, MAX_THREADSAssumption DEF UpTo
  <2> QED BY <2>1, StepUpTo
<1>2. ASSUME NEW n \in Proc PROVE procs'[n] \leq v
  <2>1. CASE procs'[n] = procs[n]
    <3>1. procs[n] \leq u /\ procs[n] \in Int
      BY MAX_THREADSAssumption DEF Given, Word, Free
    <3> HIDE DEF u, v
    <3> QED BY <1>1, <2>1, <3>1
  <2>2. CASE procs'[n] \in {Free, Null}
    <3> HIDE DEF u, v
    <3> QED BY <1>1, <2>2 DEF Free, Null
  <2>3. CASE /\ pc[p] = "SP_Write" /\ pc'[p] = "SP_Release1"
             /\ procs'[n] = Descriptor(tid[p])
    <3>1. p = 0
      BY <2>3 DEF MainIsZero, Main
    <3>2. tid[0] = i
      BY <2>3, <3>1 DEF ScanFollows, Claimed, Described
    <3>3. pc[0] = "SP_Write" /\ pc'[0] = "SP_Release1" /\ i' = i
      BY <2>3, <3>1, StepMain DEF Joining, Exiting, ExitCounted
    <3>4. v = i + 1
      BY <3>3 DEF UpTo, Spawned, Handed, Joining, Exiting, ExitCounted
    <3> QED BY <2>3, <3>1, <3>2, <3>4 DEF Descriptor
  <2> QED BY <2>1, <2>2, <2>3, StepWrites
<1>3. ASSUME NEW q \in Proc, pc'[q] \in {"AL_Release", "AL_Call"}
      PROVE  reg'[q] \leq v
  <2>1. CASE pc[q] \in {"AL_Release", "AL_Call"} /\ reg'[q] = reg[q]
    <3>1. reg[q] \leq u /\ reg[q] \in Int
      BY <2>1 DEF Given
    <3> HIDE DEF u, v
    <3> QED BY <1>1, <2>1, <3>1
  <2>2. CASE /\ pc[q] = "AL_Read" /\ reg'[q] = procs[pid[q]]
             /\ UNCHANGED <<procs, pid>>
    <3>1. pid[q] \in Proc
      BY <2>2, ZeroProc DEF PidZero, PreBoot, BootInit
    <3> QED BY <1>2, <2>2, <3>1
  <2> QED BY <1>3, <2>1, <2>2, StepReads
<1>4. ASSUME NEW q \in Proc, pc'[q] \in Running PROVE tid'[q] < v
  <2>1. CASE pc[q] \in Running /\ tid'[q] = tid[q]
    <3>1. tid[q] < u /\ tid[q] \in Nat
      BY <2>1, MAX_THREADSAssumption DEF Given
    <3> HIDE DEF u, v
    <3> QED BY <1>1, <2>1, <3>1
  <2>2. CASE pc[q] = "AL_Call" /\ tid'[q] = reg[q] - 1
    <3>1. reg[q] \leq u /\ reg[q] \in Int
      BY <2>2 DEF Given
    <3> HIDE DEF u, v
    <3> QED BY <1>1, <2>2, <3>1
  <2> QED BY <1>4, <2>1, <2>2, StepRuns
<1> QED BY <1>2, <1>3, <1>4 DEF Given

(* How a step writes to the entries of the pool.                           *)
LEMMA StepEntry ==
  ASSUME pc \in [Proc -> ClientLabel], MainIsZero, NEW p \in Proc, ClientStep(p)
  PROVE  \/ UNCHANGED <<state, func, os_thread>> /\ pc[p] # "PC_Claim"
            /\ pc[p] # "PC_Describe"
         \/ /\ p = 0 /\ pc[0] = "PC_InitPool" /\ pc'[0] = "PC_SetInit"
               /\ UNCHANGED <<tid, returns>>
            /\ state' = [t \in Tid |-> "IDLE"]
            /\ func' = [t \in Tid |-> FALSE] /\ os_thread' = [t \in Tid |-> FALSE]
         \/ /\ p = 0 /\ pc[0] = "PC_Claim" /\ pc'[0] = "PC_ClaimRelease"
               /\ UNCHANGED <<tid, func, returns>>
            /\ state' = [state EXCEPT ![tid[0]] = "INITIALIZING"]
            /\ os_thread' = [os_thread EXCEPT ![tid[0]] = TRUE]
         \/ /\ p = 0 /\ pc[0] = "PC_Describe" /\ pc'[0] = "SP_Acquire"
               /\ UNCHANGED <<tid, os_thread, returns>>
            /\ state' = [state EXCEPT ![tid[0]] = "STOPPED"]
            /\ func' = [func EXCEPT ![tid[0]] = TRUE]
         \/ /\ pc[p] = "TC_Run" /\ UNCHANGED <<tid, func, os_thread, returns>>
            /\ state' = [state EXCEPT ![tid[p]] = "RUNNING"]
         \/ /\ pc[p] = "TC_Clear" /\ UNCHANGED <<tid, state, os_thread, returns>>
            /\ func' = [func EXCEPT ![tid[p]] = FALSE]
         \/ /\ pc[p] = "TC_Finish" /\ UNCHANGED <<tid, func, os_thread, returns>>
            /\ state' = [state EXCEPT ![tid[p]] = "FINISHED"]
<1> USE ZeroProc DEF MainIsZero, Main, lockVars, devVars, uosVars, localVars,
        poolVars, clientVars
<1>1. CASE UosStep(p) /\ UNCHANGED poolVars /\ UNCHANGED clientVars
  BY <1>1
<1>2. CASE PthreadStep(p) /\ UNCHANGED clientVars
  <2>1. CASE PC_InitPool(p)
    BY <1>2, <2>1
  <2>2. CASE PC_Claim(p)
    BY <1>2, <2>2, Zenon
  <2>3. CASE TC_Run(p)
    BY <1>2, <2>3
  <2>4. CASE TC_Clear(p)
    BY <1>2, <2>4
  <2>5. CASE TC_Finish(p)
    BY <1>2, <2>5
  <2>6. CASE PC_Check(p) \/ PC_InitAcquire(p) \/ PC_Recheck(p) \/ PC_SetInit(p)
            \/ PC_InitRelease(p) \/ PC_Acquire(p) \/ PC_Scan(p) \/
            PC_ClaimRelease(p) \/ PC_Skip(p) \/ PJ_Poll(p) \/ PJ_Acquire(p) \/
            PJ_Release(p) \/ AL_Call(p) \/ TC_Test(p) \/ TC_Call(p)
    BY <1>2, <2>6
  <2> QED BY <1>2, <2>1, <2>2, <2>3, <2>4, <2>5, <2>6
<1>3. CASE UseStep(p)
  <2>1. CASE Create(p)
    BY <1>3, <2>1, Zenon
  <2>2. CASE SpawnAcquire(p) \/ SpawnRelease(p) \/ Spawn(p) \/ Created(p)
            \/ JoinAcquire(p) \/ JoinRelease(p) \/ Join(p) \/ JoinDone(p)
            \/ Enter(p) \/ PrintDone(p) \/ Work(p) \/ PrintAgain(p) \/ Return(p)
    BY <1>3, <2>2
  <2> QED BY <1>3, <2>1, <2>2
<1> QED BY <1>1, <1>2, <1>3

(* A processor clears or finishes the thread it has been running.          *)
LEMMA StepClears ==
  ASSUME pc \in [Proc -> ClientLabel], NEW p \in Proc, ClientStep(p)
  PROVE  /\ \A q \in Proc : pc'[q] = "TC_Clear" =>
              \/ pc[q] = "TC_Clear" /\ tid'[q] = tid[q]
              \/ q = p /\ pc[q] \in InFunction /\ tid'[q] = tid[q]
              \/ q = p /\ pc[q] = "TC_Test" /\ ~func[tid[q]]
                 /\ UNCHANGED <<tid, returns>>
         /\ \A q \in Proc : pc'[q] = "TC_Finish" =>
              pc[q] \in {"TC_Clear", "TC_Finish"} /\ tid'[q] = tid[q]
<1> USE DEF lockVars, devVars, uosVars, localVars, poolVars, clientVars
<1>1. CASE UosStep(p) /\ UNCHANGED poolVars /\ UNCHANGED clientVars
  BY <1>1
<1>2. CASE PthreadStep(p) /\ UNCHANGED clientVars
  <2>1. CASE PC_Check(p)
    BY <1>2, <2>1
  <2>2. CASE PC_Skip(p)
    BY <1>2, <2>2
  <2>3. CASE AL_Call(p)
    BY <1>2, <2>3
  <2>4. CASE TC_Test(p)
    BY <1>2, <2>4
  <2>5. CASE TC_Clear(p)
    BY <1>2, <2>5
  <2>6. CASE TC_Finish(p)
    BY <1>2, <2>6
  <2>7. CASE PC_InitAcquire(p) \/ PC_Recheck(p) \/ PC_InitPool(p) \/
            PC_SetInit(p) \/ PC_InitRelease(p) \/ PC_Acquire(p) \/ PC_Scan(p)
            \/ PC_Claim(p) \/ PC_ClaimRelease(p) \/ PJ_Poll(p) \/ PJ_Acquire(p)
            \/ PJ_Release(p) \/ TC_Run(p) \/ TC_Call(p)
    BY <1>2, <2>7
  <2> QED BY <1>2, <2>1, <2>2, <2>3, <2>4, <2>5, <2>6, <2>7
<1>3. CASE UseStep(p)
  <2>1. CASE JoinRelease(p)
    BY <1>3, <2>1
  <2>2. CASE Join(p)
    BY <1>3, <2>2
  <2>3. CASE Return(p)
    BY <1>3, <2>3
  <2>4. CASE SpawnAcquire(p) \/ SpawnRelease(p) \/ Spawn(p) \/ Create(p)
            \/ Created(p) \/ JoinAcquire(p) \/ JoinDone(p) \/ Enter(p)
            \/ PrintDone(p) \/ Work(p) \/ PrintAgain(p)
    BY <1>3, <2>4
  <2> QED BY <1>3, <2>1, <2>2, <2>3, <2>4
<1> QED BY <1>1, <1>2, <1>3, Zenon

(* How a step changes the histories of entries and returns.                *)
LEMMA StepHistory ==
  ASSUME pc \in [Proc -> ClientLabel], NEW p \in Proc, ClientStep(p)
  PROVE  /\ \/ runs' = runs /\ pc[p] # "Body"
            \/ pc[p] = "Body" /\ pc'[p] \in ThreadPrint /\ tid' = tid
               /\ runs' = [runs EXCEPT ![tid[p]] = @ + 1]
         /\ \/ returns' = returns /\ ~(pc[p] \in InFunction /\ pc'[p] = "TC_Clear")
            \/ pc[p] \in InFunction /\ pc'[p] = "TC_Clear" /\ tid' = tid
               /\ returns' = [returns EXCEPT ![tid[p]] = @ + 1]
<1> USE DEF lockVars, devVars, uosVars, localVars, poolVars, clientVars
<1>1. CASE UosStep(p) /\ UNCHANGED poolVars /\ UNCHANGED clientVars
  BY <1>1
<1>2. CASE PthreadStep(p) /\ UNCHANGED clientVars
  BY <1>2
<1>3. CASE UseStep(p)
  BY <1>3
<1> QED BY <1>1, <1>2, <1>3

(* Claiming takes the entry whose number is the count of those claimed.    *)
LEMMA StepPool ==
  ASSUME pc \in [Proc -> ClientLabel], MainIsZero, ZeroIsMain, Solo, i \in 0 .. NTHREADS,
         TidInRange,
         CounterInRange, ScanFollows, PoolInit, Given, Pool,
         state \in [Tid -> ThreadState], os_thread \in [Tid -> BOOLEAN],
         tid \in [Proc -> 0 .. MAX_THREADS], NEW p \in Proc, ClientStep(p)
  PROVE Pool'
<1> HIDE DEF ClientStep
<1> DEFINE u == UpTo(Claimed)
           v == UpTo(Claimed)'
<1>1. /\ u \in Nat /\ v \in Nat
      /\ v = u \/ (p = 0 /\ pc[0] = "PC_Claim" /\ u = i /\ v = i + 1)
  <2>1. u \in Nat
    BY NTHREADSAssumption, MAX_THREADSAssumption DEF UpTo
  <2> QED BY <2>1, StepUpTo
<1>2. UpTo(Handed) \leq u /\ UpTo(Handed) \in Nat
  BY NTHREADSAssumption, MAX_THREADSAssumption DEF UpTo, Claimed, Described
<1>3. \A t \in Tid : /\ state[t] = "IDLE" <=> t >= u
                     /\ os_thread[t] <=> t < u
  BY DEF Pool
<1>4. SUFFICES \A t \in Tid : /\ state'[t] = "IDLE" <=> t >= v
                              /\ os_thread'[t] <=> t < v
  BY DEF Pool
<1>5. ASSUME pc[p] \in Running PROVE tid[p] \in Tid /\ tid[p] < u /\ v = u
  <2>1. tid[p] < UpTo(Handed) /\ tid[p] \in Tid
    BY <1>5, MAX_THREADSAssumption DEF Given, TidInRange, Thread, Running, Tid
  <2>2. pc[p] # "PC_Claim"
    BY <1>5 DEF Running
  <2> HIDE DEF u, v
  <2> QED BY <1>1, <1>2, <2>1, <2>2, MAX_THREADSAssumption DEF Tid
<1>6. CASE UNCHANGED <<state, os_thread>> /\ v = u
  <2> HIDE DEF u, v
  <2> QED BY <1>3, <1>6
<1>7. CASE /\ p = 0 /\ pc[0] = "PC_InitPool"
           /\ state' = [t \in Tid |-> "IDLE"] /\ os_thread' = [t \in Tid |-> FALSE]
  <2>1. u = 0
    BY <1>7
    DEF PoolInit, UpTo, Spawned, Joining, Exiting, ExitCounted, Claimed, Described,
        Handed
  <2>2. v = 0
    BY <1>1, <1>7, <2>1
  <2>3. \A t \in Tid : t >= 0 /\ ~(t < 0)
    BY MAX_THREADSAssumption DEF Tid
  <2> HIDE DEF u, v
  <2> QED BY <1>7, <2>2, <2>3
<1>8. CASE /\ p = 0 /\ pc[0] = "PC_Claim" /\ pc'[0] = "PC_ClaimRelease"
           /\ state' = [state EXCEPT ![tid[0]] = "INITIALIZING"]
           /\ os_thread' = [os_thread EXCEPT ![tid[0]] = TRUE]
  <2>0. pc'[0] = "PC_ClaimRelease" /\ i' = i
    BY <1>8, StepMain DEF Joining, Exiting, ExitCounted
  <2>1. u = i /\ v = i + 1
    BY <1>8, <2>0
    DEF UpTo, Spawned, Joining, Exiting, ExitCounted, Claimed, Described, Handed
  <2>2. tid[0] = i /\ i \in Tid
    BY <1>8, ZeroProc, MAX_THREADSAssumption
    DEF ScanFollows, TidInRange, Thread, Tid
  <2>3. \A t \in Tid : /\ t >= i + 1 <=> (t >= i /\ t # i)
                       /\ t < i + 1 <=> (t < i \/ t = i)
    BY DEF Tid
  <2>4. /\ state' = [state EXCEPT ![i] = "INITIALIZING"]
        /\ os_thread' = [os_thread EXCEPT ![i] = TRUE]
    BY <1>8, <2>2
  <2> HIDE DEF u, v
  <2>5. \A t \in Tid : state'[t] = "IDLE" <=> t >= v
    BY ONLY <1>3, <2>1, <2>2, <2>3, <2>4, state \in [Tid -> ThreadState]
  <2>6. \A t \in Tid : os_thread'[t] <=> t < v
    BY ONLY <1>3, <2>1, <2>2, <2>3, <2>4, os_thread \in [Tid -> BOOLEAN], Zenon
  <2> QED BY <2>5, <2>6
<1>9. ASSUME v = u, os_thread' = os_thread, NEW s, s # "IDLE",
             NEW t \in Tid, t < u, state' = [state EXCEPT ![t] = s]
      PROVE  \A x \in Tid : /\ state'[x] = "IDLE" <=> x >= v
                            /\ os_thread'[x] <=> x < v
  <2> HIDE DEF u, v
  <2>1. ~(t >= u)
    BY <1>1, <1>9, MAX_THREADSAssumption DEF Tid
  <2>2. \A x \in Tid : state'[x] = IF x = t THEN s ELSE state[x]
    BY <1>9
  <2> QED BY <1>3, <1>9, <2>1, <2>2
<1>10. CASE /\ p = 0 /\ pc[0] = "PC_Describe" /\ os_thread' = os_thread
            /\ state' = [state EXCEPT ![tid[0]] = "STOPPED"]
  <2>1. u = i + 1 /\ v = u
    BY <1>10, <1>1
    DEF UpTo, Spawned, Joining, Exiting, ExitCounted, Claimed, Described, Handed
  <2>2. tid[0] = i /\ i \in Tid
    BY <1>10, ZeroProc, MAX_THREADSAssumption
    DEF ScanFollows, TidInRange, Thread, Tid, Claimed, Described
  <2>3. i < u
    BY <2>1, <2>2 DEF Tid
  <2> HIDE DEF u, v
  <2> QED BY <1>9, <1>10, <2>1, <2>2, <2>3, Zenon
<1>11. CASE /\ pc[p] \in {"TC_Run", "TC_Finish"} /\ os_thread' = os_thread
            /\ \E s \in {"RUNNING", "FINISHED"} : state' = [state EXCEPT ![tid[p]] = s]
  <2>1. pc[p] \in Running
    BY <1>11 DEF Running
  <2> HIDE DEF u, v
  <2> QED BY <1>5, <1>9, <1>11, <2>1, Zenon
<1>12. CASE /\ pc[p] # "PC_Claim" /\ pc[p] # "PC_Describe"
            /\ UNCHANGED <<state, os_thread>>
  <2>1. v = u
    BY <1>1, <1>12
  <2> HIDE DEF u, v
  <2> QED BY <1>6, <1>12, <2>1
<1> HIDE DEF u, v
<1> QED BY <1>7, <1>8, <1>10, <1>11, <1>12, StepEntry

(* A thread is cleared, and finished, after it has returned.               *)
LEMMA StepDone ==
  ASSUME pc \in [Proc -> ClientLabel], MainIsZero, ZeroIsMain, i \in 0 .. NTHREADS,
         TidInRange,
         CounterInRange, ScanFollows, PoolInit, Given, Done,
         state \in [Tid -> ThreadState], func \in [Tid -> BOOLEAN],
         returns \in [Tid -> Nat],
         tid \in [Proc -> 0 .. MAX_THREADS], NEW p \in Proc, ClientStep(p)
  PROVE Done'
<1> HIDE DEF ClientStep
<1> DEFINE u == UpTo(Described)
           v == UpTo(Described)'
<1>1. /\ u \in Nat /\ v \in Nat
      /\ v = u \/ (p = 0 /\ pc[0] = "PC_Describe" /\ u = i /\ v = i + 1)
  <2>1. u \in Nat
    BY NTHREADSAssumption, MAX_THREADSAssumption DEF UpTo
  <2> QED BY <2>1, StepUpTo
<1>2. UpTo(Handed) \leq u /\ UpTo(Handed) \in Nat
  BY NTHREADSAssumption, MAX_THREADSAssumption DEF UpTo, Described
<1>3. \A q \in Proc : pc[q] \in Running => tid[q] \in Tid /\ tid[q] < u
  <2>1. \A q \in Proc : pc[q] \in Running => tid[q] < UpTo(Handed) /\ tid[q] \in Tid
    BY MAX_THREADSAssumption DEF Given, TidInRange, Thread, Running, Tid
  <2> HIDE DEF u, v
  <2> QED BY <1>1, <1>2, <2>1, MAX_THREADSAssumption DEF Tid
<1>4. \A t \in Tid : returns[t] >= 1 => returns'[t] >= 1
  BY StepHistory
<1>5. \A q \in Proc : pc'[q] \in {"TC_Clear", "TC_Finish"} => returns'[tid'[q]] >= 1
  <2> SUFFICES ASSUME NEW q \in Proc, pc'[q] \in {"TC_Clear", "TC_Finish"}
               PROVE  returns'[tid'[q]] >= 1
    OBVIOUS
  <2>1. CASE pc[q] \in {"TC_Clear", "TC_Finish"} /\ tid'[q] = tid[q]
    BY <1>3, <1>4, <2>1 DEF Done, Running
  <2>2. CASE q = p /\ pc[q] \in InFunction /\ pc'[q] = "TC_Clear" /\ tid'[q] = tid[q]
    <3>1. tid[p] \in Tid /\ returns' = [returns EXCEPT ![tid[p]] = @ + 1]
      BY <1>3, <2>2, StepHistory DEF Running
    <3> QED BY <2>2, <3>1
  <2>3. CASE pc[q] = "TC_Test" /\ ~func[tid[q]] /\ UNCHANGED <<tid, returns>>
    <3>1. tid[q] \in Tid /\ tid[q] < u
      BY <1>3, <2>3 DEF Running
    <3> QED BY <2>3, <3>1 DEF Done
  <2> QED BY <2>1, <2>2, <2>3, StepClears
<1>6. ASSUME NEW t \in Tid, state'[t] = "FINISHED" PROVE returns'[t] >= 1
  <2>1. state[t] = "FINISHED" \/ (pc[p] = "TC_Finish" /\ tid[p] = t)
    BY <1>6, StepEntry
  <2> QED BY <1>4, <2>1 DEF Done
<1>7. ASSUME NEW t \in Tid, t < v, ~func'[t] PROVE returns'[t] >= 1
  <2>1. CASE t < u /\ ~func[t]
    BY <1>4, <2>1 DEF Done
  <2>2. CASE t < u /\ func[t]
    <3>1. ~(pc[0] = "PC_InitPool")
      <4>1. pc[0] = "PC_InitPool" => u = 0
        BY
        DEF PoolInit, UpTo, Spawned, Joining, Exiting, ExitCounted, Described,
            Handed
      <4> HIDE DEF u, v
      <4> QED BY <2>2, <4>1, MAX_THREADSAssumption DEF Tid
    <3>2. pc[p] = "TC_Clear" /\ tid[p] = t
      BY ONLY <1>7, <2>2, <3>1, StepEntry, func \in [Tid -> BOOLEAN], Zenon,
              pc \in [Proc -> ClientLabel], MainIsZero, ClientStep(p), p \in Proc
    <3> QED BY <1>4, <3>2 DEF Done
  <2>3. CASE ~(t < u)
    <3>1. p = 0 /\ pc[0] = "PC_Describe" /\ t = i
      <4> HIDE DEF u, v
      <4> QED BY <1>1, <1>7, <2>3 DEF Tid
    <3>2. tid[0] = i /\ func' = [func EXCEPT ![tid[0]] = TRUE]
      BY <3>1, StepEntry DEF ScanFollows, Claimed
    <3>3. func'[t]
      BY ONLY <3>1, <3>2, t \in Tid, func \in [Tid -> BOOLEAN]
    <3> QED BY <1>7, <3>3
  <2> QED BY <2>1, <2>2, <2>3
<1> QED BY <1>5, <1>6, <1>7 DEF Done

(* The search stops at the first idle entry, which is number i.            *)
LEMMA StepScan ==
  ASSUME pc \in [Proc -> ClientLabel], MainIsZero, Solo, PoolInit, Pool, ScanFollows,
         TidInRange, i \in 0 .. NTHREADS, tid \in [Proc -> 0 .. MAX_THREADS],
         NEW p \in Proc, ClientStep(p)
  PROVE  ScanFollows'
<1>1. pc[0] = "PC_Scan" => IF state[tid[0]] = "IDLE" THEN tid[0] = i ELSE tid[0] < i
  <2> SUFFICES ASSUME pc[0] = "PC_Scan"
               PROVE  IF state[tid[0]] = "IDLE" THEN tid[0] = i ELSE tid[0] < i
    OBVIOUS
  <2>1. UpTo(Claimed) = i
    BY DEF UpTo, Spawned, Joining, Exiting, ExitCounted, Claimed, Described, Handed
  <2>2. tid[0] \in Tid /\ tid[0] \leq i
    BY ZeroProc, MAX_THREADSAssumption DEF ScanFollows, TidInRange, Thread, Tid
  <2> QED BY <2>1, <2>2 DEF Pool, Tid
<1> USE ZeroProc, NTHREADSAssumption, MAX_THREADSAssumption, <1>1 DEF
        MainIsZero, Main, Solo, Early, PreBoot, BootInit, PoolInit,
        ScanFollows, Claimed, Described, Handed, lockVars, devVars, uosVars,
        localVars, poolVars, clientVars
<1>2. CASE UosStep(p) /\ UNCHANGED poolVars /\ UNCHANGED clientVars
  BY <1>2
<1>3. CASE PthreadStep(p) /\ UNCHANGED clientVars
  <2>1. CASE PC_Check(p)
    BY <1>3, <2>1
  <2>2. CASE PC_Scan(p)
    BY <1>3, <2>2
  <2>3. CASE PC_Skip(p)
    BY <1>3, <2>3
  <2>4. CASE AL_Call(p)
    BY <1>3, <2>4
  <2>5. CASE PC_InitAcquire(p) \/ PC_Recheck(p) \/ PC_InitPool(p) \/
            PC_SetInit(p) \/ PC_InitRelease(p) \/ PC_Acquire(p) \/ PC_Claim(p)
            \/ PC_ClaimRelease(p)
    BY <1>3, <2>5
  <2>6. CASE PJ_Poll(p) \/ PJ_Acquire(p) \/ PJ_Release(p) \/ TC_Run(p) \/
            TC_Test(p) \/ TC_Call(p) \/ TC_Clear(p) \/ TC_Finish(p)
    BY <1>3, <2>6
  <2> QED BY <1>3, <2>1, <2>2, <2>3, <2>4, <2>5, <2>6
<1>4. CASE UseStep(p)
  BY <1>4
<1> QED BY <1>2, <1>3, <1>4

(* The pool is set up before anything is claimed from it.                  *)
LEMMA StepPoolInit ==
  ASSUME pc \in [Proc -> ClientLabel], Solo, MainIsZero, InitByZero, PoolInit,
         NEW p \in Proc, ClientStep(p)
  PROVE  PoolInit'
<1> USE ZeroProc DEF PoolInit, Solo, MainIsZero, InitByZero, PreBoot, BootInit,
        Early, Main, lockVars, devVars, uosVars, localVars, poolVars, clientVars
<1>1. CASE UosStep(p) /\ UNCHANGED poolVars /\ UNCHANGED clientVars
  BY <1>1
<1>2. CASE PthreadStep(p) /\ UNCHANGED clientVars
  BY <1>2
<1>3. CASE UseStep(p)
  BY <1>3
<1> QED BY <1>1, <1>2, <1>3

(* How the main program goes through its second loop.                      *)
LEMMA StepJoining ==
  ASSUME pc \in [Proc -> ClientLabel], MainIsZero, ZeroIsMain, i \in 0 .. NTHREADS,
         CounterInRange, tid \in [Proc -> 0 .. MAX_THREADS],
         threads \in [0 .. NTHREADS - 1 -> Tid], NEW p \in Proc, ClientStep(p)
  PROVE  /\ pc'[0] \in {"PJ_Poll", "PJ_Acquire", "PJ_Release", "PJ_Return"} =>
              \/ p = 0 /\ pc[0] \in JoinWork \cup JoinPrint /\ pc'[0] = "PJ_Poll"
                 /\ tid'[0] = threads[i] /\ UNCHANGED <<i, threads>>
              \/ pc[0] \in {"PJ_Poll", "PJ_Acquire", "PJ_Release", "PJ_Return"}
                 /\ tid'[0] = tid[0] /\ UNCHANGED <<i, threads>>
         /\ pc'[0] \in {"PJ_Acquire", "PJ_Release", "PJ_Return"} =>
              \/ pc[0] \in {"PJ_Acquire", "PJ_Release", "PJ_Return"}
              \/ pc[0] = "PJ_Poll" /\ state[tid[0]] = "FINISHED"
         /\ Spawned' =>
              \/ Spawned /\ UNCHANGED <<i, threads>>
              \/ pc[0] = "PC_Return" /\ i' = 0
              \/ pc[0] = "PJ_Return" /\ p = 0 /\ i' = i + 1 /\ threads' = threads
<1> USE ZeroProc, NTHREADSAssumption, MAX_THREADSAssumption DEF MainIsZero,
        ZeroIsMain, Main, CounterInRange, Spawned, Joining, Exiting,
        ExitCounted, PreBoot, BootInit, lockVars, devVars, uosVars, localVars,
        poolVars, clientVars
<1>1. CASE UosStep(p) /\ UNCHANGED poolVars /\ UNCHANGED clientVars
  BY <1>1
<1>2. CASE PthreadStep(p) /\ UNCHANGED clientVars
  BY <1>2
<1>3. CASE UseStep(p)
  BY <1>3
<1> QED BY <1>1, <1>2, <1>3, Zenon

(* The second loop goes on when the thread it waits for has returned.      *)
LEMMA StepJoins ==
  ASSUME pc \in [Proc -> ClientLabel], MainIsZero, ZeroIsMain, i \in 0 .. NTHREADS,
         TidInRange,
         CounterInRange, Done, Joins,
         threads \in [0 .. NTHREADS - 1 -> Tid],
         returns \in [Tid -> Nat],
         tid \in [Proc -> 0 .. MAX_THREADS], NEW p \in Proc, ClientStep(p)
  PROVE Joins'
<1> HIDE DEF ClientStep
<1>1. \A t \in Tid : returns[t] >= 1 => returns'[t] >= 1
  BY StepHistory
<1>2. pc'[0] \in {"PJ_Poll", "PJ_Acquire", "PJ_Release", "PJ_Return"} =>
        tid'[0] = threads'[i']
  <2> SUFFICES ASSUME pc'[0] \in {"PJ_Poll", "PJ_Acquire", "PJ_Release", "PJ_Return"}
               PROVE  tid'[0] = threads'[i']
    OBVIOUS
  <2>1. \/ tid'[0] = threads[i] /\ UNCHANGED <<i, threads>>
        \/ pc[0] \in {"PJ_Poll", "PJ_Acquire", "PJ_Release", "PJ_Return"}
           /\ tid'[0] = tid[0] /\ UNCHANGED <<i, threads>>
    BY StepJoining
  <2>2. pc[0] \in {"PJ_Poll", "PJ_Acquire", "PJ_Release", "PJ_Return"} =>
          tid[0] = threads[i]
    BY DEF Joins
  <2> QED BY ONLY <2>1, <2>2
<1>3. pc[0] \in {"PJ_Poll", "PJ_Acquire", "PJ_Release", "PJ_Return"} => tid[0] \in Tid
  BY ZeroProc, MAX_THREADSAssumption DEF TidInRange, Thread, Tid
<1>4. pc'[0] \in {"PJ_Acquire", "PJ_Release", "PJ_Return"} => returns'[tid'[0]] >= 1
  BY <1>1, <1>3, StepJoining DEF Joins, Done
<1>5. ASSUME Spawned', NEW n \in 0 .. i' - 1 PROVE returns'[threads'[n]] >= 1
  <2>1. /\ 0 .. i - 1 \subseteq 0 .. NTHREADS - 1
        /\ \A m \in 0 .. NTHREADS - 1 : threads[m] \in Tid
    BY NTHREADSAssumption, MAX_THREADSAssumption
  <2>2. CASE Spawned /\ UNCHANGED <<i, threads>>
    BY <1>1, <1>5, <2>1, <2>2 DEF Joins
  <2>3. CASE i' = 0
    BY <1>5, <2>3
  <2>4. CASE pc[0] = "PJ_Return" /\ i' = i + 1 /\ threads' = threads
    <3>1. i \in Int /\ n \in Int /\ 0 \leq n /\ n \leq i
      BY <1>5, <2>4
    <3>2. CASE n = i
      BY <1>1, <1>3, <2>4, <3>2 DEF Joins
    <3>3. CASE n \in 0 .. i - 1
      BY <1>1, <2>1, <2>4, <3>3 DEF Joins, Spawned, Joining
    <3> QED BY <3>1, <3>2, <3>3
  <2> QED BY <1>5, <2>2, <2>3, <2>4, StepJoining
<1> QED BY <1>2, <1>4, <1>5 DEF Joins

(* A free word is given away by a loop that stands at it.                  *)
LEMMA StepTakes ==
  ASSUME pc \in [Proc -> ClientLabel], procs \in [Proc -> Word], NEW p \in Proc,
         ClientStep(p)
  PROVE  \A n \in Proc : procs[n] = Free /\ procs'[n] # Free =>
            n = 0 \/ (pc[p] \in {"SP_Write", "UE_Resume"} /\ n = idx[p])
<1> USE DEF ProcWrite, lockVars, devVars, uosVars, localVars, poolVars, clientVars
<1>1. CASE UosStep(p) /\ UNCHANGED poolVars /\ UNCHANGED clientVars
  <2>1. CASE US_InitOwn(p)
    BY <1>1, <2>1
  <2>2. CASE US_InitOther(p)
    BY <1>1, <2>2
  <2>3. CASE SP_Write(p)
    BY <1>1, <2>3
  <2>4. CASE UE_Resume(p)
    BY <1>1, <2>4
  <2>5. CASE US_Acquire(p) \/ US_Check(p) \/ US_SetInit(p) \/ US_Load(p) \/
            US_Store(p) \/ US_Release(p) \/ AL_Test(p) \/ AL_Acquire(p) \/
            AL_Read(p) \/ AL_Release(p) \/ SP_Acquire(p) \/ SP_Scan(p) \/
            SP_Release1(p) \/ SP_Release2(p) \/ SP_Fail(p) \/ UM_Terminate(p)
            \/ UE_Acquire(p) \/ UE_Load(p) \/ UE_Store(p) \/ UE_SetTerm(p) \/
            UE_Release(p) \/ UE_Wait(p)
    BY <1>1, <2>5
  <2> QED BY <1>1, <2>1, <2>2, <2>3, <2>4, <2>5
<1>2. CASE PthreadStep(p) /\ UNCHANGED clientVars
  BY <1>2
<1>3. CASE UseStep(p)
  BY <1>3
<1> QED BY <1>1, <1>2, <1>3

(* A loop over the words goes past one when it is not free.                *)
LEMMA StepCursor ==
  ASSUME pc \in [Proc -> ClientLabel], MainIsZero, idx \in [Proc -> 0 .. NPROCS],
         procs \in [Proc -> Word], NEW p \in Proc, ClientStep(p)
  PROVE  /\ \A q \in Proc : pc'[q] \in {"SP_Scan", "SP_Write", "UE_Resume"} =>
              \/ pc[q] \in {"SP_Scan", "SP_Write", "UE_Resume"} /\ idx'[q] = idx[q]
              \/ idx'[q] = 0
              \/ pc[q] \in {"SP_Scan", "UE_Resume"} /\ idx'[q] = idx[q] + 1
                 /\ (idx[q] \in Proc => procs'[idx[q]] # Free)
         /\ \A q \in Proc : pc'[q] = "SP_Fail" =>
              \/ pc[q] = "SP_Fail"
              \/ pc[q] = "SP_Scan" /\ idx[q] + 1 = NPROCS /\ procs[idx[q]] # Free
<1> USE DEF ProcWrite, Free, Null, lockVars, devVars, uosVars, localVars,
        poolVars, clientVars
<1>1. CASE UosStep(p) /\ UNCHANGED poolVars /\ UNCHANGED clientVars
  <2>1. CASE SP_Acquire(p)
    BY <1>1, <2>1
  <2>2. CASE SP_Scan(p)
    BY <1>1, <2>2
  <2>3. CASE UE_SetTerm(p)
    BY <1>1, <2>3
  <2>4. CASE UE_Resume(p)
    BY <1>1, <2>4
  <2>5. CASE US_Acquire(p) \/ US_Check(p) \/ US_InitOwn(p) \/ US_InitOther(p)
            \/ US_SetInit(p) \/ US_Load(p) \/ US_Store(p) \/ US_Release(p) \/
            AL_Test(p) \/ AL_Acquire(p) \/ AL_Read(p) \/ AL_Release(p) \/
            SP_Write(p) \/ SP_Release1(p) \/ SP_Release2(p) \/ SP_Fail(p) \/
            UM_Terminate(p) \/ UE_Acquire(p) \/ UE_Load(p) \/ UE_Store(p) \/
            UE_Release(p) \/ UE_Wait(p)
    BY <1>1, <2>5
  <2> QED BY <1>1, <2>1, <2>2, <2>3, <2>4, <2>5
<1>2. CASE PthreadStep(p) /\ UNCHANGED clientVars
  BY <1>2
<1>3. CASE UseStep(p)
  BY <1>3
<1> QED BY <1>1, <1>2, <1>3

(* A processor halts when all have been counted.                           *)
LEMMA StepHalts ==
  ASSUME pc \in [Proc -> ClientLabel], NEW p \in Proc, ClientStep(p)
  PROVE  \A q \in Proc : pc'[q] = "Halted" => pc[q] = "Halted" \/ exited = NPROCS
<1> USE DEF lockVars, devVars, uosVars, localVars, poolVars, clientVars
<1>1. CASE UosStep(p) /\ UNCHANGED poolVars /\ UNCHANGED clientVars
  BY <1>1
<1>2. CASE PthreadStep(p) /\ UNCHANGED clientVars
  BY <1>2
<1>3. CASE UseStep(p)
  BY <1>3
<1> QED BY <1>1, <1>2, <1>3

(* The loops give words away from the left.                                *)
LEMMA StepWordsInOrder ==
  ASSUME pc \in [Proc -> ClientLabel], procs \in [Proc -> Word],
         idx \in [Proc -> 0 .. NPROCS], WordsInOrder, Scanned,
         \A n \in Proc : procs[n] # Free => procs'[n] # Free, NEW p \in Proc,
         ClientStep(p)
  PROVE WordsInOrder'
<1> HIDE DEF ClientStep
<1> SUFFICES ASSUME NEW m \in Proc, NEW n \in Proc, m < n, procs'[n] # Free
             PROVE  procs'[m] # Free
  BY DEF WordsInOrder
<1>1. CASE procs[n] # Free
  BY <1>1 DEF WordsInOrder
<1>2. CASE n = 0
  BY <1>2 DEF Proc
<1>3. CASE pc[p] \in {"SP_Write", "UE_Resume"} /\ n = idx[p]
  BY <1>3 DEF Scanned
<1> QED BY <1>1, <1>2, <1>3, StepTakes

(* What the loops have passed stays given.                                 *)
LEMMA StepScanned ==
  ASSUME pc \in [Proc -> ClientLabel], procs \in [Proc -> Word],
         idx \in [Proc -> 0 .. NPROCS], MainIsZero, Scanned, IdxInRange,
         \A n \in Proc : procs[n] # Free => procs'[n] # Free, NEW p \in Proc,
         ClientStep(p)
  PROVE Scanned'
<1> HIDE DEF ClientStep
<1>1. ASSUME NEW q \in Proc, pc'[q] \in {"SP_Scan", "SP_Write", "UE_Resume"},
             NEW n \in Proc, n < idx'[q]
      PROVE  procs'[n] # Free
  <2>1. CASE pc[q] \in {"SP_Scan", "SP_Write", "UE_Resume"} /\ idx'[q] = idx[q]
    BY <1>1, <2>1 DEF Scanned
  <2>2. CASE idx'[q] = 0
    BY <1>1, <2>2 DEF Proc
  <2>3. CASE /\ pc[q] \in {"SP_Scan", "UE_Resume"} /\ idx'[q] = idx[q] + 1
             /\ idx[q] \in Proc => procs'[idx[q]] # Free
    <3>1. n = idx[q] \/ n < idx[q]
      BY <1>1, <2>3 DEF Proc
    <3> QED BY <2>3, <3>1 DEF Scanned
  <2> QED BY <1>1, <2>1, <2>2, <2>3, StepCursor
<1>2. ASSUME NEW q \in Proc, pc'[q] = "SP_Fail", NEW n \in Proc
      PROVE  procs'[n] # Free
  <2>1. CASE pc[q] = "SP_Fail"
    BY <2>1 DEF Scanned
  <2>2. CASE pc[q] = "SP_Scan" /\ idx[q] + 1 = NPROCS /\ procs[idx[q]] # Free
    <3>1. n = idx[q] \/ n < idx[q]
      BY <2>2, NPROCSAssumption DEF Proc
    <3> QED BY <2>2, <3>1 DEF Scanned
  <2> QED BY <1>2, <2>1, <2>2, StepCursor
<1> QED BY <1>1, <1>2 DEF Scanned

(* A processor starts when its word has been given.                        *)
LEMMA StepHasWord ==
  ASSUME pc \in [Proc -> ClientLabel], PausedIffFree, HasWord,
         \A n \in Proc : procs[n] # Free => procs'[n] # Free, NEW p \in Proc,
         ClientStep(p)
  PROVE HasWord'
<1>1. ~paused[p]
  OBVIOUS
<1> HIDE DEF ClientStep
<1>2. \A q \in Proc : q # p => pc'[q] = pc[q]
  BY StepForward
<1> QED BY <1>1, <1>2 DEF HasWord, PausedIffFree

(* A pid is one of the numbers counted so far.                             *)
LEMMA StepPidBelow ==
  ASSUME pc \in [Proc -> ClientLabel], pid \in [Proc -> {-1} \cup Proc],
         reg \in [Proc -> Int], BootCount, PidBelow, NEW p \in Proc, ClientStep(p)
  PROVE  PidBelow'
<1> HIDE DEF ClientStep
<1> DEFINE b == Cardinality(Booted)
           c == Cardinality(Booted')
<1>1. Booted \in SUBSET Proc /\ Booted' \in SUBSET Proc /\ Booted \subseteq Booted'
  <2>1. \A q \in Proc : pc[q] \notin PreBoot => pc'[q] \notin PreBoot
    BY StepForward
  <2> QED BY <2>1 DEF Booted
<1>2. b \in Nat /\ c \in Nat /\ b \leq c
  BY <1>1, Counting
<1>3. \A x \in Booted' : x \notin Booted => b + 1 \leq c
  BY <1>1, Counting
<1>4. \A q \in Proc : pid[q] < b /\ pid[q] \in Int
  BY DEF PidBelow, Proc
<1>5. CASE pid' = pid
  <2> HIDE DEF b, c
  <2>1. \A q \in Proc : pid'[q] < c
    BY <1>2, <1>4, <1>5
  <2> QED BY <2>1 DEF PidBelow, c
<1>6. CASE /\ pc[p] = "US_Store" /\ pc'[p] = "US_Release"
           /\ pid' = [pid EXCEPT ![p] = reg[p]]
  <2>1. p \in Booted' /\ p \notin Booted
    BY <1>6 DEF Booted, PreBoot, BootInit
  <2>2. reg[p] \in 0 .. b
    BY <1>6 DEF BootCount
  <2> HIDE DEF b, c
  <2>3. b + 1 \leq c
    BY <1>3, <2>1
  <2>4. \A q \in Proc : pid'[q] = IF q = p THEN reg[p] ELSE pid[q]
    BY <1>6
  <2>5. \A q \in Proc : pid'[q] < c
    BY <1>2, <1>4, <2>2, <2>3, <2>4
  <2> QED BY <2>5 DEF PidBelow, c
<1> QED BY <1>5, <1>6, StepCores

(* The words given are the first ones and at least as many as the          *)
(* processors that have started: a pid is the number of one of them.       *)
LEMMA BelowIsGiven ==
  ASSUME WordsInOrder, HasWord, NEW n \in Proc, n < Cardinality(Booted)
  PROVE  procs[n] # Free
<1> SUFFICES ASSUME procs[n] = Free PROVE FALSE
  OBVIOUS
<1>1. Booted \subseteq 0 .. n - 1
  <2> SUFFICES ASSUME NEW q \in Booted PROVE q \in 0 .. n - 1
    OBVIOUS
  <2>1. q \in Proc /\ procs[q] # Free
    BY DEF Booted, HasWord, PreBoot
  <2>2. ~(n < q) /\ q # n
    BY <2>1 DEF WordsInOrder
  <2> QED BY <2>1, <2>2 DEF Proc
<1>2. IsFiniteSet(0 .. n - 1) /\ Cardinality(0 .. n - 1) = n
  <2>1. n \in Nat /\ n - 1 \in Int /\ 0 \in Int
    BY DEF Proc
  <2>2. /\ IsFiniteSet(0 .. n - 1)
        /\ Cardinality(0 .. n - 1) = IF 0 > n - 1 THEN 0 ELSE (n - 1) - 0 + 1
    BY <2>1, FS_Interval
  <2> QED BY <2>1, <2>2
<1>3. Cardinality(Booted) \leq n /\ Cardinality(Booted) \in Nat
  BY <1>1, <1>2, FS_Subset, FS_CardinalityType, Zenon
<1> QED BY <1>3 DEF Proc

(* A processor reads a word that has been given.                           *)
LEMMA StepRegGiven ==
  ASSUME pc \in [Proc -> ClientLabel], pid \in [Proc -> {-1} \cup Proc], PidZero,
         reg \in [Proc -> Int], WordsInOrder, HasWord, PidBelow, RegGiven,
         NEW p \in Proc, ClientStep(p)
  PROVE  RegGiven'
<1> HIDE DEF ClientStep
<1> SUFFICES ASSUME NEW q \in Proc, pc'[q] \in {"AL_Release", "AL_Call"}
             PROVE  reg'[q] # Free
  BY DEF RegGiven
<1>1. CASE pc[q] \in {"AL_Release", "AL_Call"} /\ reg'[q] = reg[q]
  BY <1>1 DEF RegGiven
<1>2. CASE pc[q] = "AL_Read" /\ reg'[q] = procs[pid[q]]
  <2>1. pid[q] \in Proc
    BY <1>2, ZeroProc DEF PidZero, PreBoot, BootInit
  <2> QED BY <1>2, <2>1, BelowIsGiven DEF PidBelow
<1> QED BY <1>1, <1>2, StepReads

(* All have been counted when the first processor halts.                   *)
LEMMA StepAllCounted ==
  ASSUME pc \in [Proc -> ClientLabel], exited \in 0 .. NPROCS, ExitCount, AllCounted,
         NEW p \in Proc, ClientStep(p)
  PROVE  AllCounted'
<1> HIDE DEF ClientStep
<1>1. Counted \subseteq Counted' /\ Counted' \subseteq Proc
  BY StepForward DEF Counted
<1>2. ASSUME exited = NPROCS PROVE Counted = Proc
  <2> SUFFICES ASSUME NEW x \in Proc, x \notin Counted PROVE FALSE
    BY DEF Counted
  <2>1. Counted \in SUBSET Proc /\ Proc \in SUBSET Proc /\ Counted \subseteq Proc
    BY DEF Counted
  <2>2. Cardinality(Counted) + 1 \leq Cardinality(Proc) /\ Cardinality(Proc) \leq NPROCS
        /\ Cardinality(Counted) \in Nat /\ Cardinality(Proc) \in Nat
    BY <2>1, Counting
  <2> QED BY <1>2, <2>2, NPROCSAssumption DEF ExitCount
<1>3. (\E q \in Proc : pc'[q] = "Halted") => Counted = Proc
  BY <1>2, StepHalts DEF AllCounted
<1> QED BY <1>1, <1>3 DEF AllCounted

(* While no word is free the search for one goes on for ever.              *)
LEMMA StepRefused ==
  ASSUME pc \in [Proc -> ClientLabel], idx \in [Proc -> 0 .. NPROCS], IdxInRange,
         NEW p \in Proc, ClientStep(p)
  PROVE  \A q \in Proc : /\ pc[q] \in {"SP_Acquire", "SP_Scan", "SP_Fail"}
                           /\ \A n \in Proc : procs[n] # Free
            => pc'[q] \in {"SP_Acquire", "SP_Scan", "SP_Fail"}
<1> USE NPROCSAssumption DEF IdxInRange, Proc
<1>1. CASE UosStep(p) /\ UNCHANGED poolVars /\ UNCHANGED clientVars
  <2>1. CASE SP_Acquire(p)
    BY <1>1, <2>1
  <2>2. CASE SP_Scan(p)
    BY <1>1, <2>2
  <2>3. CASE SP_Fail(p)
    BY <1>1, <2>3
  <2>4. CASE US_Acquire(p) \/ US_Check(p) \/ US_InitOwn(p) \/ US_InitOther(p)
            \/ US_SetInit(p) \/ US_Load(p) \/ US_Store(p) \/ US_Release(p) \/
            AL_Test(p) \/ AL_Acquire(p) \/ AL_Read(p) \/ AL_Release(p) \/
            SP_Write(p) \/ SP_Release1(p) \/ SP_Release2(p) \/ UM_Terminate(p)
            \/ UE_Acquire(p) \/ UE_Load(p) \/ UE_Store(p) \/ UE_SetTerm(p) \/
            UE_Resume(p) \/ UE_Release(p) \/ UE_Wait(p)
    BY <1>1, <2>4
  <2> QED BY <1>1, <2>1, <2>2, <2>3, <2>4, Zenon
<1>2. CASE PthreadStep(p) /\ UNCHANGED clientVars
  BY <1>2
<1>3. CASE UseStep(p)
  BY <1>3, Zenon
<1> QED BY <1>1, <1>2, <1>3, Zenon

-----------------------------------------------------------------------------
(* The inductive invariant.                                                *)
PInv ==
  /\ IInv
  /\ ZeroIsMain
  /\ PoolInit
  /\ ScanFollows
  /\ Given
  /\ Pool
  /\ Done
  /\ Joins
  /\ WordsInOrder
  /\ Scanned
  /\ HasWord
  /\ PidBelow
  /\ RegGiven
  /\ AllCounted

HIDE DEF ClientStep

(* The invariant holds at the start.                                       *)
LEMMA InitPInv == ClientInit => PInv
<1> SUFFICES ASSUME ClientInit PROVE PInv
  OBVIOUS
<1>1. IInv
  BY InitIInv
<1>2. \A p \in Proc : pc[p] = "US_Acquire"
  BY DEF ClientInit, UosInit
<1>3. /\ i = 0 /\ gLockPool = FALSE
      /\ UpTo(Claimed) = 0 /\ UpTo(Described) = 0 /\ UpTo(Handed) = 0
  BY <1>2, ZeroProc
  DEF ClientInit, PthreadInit, UpTo, Spawned, Joining, Exiting, ExitCounted, Claimed,
      Described, Handed
<1>4. ZeroIsMain /\ PoolInit /\ ScanFollows /\ Joins
  BY <1>2, <1>3, ZeroProc
  DEF ZeroIsMain, PreBoot, PoolInit, ScanFollows, Claimed, Described, Handed,
      Joins, Spawned, Joining, Exiting, ExitCounted
<1>5. Given
  BY <1>2, <1>3 DEF Given, Running, ClientInit, UosInit, ProcDeviceInit, Free, Null
<1>6. \A t \in Tid : t >= 0 /\ ~(t < 0)
  BY MAX_THREADSAssumption DEF Tid
<1>7. Pool /\ Done
  BY <1>2, <1>3, <1>6 DEF Pool, Done, ClientInit, PthreadInit
<1>8. WordsInOrder /\ HasWord /\ Scanned /\ RegGiven
  BY <1>2
  DEF WordsInOrder, HasWord, Scanned, RegGiven, ClientInit, UosInit, ProcDeviceInit,
      Free, Null, Proc
<1>9. PidBelow /\ AllCounted
  <2>1. Booted = {}
    BY <1>2 DEF Booted, PreBoot
  <2>2. Cardinality(Booted) = 0
    BY <2>1, FS_EmptySet
  <2> QED BY <1>2, <2>2 DEF PidBelow, AllCounted, ClientInit, UosInit
<1> QED BY <1>1, <1>4, <1>5, <1>7, <1>8, <1>9 DEF PInv

(* Every step keeps it.                                                    *)
LEMMA NextPInv == PInv /\ [ClientNext]_vars => PInv'
<1> SUFFICES ASSUME PInv, [ClientNext]_vars PROVE PInv'
  OBVIOUS
<1>1. IInv'
  BY NextIInv DEF PInv
<1>2. ASSUME NEW p \in Proc, ClientStep(p) PROVE PInv'
  <2> USE <1>2
  <2>1. \A n \in Proc : procs[n] # Free => procs'[n] # Free
    BY StepWords DEF PInv, IInv, ClientTypeOK, PthreadTypeOK
  <2>2. ZeroIsMain' /\ PoolInit' /\ ScanFollows'
    BY StepZero, StepPoolInit, StepScan DEF PInv, IInv, ClientTypeOK, PthreadTypeOK
  <2>3. Given' /\ Pool'
    BY StepGiven, StepPool DEF PInv, IInv, ClientTypeOK, PthreadTypeOK
  <2>4. Done' /\ Joins'
    BY StepDone, StepJoins DEF PInv, IInv, ClientTypeOK, PthreadTypeOK
  <2>5. WordsInOrder' /\ Scanned' /\ HasWord'
    BY <2>1, StepWordsInOrder, StepScanned, StepHasWord
    DEF PInv, IInv, ClientTypeOK, PthreadTypeOK
  <2>6. PidBelow' /\ RegGiven' /\ AllCounted'
    BY StepPidBelow, StepRegGiven, StepAllCounted
    DEF PInv, IInv, ClientTypeOK, PthreadTypeOK
  <2> QED BY <1>1, <2>2, <2>3, <2>4, <2>5, <2>6 DEF PInv
<1>3. CASE UNCHANGED vars
  BY <1>1, <1>3
  DEF vars, lockVars, devVars, uosVars, localVars, poolVars, clientVars, PInv,
      ZeroIsMain, PoolInit, ScanFollows, Given, Pool, Done,
      Joins, UpTo, Spawned, WordsInOrder, Scanned, HasWord, PidBelow, Booted,
      RegGiven, AllCounted, Counted
<1> QED BY <1>2, <1>3, ZenonT(40) DEF ClientNext

(* So it always holds.                                                     *)
LEMMA PoolInvariance == ClientSpec => []PInv
  BY InitPInv, NextPInv, PTL DEF ClientSpec

(* uos_auxloop: a processor takes from its word a descriptor or NULL,      *)
(* never the mark of a free word (NoWildDescriptor).                       *)
THEOREM WordsAreDescriptors == ClientSpec => []NoWildDescriptor
<1>1. PInv => NoWildDescriptor
  BY DEF PInv, RegGiven, NoWildDescriptor
<1> QED BY <1>1, PoolInvariance, PTL

(* The search has not gone further than the number of the thread.          *)
LEMMA NotExhausted == PInv => PoolNeverExhausted
<1> SUFFICES ASSUME PInv, NEW p \in Proc, pc[p] = "PC_Acquire"
             PROVE  tid[p] < MAX_THREADS
  BY DEF PoolNeverExhausted
<1>1. p = 0
  BY DEF PInv, IInv, MainIsZero, Main
<1>2. tid[0] \leq i /\ i < NTHREADS
  BY <1>1 DEF PInv, ScanFollows, IInv, CounterInRange, Exiting, ExitCounted
<1>3. tid[0] \in Nat /\ i \in Nat
  BY ZeroProc, NTHREADSAssumption, MAX_THREADSAssumption
  DEF PInv, IInv, ClientTypeOK, PthreadTypeOK
<1> QED BY <1>1, <1>2, <1>3, NTHREADSAssumption, MAX_THREADSAssumption

(* pthread_create: the search of the pool never starts beyond its last     *)
(* entry, so pthread_create never returns for want of one                  *)
(* (PoolNeverExhausted).                                                   *)
THEOREM PoolSuffices == ClientSpec => []PoolNeverExhausted
  BY NotExhausted, PoolInvariance, PTL

(* uos_exit: a processor stops when all have been counted                  *)
(* (ExitRendezvous).                                                       *)
THEOREM ExitsTogether == ClientSpec => []ExitRendezvous
<1>1. PInv => ExitRendezvous
  BY DEF PInv, AllCounted, Counted, ExitRendezvous
<1> QED BY <1>1, PoolInvariance, PTL

(* uos_start_processor: once it has found no free word, pthread_create     *)
(* asks again for ever (RefusalIsFinal).                                   *)
THEOREM RefusedForEver == ClientSpec => RefusalIsFinal
<1> SUFFICES ASSUME NEW p \in Proc
             PROVE  ClientSpec => [](pc[p] = "SP_Fail" =>
                                 [](pc[p] \in {"SP_Acquire", "SP_Scan", "SP_Fail"}))
  BY DEF RefusalIsFinal
<1> DEFINE R == /\ pc[p] \in {"SP_Acquire", "SP_Scan", "SP_Fail"}
                /\ \A n \in Proc : procs[n] # Free
<1>1. PInv => (pc[p] = "SP_Fail" => R)
  BY DEF PInv, Scanned
<1>2. PInv /\ R /\ [ClientNext]_vars => R'
  <2> SUFFICES ASSUME PInv, R, [ClientNext]_vars PROVE R'
    OBVIOUS
  <2>1. CASE UNCHANGED vars
    BY <2>1 DEF vars, lockVars, devVars
  <2>2. ASSUME NEW q \in Proc, ClientStep(q) PROVE R'
    <3>1. \A n \in Proc : procs'[n] # Free
      BY <2>2, StepWords, Zenon DEF PInv, IInv, ClientTypeOK, PthreadTypeOK
    <3>2. pc'[p] \in {"SP_Acquire", "SP_Scan", "SP_Fail"}
      BY <2>2, StepRefused, Zenon DEF PInv, IInv, ClientTypeOK, PthreadTypeOK
    <3> QED BY <3>1, <3>2
  <2> QED BY <2>1, <2>2, ZenonT(40) DEF ClientNext
<1>3. R => pc[p] \in {"SP_Acquire", "SP_Scan", "SP_Fail"}
  OBVIOUS
<1> HIDE DEF R
<1> QED BY <1>1, <1>2, <1>3, PoolInvariance, PTL DEF ClientSpec

-----------------------------------------------------------------------------
(***************************************************************************)
(* Part 3: the life of a thread.  It is entered once, joined after it has  *)
(* returned, and so goes through the stages ThreadLife promises.           *)
(*                                                                         *)
(* TInv adds to PInv that one processor at a time holds a thread: the one  *)
(* whose word it is (OneHolder).  That needs distinct pids, which hold     *)
(* while the lock is sound.  What follows is about one processor: it       *)
(* clears the function it has called before it looks at its word again.    *)
(***************************************************************************)

(* Processor q is about to run thread t, or runs it.                       *)
Holds(q, t) ==
  \/ pc[q] \in {"AL_Release", "AL_Call"} /\ reg[q] = Descriptor(t)
  \/ pc[q] \in Running /\ tid[q] = t

(* No two words name the same thread.                                      *)
OneWord == \A m, n \in Proc : procs[m] > Null /\ procs[m] = procs[n] => m = n

(* One processor holds a thread, and it is the one whose word names it.    *)
OneHolder ==
  ~clobbered =>
    \A q \in Proc, t \in Tid : Holds(q, t) =>
      /\ \A r \in Proc : Holds(r, t) => r = q
      /\ \A n \in Proc : procs[n] = Descriptor(t) => pid[q] = n

(* A thread that has not been handed out has not been entered.             *)
NotYet == \A t \in Tid : t >= UpTo(Handed) => runs[t] = 0

Returned == ~clobbered => \A t \in Tid : returns[t] \leq runs[t] /\ runs[t] \leq 1

(* A function that has been entered and not been cleared has a processor   *)
(* that will clear it.                                                     *)
Entered ==
  ~clobbered =>
    \A t \in Tid : func[t] /\ runs[t] >= 1 =>
      \E q \in Proc : pc[q] \in InFunction \cup {"TC_Clear"} /\ tid[q] = t

(* Whoever is about to call a function finds it there.                     *)
Callable ==
  ~clobbered =>
    /\ \A q \in Proc : pc[q] \in {"TC_Call", "Body"} => func[tid[q]]
    /\ \A q \in Proc : pc[q] \in InFunction => runs[tid[q]] >= 1 /\ returns[tid[q]] = 0
    /\ \A q \in Proc : pc[q] # "Wild"

(* SHOULD_TERMINATE is set by the main program on its way out.             *)
Terminating ==
  /\ \A q \in Proc : pc[q] \in Exiting => SHOULD_TERMINATE
  /\ SHOULD_TERMINATE => pc[0] \in Exiting

(* The entries past INITIALIZING are those that have been described.       *)
Kinds == \A t \in Tid : state[t] \in {"IDLE", "INITIALIZING"} <=> t >= UpTo(Described)

-----------------------------------------------------------------------------
(* What a step does to the parts of the invariant.                         *)

USE DEF ClientStep, Jump

(* How a processor goes through the thread it runs.                        *)
LEMMA StepThread ==
  ASSUME pc \in [Proc -> ClientLabel], NEW p \in Proc, ClientStep(p)
  PROVE  /\ \A q \in Proc : pc'[q] \in {"TC_Call", "Body"} =>
              \/ pc[q] \in {"TC_Call", "Body"} /\ tid'[q] = tid[q]
              \/ pc[q] = "TC_Test" /\ func[tid[q]] /\ UNCHANGED <<tid, func>>
         /\ \A q \in Proc : pc'[q] \in InFunction =>
              \/ pc[q] \in InFunction /\ tid'[q] = tid[q]
              \/ q = p /\ pc[q] = "Body" /\ tid'[q] = tid[q]
         /\ \A q \in Proc : pc'[q] = "Wild" =>
              pc[q] = "Wild" \/ (pc[q] = "TC_Call" /\ ~func[tid[q]])
         /\ \A q \in Proc : pc[q] \in InFunction \cup {"TC_Clear"} =>
              \/ pc'[q] \in InFunction \cup {"TC_Clear"} /\ tid'[q] = tid[q]
              \/ q = p /\ pc[q] = "TC_Clear"
                 /\ func' = [func EXCEPT ![tid[q]] = FALSE]
<1> USE DEF lockVars, devVars, uosVars, localVars, poolVars, clientVars
<1>1. CASE UosStep(p) /\ UNCHANGED poolVars /\ UNCHANGED clientVars
  BY <1>1
<1>2. CASE PthreadStep(p) /\ UNCHANGED clientVars
  <2>1. CASE PC_Check(p)
    BY <1>2, <2>1
  <2>2. CASE PC_Skip(p)
    BY <1>2, <2>2
  <2>3. CASE AL_Call(p)
    BY <1>2, <2>3
  <2>4. CASE TC_Test(p)
    BY <1>2, <2>4
  <2>5. CASE TC_Call(p)
    BY <1>2, <2>5
  <2>6. CASE TC_Clear(p)
    BY <1>2, <2>6, Zenon
  <2>7. CASE PC_InitAcquire(p) \/ PC_Recheck(p) \/ PC_InitPool(p) \/
            PC_SetInit(p) \/ PC_InitRelease(p) \/ PC_Acquire(p) \/ PC_Scan(p)
            \/ PC_Claim(p) \/ PC_ClaimRelease(p) \/ PJ_Poll(p) \/ PJ_Acquire(p)
            \/ PJ_Release(p) \/ TC_Run(p) \/ TC_Finish(p)
    BY <1>2, <2>7
  <2> QED BY <1>2, <2>1, <2>2, <2>3, <2>4, <2>5, <2>6, <2>7, Zenon
<1>3. CASE UseStep(p)
  <2>1. CASE JoinRelease(p)
    BY <1>3, <2>1
  <2>2. CASE Join(p)
    BY <1>3, <2>2
  <2>3. CASE Enter(p)
    BY <1>3, <2>3
  <2>4. CASE Return(p)
    BY <1>3, <2>4
  <2>5. CASE SpawnAcquire(p) \/ SpawnRelease(p) \/ Spawn(p) \/ Create(p)
            \/ Created(p) \/ JoinAcquire(p) \/ JoinDone(p) \/ PrintDone(p)
            \/ Work(p) \/ PrintAgain(p)
    BY <1>3, <2>5
  <2> QED BY <1>3, <2>1, <2>2, <2>3, <2>4, <2>5, Zenon
<1> QED BY <1>1, <1>2, <1>3, Zenon

(* A processor comes to hold a thread by reading its descriptor.           *)
LEMMA StepHolds ==
  ASSUME pc \in [Proc -> ClientLabel], tid \in [Proc -> 0 .. MAX_THREADS],
         reg \in [Proc -> Int],
         NEW p \in Proc, ClientStep(p), NEW q \in Proc, NEW t \in Tid, Holds(q, t)'
  PROVE  \/ Holds(q, t)
         \/ q = p /\ pc[q] = "AL_Read" /\ procs[pid[q]] = Descriptor(t)
            /\ UNCHANGED <<procs, pid>>
<1> HIDE DEF ClientStep
<1>0. t \in Int
  BY MAX_THREADSAssumption DEF Tid
<1>1. CASE pc'[q] \in {"AL_Release", "AL_Call"} /\ reg'[q] = Descriptor(t)
  BY <1>1, StepReads DEF Holds
<1>2. CASE pc'[q] \in Running /\ tid'[q] = t
  <2>1. CASE pc[q] \in Running /\ tid'[q] = tid[q]
    BY <1>2, <2>1 DEF Holds
  <2>2. CASE pc[q] = "AL_Call" /\ tid'[q] = reg[q] - 1
    <3>1. reg[q] = Descriptor(t)
      BY <1>0, <1>2, <2>2 DEF Descriptor
    <3> QED BY <2>2, <3>1 DEF Holds
  <2> QED BY <1>2, <2>1, <2>2, StepRuns
<1> QED BY <1>1, <1>2 DEF Holds

(* A pid changes where it is stored.                                       *)
LEMMA StepPid ==
  ASSUME pc \in [Proc -> ClientLabel], pid \in [Proc -> {-1} \cup Proc],
         reg \in [Proc -> Int],
         NEW p \in Proc, ClientStep(p), NEW q \in Proc, pc'[q] \notin {"US_Release"}
  PROVE  pid'[q] = pid[q]
<1> HIDE DEF ClientStep
<1> QED BY StepCores

(* A thread that is held has been handed out.                              *)
LEMMA GivenTids ==
  ASSUME Given, i \in 0 .. NTHREADS, NEW q \in Proc, NEW t \in Tid, Holds(q, t)
  PROVE  t < UpTo(Handed)
<1>1. t \in Int
  BY MAX_THREADSAssumption DEF Tid
<1>2. CASE pc[q] \in {"AL_Release", "AL_Call"} /\ reg[q] = t + 1
  <2>1. t + 1 \leq UpTo(Handed)
    BY <1>2 DEF Given
  <2>2. UpTo(Handed) \in Int
    BY NTHREADSAssumption, MAX_THREADSAssumption DEF UpTo
  <2> QED BY <1>1, <2>1, <2>2
<1>3. CASE pc[q] \in Running /\ tid[q] = t
  BY <1>3 DEF Given
<1> QED BY <1>2, <1>3 DEF Holds, Descriptor

(* A thread is written to one word.                                        *)
LEMMA StepOneWord ==
  ASSUME pc \in [Proc -> ClientLabel], MainIsZero, ScanFollows, Given,
         procs \in [Proc -> Word], idx \in [Proc -> 0 .. NPROCS],
         i \in 0 .. NTHREADS, OneWord, NEW p \in Proc, ClientStep(p)
  PROVE  OneWord'
<1> HIDE DEF ClientStep
<1> SUFFICES ASSUME NEW m \in Proc, NEW n \in Proc, procs'[m] > Null,
                    procs'[m] = procs'[n]
             PROVE  m = n
  BY DEF OneWord
<1>1. CASE procs'[m] = procs[m] /\ procs'[n] = procs[n]
  BY <1>1, Zenon DEF OneWord
<1>2. ASSUME pc[p] = "SP_Write" PROVE \A x \in Proc : procs[x] < Descriptor(tid[p])
  <2>1. p = 0
    BY <1>2 DEF MainIsZero, Main
  <2>2. tid[0] = i /\ UpTo(Handed) = i
    BY <1>2, <2>1
    DEF ScanFollows, Claimed, Described, Handed, UpTo, Spawned, Joining, Exiting,
        ExitCounted
  <2>3. i \in Int /\ \A x \in Proc : procs[x] \in Int
    BY MAX_THREADSAssumption, NTHREADSAssumption DEF Word, Free
  <2> QED BY <2>1, <2>2, <2>3 DEF Given, Descriptor
<1>3. \A x \in Proc : procs'[x] # procs[x] /\ procs'[x] > Null =>
        pc[p] = "SP_Write" /\ x = idx[p] /\ procs'[x] = Descriptor(tid[p])
  BY StepWrites DEF Free, Null
<1>4. CASE procs'[m] # procs[m] /\ procs'[n] = procs[n]
  <2>1. pc[p] = "SP_Write" /\ procs[n] = Descriptor(tid[p])
    BY <1>3, <1>4
  <2>2. procs[n] < procs[n] /\ procs[n] \in Int
    BY <1>2, <2>1, MAX_THREADSAssumption DEF Word, Free
  <2> QED BY <2>2
<1>5. CASE procs'[m] = procs[m] /\ procs'[n] # procs[n]
  <2>1. pc[p] = "SP_Write" /\ procs[m] = Descriptor(tid[p])
    BY <1>3, <1>5, Zenon
  <2>2. procs[m] < procs[m] /\ procs[m] \in Int
    BY <1>2, <2>1, MAX_THREADSAssumption DEF Word, Free
  <2> QED BY <2>2
<1>6. CASE procs'[m] # procs[m] /\ procs'[n] # procs[n]
  BY <1>3, <1>6
<1> QED BY <1>1, <1>4, <1>5, <1>6

(* A thread stays with the processor whose word names it.                  *)
LEMMA StepOneHolder ==
  ASSUME PInv, OneWord, OneHolder, NEW p \in Proc, ClientStep(p), clobbered => clobbered'
  PROVE  OneHolder'
<1> HIDE DEF ClientStep
<1> SUFFICES ASSUME ~clobbered', NEW q \in Proc, NEW t \in Tid, Holds(q, t)'
             PROVE  /\ \A r \in Proc : Holds(r, t)' => r = q
                    /\ \A n \in Proc : procs'[n] = Descriptor(t) => pid'[q] = n
  BY DEF OneHolder, Descriptor
<1> USE DEF PInv, IInv, ClientTypeOK, PthreadTypeOK
<1>1. ~clobbered
  OBVIOUS
<1>2. t \in Nat /\ Descriptor(t) > Null
  BY MAX_THREADSAssumption DEF Tid, Descriptor, Null
<1>8. Descriptor(t) \notin {Free, Null}
  BY <1>2 DEF Free, Null, Descriptor
<1>3. \A r \in Proc : pc[r] = "AL_Read" => pid[r] \in Proc /\ pid[r] # -1
  <2> SUFFICES ASSUME NEW r \in Proc, pc[r] = "AL_Read"
               PROVE  pid[r] \in Proc /\ pid[r] # -1
    OBVIOUS
  <2>1. pid[r] \in {-1} \cup Proc /\ (pid[r] = 0 \/ pid[r] > 0)
    BY Zenon DEF PidZero, PreBoot, BootInit
  <2> QED BY ONLY <2>1 DEF Proc
<1>4. \A r \in Proc : Holds(r, t)' =>
        \/ Holds(r, t)
        \/ r = p /\ pc[r] = "AL_Read" /\ procs[pid[r]] = Descriptor(t)
           /\ UNCHANGED <<procs, pid>>
  BY StepHolds, Zenon
<1>5. ASSUME NEW r \in Proc, NEW s \in Proc, Holds(r, t), pc[s] = "AL_Read",
             procs[pid[s]] = Descriptor(t)
      PROVE  r = s
  <2>1. pid[r] = pid[s]
    BY <1>1, <1>3, <1>5 DEF OneHolder
  <2> QED BY <1>1, <1>3, <1>5, <2>1 DEF DistinctPids
<1>6. ASSUME NEW r \in Proc, Holds(r, t)' PROVE r = q
  <2>1. CASE Holds(r, t) /\ Holds(q, t)
    BY <1>1, <2>1 DEF OneHolder
  <2> QED BY <1>4, <1>5, <1>6, <2>1, Zenon
<1>7. ASSUME NEW n \in Proc, procs'[n] = Descriptor(t) PROVE pid'[q] = n
  <2>1. CASE /\ q = p /\ pc[q] = "AL_Read" /\ procs[pid[q]] = Descriptor(t)
             /\ UNCHANGED <<procs, pid>>
    BY <1>2, <1>3, <1>7, <2>1 DEF OneWord
  <2>2. CASE Holds(q, t)
    <3>1. pid'[q] = pid[q]
      <4>1. pc'[q] # "US_Release"
        BY Zenon DEF Holds, Running
      <4> QED BY <4>1, StepPid, Zenon
    <3>2. CASE procs'[n] = procs[n]
      BY <1>1, <1>7, <2>2, <3>1, <3>2, Zenon DEF OneHolder
    <3>3. CASE procs'[n] # procs[n]
      <4>1. pc[p] = "SP_Write" /\ Descriptor(t) = Descriptor(tid[p])
        BY <1>7, <1>8, <3>3, StepWrites, Zenon
      <4>2. p = 0
        BY <4>1 DEF MainIsZero, Main
      <4>3. tid[0] = i /\ UpTo(Handed) = i
        BY <4>1, <4>2, Zenon
        DEF ScanFollows, Claimed, Described, Handed, UpTo, Spawned, Joining,
            Exiting, ExitCounted
      <4>4. t = i /\ i \in Nat
        BY <1>2, <4>1, <4>2, <4>3, NTHREADSAssumption, MAX_THREADSAssumption
        DEF Descriptor
      <4>5. t < UpTo(Handed)
        BY <2>2, GivenTids, MAX_THREADSAssumption
      <4> QED BY <4>3, <4>4, <4>5
    <3> QED BY <3>2, <3>3, Zenon
  <2> QED BY <1>4, <2>1, <2>2
<1> QED BY <1>6, <1>7

(* What is known of the thread a processor runs.                           *)
LEMMA RunningTids ==
  ASSUME PInv
  PROVE  \A q \in Proc : pc[q] \in Running => /\ tid[q] \in Tid
                                              /\ tid[q] < UpTo(Handed)
                                              /\ Holds(q, tid[q])
  BY MAX_THREADSAssumption
  DEF PInv, IInv, ClientTypeOK, PthreadTypeOK, Given, TidInRange, Thread, Running, Tid,
      Holds

(* A thread is handed out before it is entered.                            *)
LEMMA StepNotYet ==
  ASSUME PInv, runs \in [Tid -> Nat], NotYet, NEW p \in Proc, ClientStep(p)
  PROVE  NotYet'
<1> HIDE DEF ClientStep
<1>1. UpTo(Handed) \in Int /\ UpTo(Handed)' \in Int /\ UpTo(Handed) \leq UpTo(Handed)'
  <2>1. i \in 0 .. NTHREADS
    BY DEF PInv, IInv, ClientTypeOK
  <2>2. UpTo(Handed) \in Nat /\ i \in Nat
    BY <2>1, NTHREADSAssumption, MAX_THREADSAssumption DEF UpTo
  <2>3. UpTo(Handed)' = UpTo(Handed) \/ (UpTo(Handed) = i /\ UpTo(Handed)' = i + 1)
    BY StepUpTo DEF PInv, IInv, ClientTypeOK, PthreadTypeOK
  <2> QED BY <2>2, <2>3
<1>2. runs' = runs \/ (pc[p] = "Body" /\ runs' = [runs EXCEPT ![tid[p]] = @ + 1])
  BY StepHistory DEF PInv, IInv, ClientTypeOK, PthreadTypeOK
<1>3. pc[p] = "Body" => tid[p] < UpTo(Handed) /\ tid[p] \in Tid
  BY RunningTids DEF Running
<1> SUFFICES ASSUME NEW t \in Tid, t >= UpTo(Handed)' PROVE runs'[t] = 0
  BY DEF NotYet
<1>4. t >= UpTo(Handed) /\ t \in Int
  BY <1>1, MAX_THREADSAssumption DEF Tid
<1>5. runs[t] = 0
  BY <1>4 DEF NotYet
<1>6. pc[p] = "Body" => tid[p] # t
  BY <1>1, <1>3, <1>4, MAX_THREADSAssumption DEF Tid
<1> QED BY ONLY <1>2, <1>3, <1>5, <1>6, t \in Tid, runs \in [Tid -> Nat]

(* What a step does to the function of one thread.                         *)
LEMMA StepFunc ==
  ASSUME PInv, func \in [Tid -> BOOLEAN], NEW p \in Proc, ClientStep(p), NEW t \in Tid
  PROVE  /\ func'[t] /\ ~func[t] => p = 0 /\ pc[0] = "PC_Describe" /\ t = i
         /\ ~func'[t] /\ func[t] => \/ pc[p] = "TC_Clear" /\ tid[p] = t
                                    \/ p = 0 /\ pc[0] = "PC_InitPool"
<1> HIDE DEF ClientStep
<1> USE DEF PInv, IInv, ClientTypeOK, PthreadTypeOK
<1>1. pc[0] = "PC_Describe" => tid[0] = i
  BY DEF ScanFollows, Claimed
<1>2. \/ func' = func
      \/ p = 0 /\ pc[0] = "PC_InitPool" /\ func' = [x \in Tid |-> FALSE]
      \/ p = 0 /\ pc[0] = "PC_Describe" /\ func' = [func EXCEPT ![tid[0]] = TRUE]
      \/ pc[p] = "TC_Clear" /\ func' = [func EXCEPT ![tid[p]] = FALSE]
  BY StepEntry, Zenon
<1> QED BY ONLY <1>1, <1>2, func \in [Tid -> BOOLEAN], t \in Tid, Zenon

(* No thread runs before the pool is set up.                               *)
LEMMA NoneBeforePool ==
  ASSUME PInv, pc[0] = "PC_InitPool", NEW q \in Proc, pc[q] \in Running
  PROVE  FALSE
<1>1. UpTo(Handed) = 0
  BY DEF PInv, PoolInit, UpTo, Spawned, Joining, Exiting, ExitCounted, Handed
<1>2. tid[q] \in Nat /\ tid[q] < 0
  BY <1>1, RunningTids, MAX_THREADSAssumption DEF Tid
<1> QED BY <1>2

(* A function is called by the one processor that holds its thread, and    *)
(* cleared by it.                                                          *)
LEMMA StepCallable ==
  ASSUME PInv, OneHolder, runs \in [Tid -> Nat], returns \in [Tid -> Nat],
         func \in [Tid -> BOOLEAN], NotYet, Returned, Entered, Callable,
         NEW p \in Proc, ClientStep(p), clobbered => clobbered'
  PROVE  Callable' /\ Entered' /\ Returned'
<1> HIDE DEF ClientStep
<1> SUFFICES ASSUME ~clobbered' PROVE Callable' /\ Entered' /\ Returned'
  BY DEF Callable, Entered, Returned
<1> USE DEF PInv, IInv, ClientTypeOK, PthreadTypeOK
<1>1. ~clobbered
  OBVIOUS
(* Two processors that hold the same thread are one.                       *)
<1>2. ASSUME NEW q \in Proc, NEW r \in Proc, pc[q] \in Running, pc[r] \in Running,
             tid[q] = tid[r]
      PROVE  q = r
  BY <1>1, <1>2, RunningTids, Zenon DEF OneHolder
<1>3. ASSUME NEW q \in Proc,
             pc[q] \in {"TC_Run", "TC_Test", "TC_Call", "Body", "TC_Finish"},
             func[tid[q]]
      PROVE  runs[tid[q]] = 0
  <2>1. pc[q] \in Running /\ tid[q] \in Tid
    BY <1>3, RunningTids, Zenon DEF Running
  <2>2. \A r \in Proc : ~(pc[r] \in InFunction \cup {"TC_Clear"} /\ tid[r] = tid[q])
    BY <1>2, <1>3, <2>1, Zenon DEF Running
  <2>3. ~(runs[tid[q]] >= 1)
    BY <1>1, <1>3, <2>1, <2>2 DEF Entered
  <2> QED BY <2>1, <2>3
<1>4. ASSUME NEW q \in Proc, pc[q] \in Running, func[tid[q]], pc[q] # "TC_Clear"
      PROVE  func'[tid[q]]
  <2>1. tid[q] \in Tid
    BY <1>4, RunningTids, Zenon
  <2>2. ~(pc[p] = "TC_Clear" /\ tid[p] = tid[q])
    BY <1>2, <1>4 DEF Running
  <2>3. ~(p = 0 /\ pc[0] = "PC_InitPool")
    BY <1>4, NoneBeforePool, Zenon
  <2> QED BY <1>4, <2>1, <2>2, <2>3, StepFunc
<1>5. ASSUME NEW q \in Proc, pc'[q] \in {"TC_Call", "Body"} PROVE func'[tid'[q]]
  <2>1. CASE pc[q] \in {"TC_Call", "Body"} /\ tid'[q] = tid[q]
    <3>1. func[tid[q]]
      BY <1>1, <2>1 DEF Callable
    <3> QED BY <1>4, <2>1, <3>1 DEF Running
  <2>2. CASE pc[q] = "TC_Test" /\ func[tid[q]] /\ UNCHANGED <<tid, func>>
    BY <2>2
  <2> QED BY <1>5, <2>1, <2>2, StepThread
<1>6. ASSUME NEW q \in Proc PROVE pc'[q] # "Wild"
  BY <1>1, StepThread DEF Callable
<1>7. /\ \/ runs' = runs /\ pc[p] # "Body"
         \/ pc[p] = "Body" /\ pc'[p] \in ThreadPrint /\ tid' = tid
            /\ runs' = [runs EXCEPT ![tid[p]] = @ + 1]
      /\ \/ returns' = returns /\ ~(pc[p] \in InFunction /\ pc'[p] = "TC_Clear")
         \/ pc[p] \in InFunction /\ pc'[p] = "TC_Clear" /\ tid' = tid
            /\ returns' = [returns EXCEPT ![tid[p]] = @ + 1]
  BY StepHistory
<1>8. pc[p] = "Body" => tid[p] \in Tid /\ runs[tid[p]] = 0 /\ returns[tid[p]] = 0
  <2> SUFFICES ASSUME pc[p] = "Body"
               PROVE  tid[p] \in Tid /\ runs[tid[p]] = 0 /\ returns[tid[p]] = 0
    OBVIOUS
  <2>1. tid[p] \in Tid /\ runs[tid[p]] = 0
    BY <1>1, <1>3, RunningTids, Zenon DEF Callable, Running
  <2> QED BY <1>1, <2>1 DEF Returned
<1>9. pc[p] \in InFunction => tid[p] \in Tid /\ runs[tid[p]] >= 1 /\ returns[tid[p]] = 0
  BY <1>1, RunningTids, Zenon DEF Callable, Running
<1>10. Returned'
  <2> SUFFICES ASSUME NEW t \in Tid PROVE returns'[t] \leq runs'[t] /\ runs'[t] \leq 1
    BY DEF Returned
  <2>1. /\ returns[t] \leq runs[t] /\ runs[t] \leq 1
        /\ returns[t] \in Nat /\ runs[t] \in Nat
    BY <1>1 DEF Returned
  <2> QED BY ONLY <1>7, <1>8, <1>9, <2>1, t \in Tid, runs \in [Tid -> Nat],
                  returns \in [Tid -> Nat]
<1>11. ASSUME NEW q \in Proc,
              pc'[q] \in InFunction PROVE runs'[tid'[q]] >= 1 /\ returns'[tid'[q]] = 0
  <2>1. CASE pc[q] \in InFunction /\ tid'[q] = tid[q]
    <3>1. tid[q] \in Tid /\ runs[tid[q]] >= 1 /\ returns[tid[q]] = 0
      BY <1>1, <2>1, RunningTids, Zenon DEF Callable, Running
    <3>2. pc[p] \in InFunction /\ pc'[p] = "TC_Clear" => tid[p] # tid[q]
      BY <1>2, <1>7, <1>11, <2>1 DEF Running
    <3> QED BY ONLY <1>7, <1>8, <2>1, <3>1, <3>2, runs \in [Tid -> Nat],
                    returns \in [Tid -> Nat]
  <2>2. CASE q = p /\ pc[q] = "Body" /\ tid'[q] = tid[q]
    BY ONLY <1>7, <1>8, <2>2, runs \in [Tid -> Nat], returns \in [Tid -> Nat]
  <2> QED BY <1>11, <2>1, <2>2, StepThread
<1>12. Callable'
  BY <1>5, <1>6, <1>11 DEF Callable
<1>13. ASSUME NEW t \in Tid, func'[t], runs'[t] >= 1
       PROVE  \E q \in Proc : pc'[q] \in InFunction \cup {"TC_Clear"} /\ tid'[q] = t
  <2>1. CASE func[t] /\ runs[t] >= 1
    <3>1. PICK q \in Proc : pc[q] \in InFunction \cup {"TC_Clear"} /\ tid[q] = t
      BY <1>1, <2>1 DEF Entered
    <3>2. ~(q = p /\ pc[q] = "TC_Clear" /\ func' = [func EXCEPT ![tid[q]] = FALSE])
      BY <1>13, <3>1
    <3> QED BY <3>1, <3>2, StepThread, Zenon
  <2>2. CASE ~(runs[t] >= 1)
    <3>1. pc[p] = "Body" /\ pc'[p] \in ThreadPrint /\ tid' = tid /\ tid[p] = t
      BY <1>7, <1>13, <2>2
    <3> QED BY <3>1
  <2>3. CASE ~func[t] /\ runs[t] >= 1
    <3>1. p = 0 /\ pc[0] = "PC_Describe" /\ t = i
      BY <1>13, <2>3, StepFunc
    <3>2. UpTo(Handed) = i
      BY <3>1 DEF UpTo, Spawned, Joining, Exiting, ExitCounted, Handed
    <3>3. t \in Int
      BY MAX_THREADSAssumption DEF Tid
    <3> QED BY <2>3, <3>1, <3>2, <3>3 DEF NotYet
  <2> QED BY <2>1, <2>2, <2>3
<1> QED BY <1>10, <1>12, <1>13 DEF Entered

(* Processors exit when the main program has set SHOULD_TERMINATE.         *)
LEMMA StepTerm ==
  ASSUME pc \in [Proc -> ClientLabel], MainIsZero, Terminating, NEW p \in Proc,
         ClientStep(p)
  PROVE  Terminating'
<1> USE ZeroProc DEF MainIsZero, Main, Terminating, Exiting, ExitCounted,
        lockVars, devVars, uosVars, localVars, poolVars, clientVars
<1>1. CASE UosStep(p) /\ UNCHANGED poolVars /\ UNCHANGED clientVars
  BY <1>1
<1>2. CASE PthreadStep(p) /\ UNCHANGED clientVars
  BY <1>2
<1>3. CASE UseStep(p)
  BY <1>3
<1> QED BY <1>1, <1>2, <1>3

(* Describing a thread takes it past INITIALIZING.                         *)
LEMMA StepKinds ==
  ASSUME PInv, Kinds, NEW p \in Proc, ClientStep(p)
  PROVE  Kinds'
<1> HIDE DEF ClientStep
<1> USE DEF PInv, IInv, ClientTypeOK, PthreadTypeOK
<1> DEFINE u == UpTo(Described)
           v == UpTo(Described)'
           Early2 == {"IDLE", "INITIALIZING"}
<1>1. /\ u \in Nat /\ v \in Nat
      /\ v = u \/ (p = 0 /\ pc[0] = "PC_Describe" /\ u = i /\ v = i + 1)
  <2>1. u \in Nat
    BY NTHREADSAssumption, MAX_THREADSAssumption DEF UpTo
  <2> QED BY <2>1, StepUpTo
<1>2. \A t \in Tid : state[t] \in Early2 <=> t >= u
  BY DEF Kinds
<1>3. SUFFICES \A t \in Tid : state'[t] \in Early2 <=> t >= v
  BY DEF Kinds
<1>4. pc[p] \in Running => tid[p] \in Tid /\ tid[p] < u
  <2>1. UpTo(Handed) \leq u /\ UpTo(Handed) \in Nat
    BY NTHREADSAssumption, MAX_THREADSAssumption DEF UpTo, Described
  <2>2. pc[p] \in Running => tid[p] \in Tid /\ tid[p] < UpTo(Handed)
    BY RunningTids, Zenon
  <2> HIDE DEF u, v
  <2> QED BY <1>1, <2>1, <2>2, MAX_THREADSAssumption DEF Tid
<1>5. ASSUME v = u, NEW s, s \notin Early2, NEW t \in Tid, t < u,
             state' = [state EXCEPT ![t] = s]
      PROVE  \A x \in Tid : state'[x] \in Early2 <=> x >= v
  <2> HIDE DEF u, v
  <2>1. ~(t >= u)
    BY <1>1, <1>5, MAX_THREADSAssumption DEF Tid
  <2>2. \A x \in Tid : state'[x] = IF x = t THEN s ELSE state[x]
    BY <1>5
  <2> QED BY <1>2, <1>5, <2>1, <2>2
<1>6. CASE state' = state /\ v = u
  <2> HIDE DEF u, v
  <2> QED BY <1>2, <1>6
<1>7. CASE p = 0 /\ pc[0] = "PC_InitPool" /\ state' = [t \in Tid |-> "IDLE"]
  <2>1. u = 0
    BY <1>7
    DEF PoolInit, UpTo, Spawned, Joining, Exiting, ExitCounted, Described, Handed
  <2>2. v = 0
    BY <1>1, <1>7, <2>1
  <2>3. \A t \in Tid : t >= 0
    BY MAX_THREADSAssumption DEF Tid
  <2> HIDE DEF u, v
  <2> QED BY <1>7, <2>2, <2>3
<1>8. CASE /\ p = 0 /\ pc[0] = "PC_Claim"
           /\ state' = [state EXCEPT ![tid[0]] = "INITIALIZING"]
  <2>1. u = i /\ tid[0] = i /\ i \in Tid
    BY <1>8, ZeroProc, MAX_THREADSAssumption
    DEF UpTo, Spawned, Joining, Exiting, ExitCounted, Described, Handed,
        ScanFollows, TidInRange, Thread, Tid
  <2>2. v = u
    BY <1>1, <1>8
  <2>3. \A x \in Tid : state'[x] = IF x = i THEN "INITIALIZING" ELSE state[x]
    BY <1>8, <2>1
  <2>4. i >= i
    BY <2>1 DEF Tid
  <2> HIDE DEF u, v
  <2> QED BY <1>2, <2>1, <2>2, <2>3, <2>4, Zenon
<1>9. CASE /\ p = 0 /\ pc[0] = "PC_Describe" /\ pc'[0] = "SP_Acquire"
           /\ state' = [state EXCEPT ![tid[0]] = "STOPPED"]
  <2>1. tid[0] = i /\ i \in Tid
    BY <1>9, ZeroProc, MAX_THREADSAssumption
    DEF ScanFollows, TidInRange, Thread, Tid, Claimed
  <2>2. i' = i
    BY <1>9, StepMain DEF Joining, Exiting, ExitCounted
  <2>3. u = i /\ v = i + 1
    BY <1>9, <2>2
    DEF UpTo, Spawned, Joining, Exiting, ExitCounted, Described, Handed
  <2>4. \A x \in Tid : state'[x] = IF x = i THEN "STOPPED" ELSE state[x]
    BY <1>9, <2>1
  <2>5. \A x \in Tid : x >= i + 1 <=> (x >= i /\ x # i)
    BY <2>1 DEF Tid
  <2> HIDE DEF u, v
  <2> QED BY <1>2, <2>1, <2>3, <2>4, <2>5, Zenon
<1>10. CASE /\ pc[p] \in {"TC_Run", "TC_Finish"}
            /\ \E s \in {"RUNNING", "FINISHED"} : state' = [state EXCEPT ![tid[p]] = s]
  <2>1. pc[p] \in Running /\ v = u
    BY <1>1, <1>10 DEF Running
  <2> HIDE DEF u, v
  <2> QED BY <1>4, <1>5, <1>10, <2>1, Zenon
<1>11. CASE state' = state /\ pc[p] # "PC_Describe"
  <2>1. v = u
    BY <1>1, <1>11
  <2> HIDE DEF u, v
  <2> QED BY <1>6, <1>11, <2>1
<1>12. pc[p] = "TC_Clear" => pc[p] # "PC_Describe"
  OBVIOUS
<1> HIDE DEF u, v
<1> QED BY <1>7, <1>8, <1>9, <1>10, <1>11, <1>12, StepEntry, Zenon

-----------------------------------------------------------------------------
(* The inductive invariant.                                                *)
TInv ==
  /\ PInv
  /\ OneWord
  /\ OneHolder
  /\ NotYet
  /\ Returned
  /\ Entered
  /\ Callable
  /\ Terminating
  /\ Kinds

HIDE DEF ClientStep

(* The invariant holds at the start.                                       *)
LEMMA InitTInv == ClientInit => TInv
<1> SUFFICES ASSUME ClientInit PROVE TInv
  OBVIOUS
<1>1. PInv
  BY InitPInv
<1>2. \A p \in Proc : pc[p] = "US_Acquire"
  BY DEF ClientInit, UosInit
<1>3. i = 0 /\ UpTo(Described) = 0 /\ UpTo(Handed) = 0
  BY <1>2, ZeroProc
  DEF ClientInit, UpTo, Spawned, Joining, Exiting, ExitCounted, Described, Handed
<1>4. OneWord /\ OneHolder /\ Entered /\ Callable
  BY <1>2
  DEF OneWord, OneHolder, Holds, Running, Entered, Callable, ClientInit, UosInit,
      PthreadInit, ProcDeviceInit, Free, Null
<1>5. NotYet /\ Returned
  BY DEF NotYet, Returned, ClientInit
<1>6. Terminating
  BY <1>2, ZeroProc DEF Terminating, Exiting, ExitCounted, ClientInit, UosInit
<1>7. \A t \in Tid : t >= 0
  BY MAX_THREADSAssumption DEF Tid
<1>8. Kinds
  BY <1>3, <1>7 DEF Kinds, ClientInit, PthreadInit
<1> QED BY <1>1, <1>4, <1>5, <1>6, <1>8 DEF TInv

(* Every step keeps it.                                                    *)
LEMMA NextTInv == TInv /\ [ClientNext]_vars => TInv'
<1> SUFFICES ASSUME TInv, [ClientNext]_vars PROVE TInv'
  OBVIOUS
<1>1. PInv'
  BY NextPInv DEF TInv
<1>2. ASSUME NEW p \in Proc, ClientStep(p) PROVE TInv'
  <2> USE <1>2
  <2>1. clobbered => clobbered'
    BY StepOwners DEF TInv, PInv, IInv, ClientTypeOK, PthreadTypeOK
  <2>2. OneWord'
    BY StepOneWord DEF TInv, PInv, IInv, ClientTypeOK, PthreadTypeOK
  <2>3. OneHolder'
    BY <2>1, StepOneHolder DEF TInv
  <2>4. runs \in [Tid -> Nat] /\ returns \in [Tid -> Nat] /\ func \in [Tid -> BOOLEAN]
    BY DEF TInv, PInv, IInv, ClientTypeOK, PthreadTypeOK
  <2>5. NotYet' /\ Kinds'
    BY <2>4, StepNotYet, StepKinds DEF TInv
  <2>6. Callable' /\ Entered' /\ Returned'
    BY <2>1, <2>4, StepCallable DEF TInv
  <2>7. Terminating'
    BY StepTerm DEF TInv, PInv, IInv, ClientTypeOK, PthreadTypeOK
  <2> QED BY <1>1, <2>2, <2>3, <2>5, <2>6, <2>7 DEF TInv
<1>3. CASE UNCHANGED vars
  BY <1>1, <1>3
  DEF vars, lockVars, devVars, uosVars, localVars, poolVars, clientVars, TInv,
      OneWord, OneHolder, Holds, NotYet, UpTo, Spawned, Returned, Entered,
      Callable, Terminating, Kinds
<1> QED BY <1>2, <1>3, ZenonT(40) DEF ClientNext

(* So it always holds.                                                     *)
LEMMA ThreadInvariance == ClientSpec => []TInv
  BY InitTInv, NextTInv, PTL DEF ClientSpec

(* __thread_call: a thread's function is entered once, and no processor    *)
(* calls one that has been cleared (RunsOnce).                             *)
THEOREM EntersOnce == ClientSpec => []RunsOnce
<1>1. TInv => RunsOnce
  BY DEF TInv, Returned, Callable, RunsOnce
<1> QED BY <1>1, ThreadInvariance, PTL

(* Whoever runs a thread that has returned finds its function cleared, or  *)
(* is about to clear it.                                                   *)
LEMMA ReturnedIsLeft ==
  ASSUME TInv, ~clobbered, NEW q \in Proc, pc[q] \in Running, returns[tid[q]] >= 1
  PROVE  /\ pc[q] \notin {"TC_Call", "Body"} \cup InFunction
         /\ pc[q] = "TC_Test" => ~func[tid[q]]
<1> SUFFICES ASSUME pc[q] \in {"TC_Test", "TC_Call", "Body"} \cup InFunction,
                    pc[q] = "TC_Test" => func[tid[q]]
             PROVE  FALSE
  BY DEF TInv, PInv, IInv, ClientTypeOK, PthreadTypeOK
<1>1. tid[q] \in Tid /\ Holds(q, tid[q])
  BY RunningTids DEF TInv, Running
<1>2. pc[q] \notin InFunction
  <2>1. pc[q] \in InFunction => returns[tid[q]] = 0
    BY DEF TInv, Callable
  <2> QED BY <2>1
<1>3. func[tid[q]]
  BY <1>2 DEF TInv, Callable
<1>4. /\ returns[tid[q]] \in Nat /\ runs[tid[q]] \in Nat
      /\ returns[tid[q]] \leq runs[tid[q]]
  BY <1>1 DEF TInv, Returned, PInv, IInv, ClientTypeOK
<1>5. PICK r \in Proc : pc[r] \in InFunction \cup {"TC_Clear"} /\ tid[r] = tid[q]
  BY <1>1, <1>3, <1>4 DEF TInv, Entered
<1>6. Holds(r, tid[q])
  BY <1>5 DEF Holds, Running
<1>7. r = q
  BY <1>1, <1>6 DEF TInv, OneHolder
<1> QED BY <1>2, <1>5, <1>7

(* pthread_join: what the main thread has joined has returned, and no      *)
(* processor is inside it (JoinedIsDone).                                  *)
THEOREM JoinWaits == ClientSpec => []JoinedIsDone
<1>1. TInv => JoinedIsDone
  <2> SUFFICES ASSUME TInv, NEW p \in Proc, pc[p] \in Joining, NEW n \in 0 .. i - 1
               PROVE  /\ returns[threads[n]] >= 1
                      /\ ~clobbered => \A q \in Proc :
                           pc[q] \in {"TC_Call", "Body"} \cup InFunction =>
                             tid[q] # threads[n]
    BY DEF JoinedIsDone
  <2>1. p = 0
    BY DEF TInv, PInv, IInv, MainIsZero, Main, Joining
  <2>2. returns[threads[n]] >= 1
    BY <2>1 DEF TInv, PInv, Joins, Spawned
  <2>3. ASSUME ~clobbered, NEW q \in Proc,
               pc[q] \in {"TC_Call", "Body"} \cup InFunction, tid[q] = threads[n]
        PROVE  FALSE
    BY <2>2, <2>3, ReturnedIsLeft DEF Running
  <2> QED BY <2>2, <2>3
<1> QED BY <1>1, ThreadInvariance, PTL

-----------------------------------------------------------------------------
(* The refinement of ThreadLife.                                           *)

JoinedSet == Joined = IF Spawned THEN {threads[n] : n \in 0 .. i - 1} ELSE {}

(* The joined threads are those the second loop has counted.               *)
LEMMA JoinedIs == TInv => JoinedSet
<1> SUFFICES ASSUME TInv PROVE JoinedSet
  OBVIOUS
<1>1. \A p \in Proc : pc[p] \in Joining => p = 0
  BY DEF TInv, PInv, IInv, MainIsZero, Main, Joining
<1>2. (SHOULD_TERMINATE \/ \E p \in Proc : pc[p] \in Joining) <=> Spawned
  BY <1>1, ZeroProc DEF TInv, Terminating, Spawned
<1> QED BY <1>2 DEF Joined, JoinedSet

(* The same of the next state.                                             *)
LEMMA JoinedIsNext == TInv' => JoinedSet'
  BY JoinedIs, PTL

(* A return of pthread_join joins the thread it was called for.            *)
LEMMA StepJoined ==
  ASSUME TInv, TInv', NEW p \in Proc, ClientStep(p)
  PROVE  \/ Joined' = Joined
         \/ p = 0 /\ pc[0] = "PJ_Return" /\ Joined' = Joined \cup {threads[i]}
<1> HIDE DEF ClientStep
<1>1. Joined = IF Spawned THEN {threads[n] : n \in 0 .. i - 1} ELSE {}
  BY JoinedIs DEF JoinedSet
<1>2. Joined' = IF Spawned' THEN {threads'[n] : n \in 0 .. i' - 1} ELSE {}
  BY JoinedIsNext DEF JoinedSet
<1>3. Spawned => Spawned'
  BY StepMain, Zenon
  DEF TInv, PInv, IInv, ClientTypeOK, PthreadTypeOK, Spawned, Joining, Exiting,
      ExitCounted
<1>4. Spawned' => \/ Spawned /\ UNCHANGED <<i, threads>>
                  \/ pc[0] = "PC_Return" /\ i' = 0
                  \/ pc[0] = "PJ_Return" /\ p = 0 /\ i' = i + 1
                     /\ threads' = threads
  BY StepJoining, Zenon DEF TInv, PInv, IInv, ClientTypeOK, PthreadTypeOK
<1>5. pc[0] = "PC_Return" => ~Spawned
  BY DEF Spawned, Joining, Exiting, ExitCounted
<1>6. pc[0] = "PJ_Return" => Spawned
  BY DEF Spawned, Joining
<1>7. i \in Nat
  BY NTHREADSAssumption, MAX_THREADSAssumption DEF TInv, PInv, IInv, ClientTypeOK
<1>8. CASE ~Spawned'
  BY <1>1, <1>2, <1>3, <1>8
<1>9. CASE Spawned' /\ Spawned /\ UNCHANGED <<i, threads>>
  BY <1>1, <1>2, <1>9
<1>10. CASE Spawned' /\ pc[0] = "PC_Return" /\ i' = 0
  BY <1>1, <1>2, <1>5, <1>10
<1>11. CASE Spawned' /\ pc[0] = "PJ_Return" /\ p = 0 /\ i' = i + 1 /\ threads' = threads
  <2>1. 0 .. i' - 1 = (0 .. i - 1) \cup {i}
    BY <1>7, <1>11
  <2>2. Joined = {threads[n] : n \in 0 .. i - 1}
    BY <1>1, <1>6, <1>11
  <2>3. Joined' = {threads[n] : n \in (0 .. i - 1) \cup {i}}
    BY <1>2, <1>11, <2>1
  <2>4. Joined' = Joined \cup {threads[i]}
    BY ONLY <2>2, <2>3
  <2> QED BY <1>11, <2>4
<1> QED BY <1>4, <1>8, <1>9, <1>10, <1>11

(* The stage of a thread while the lock is sound. *)
StageValue ==
  ~clobbered => \A t \in Tid :
    Stage(t) = IF t \in Joined THEN "joined"
               ELSE IF returns[t] = 1 THEN "returned"
               ELSE IF runs[t] = 1 THEN "running"
               ELSE IF t >= UpTo(Described) THEN "none" ELSE "created"

(* The stage of a thread in terms of the counts and the histories.         *)
LEMMA StageIs == TInv => StageValue
<1> SUFFICES ASSUME TInv, ~clobbered, NEW t \in Tid
             PROVE  Stage(t) = IF t \in Joined THEN "joined"
                    ELSE IF returns[t] = 1 THEN "returned"
                    ELSE IF runs[t] = 1 THEN "running"
                    ELSE IF t >= UpTo(Described) THEN "none" ELSE "created"
  BY DEF StageValue
<1>1. ~(runs[t] > 1)
  <2>1. runs[t] \in Nat /\ runs[t] \leq 1
    BY DEF TInv, Returned, PInv, IInv, ClientTypeOK
  <2> QED BY <2>1
<1>2. state[t] \in {"IDLE", "INITIALIZING"} <=> t >= UpTo(Described)
  BY DEF TInv, Kinds
<1> QED BY <1>1, <1>2, Zenon DEF Stage

(* The same of the next state.                                             *)
LEMMA StageIsNext == TInv' => StageValue'
  BY StageIs, PTL

StageNumber ==
  ~clobbered => \A t \in Tid :
    /\ returns[t] \in {0, 1} /\ runs[t] \in {0, 1} /\ returns[t] \leq runs[t]
    /\ t \in Joined => returns[t] = 1
    /\ t >= UpTo(Handed) => runs[t] = 0
    /\ t \in Int /\ UpTo(Handed) \in Int /\ UpTo(Described) \in Int
    /\ UpTo(Handed) \leq UpTo(Described)

(* The histories and counts a stage is computed from agree.                *)
LEMMA StageNumbers == TInv => StageNumber
<1> SUFFICES ASSUME TInv, ~clobbered, NEW t \in Tid
             PROVE  /\ returns[t] \in {0, 1} /\ runs[t] \in {0, 1}
                       /\ returns[t] \leq runs[t]
                    /\ t \in Joined => returns[t] = 1
                    /\ t >= UpTo(Handed) => runs[t] = 0
                    /\ t \in Int /\ UpTo(Handed) \in Int /\ UpTo(Described) \in Int
                    /\ UpTo(Handed) \leq UpTo(Described)
  BY DEF StageNumber
<1>1. /\ runs[t] \in Nat /\ runs[t] \leq 1
      /\ returns[t] \in Nat /\ returns[t] \leq runs[t]
  BY DEF TInv, Returned, PInv, IInv, ClientTypeOK
<1>2. t \in Joined => returns[t] >= 1
  BY JoinedIs DEF JoinedSet, TInv, PInv, Joins
<1>3. t >= UpTo(Handed) => runs[t] = 0
  BY DEF TInv, NotYet
<1>4. i \in Nat /\ NTHREADS \in Nat
  BY NTHREADSAssumption, MAX_THREADSAssumption DEF TInv, PInv, IInv, ClientTypeOK
<1>5. /\ UpTo(Handed) \in Int /\ UpTo(Described) \in Int
      /\ UpTo(Handed) \leq UpTo(Described)
  BY <1>4 DEF UpTo, Described
<1>6. t \in Int
  BY MAX_THREADSAssumption DEF Tid
<1>7. returns[t] \in {0, 1} /\ runs[t] \in {0, 1} /\ (t \in Joined => returns[t] = 1)
  BY <1>1, <1>2
<1> QED BY <1>1, <1>3, <1>5, <1>6, <1>7

(* The same of the next state.                                             *)
LEMMA StageNumbersNext == TInv' => StageNumber'
  BY StageNumbers, PTL

(* A step changes one of the things the stages are computed from.          *)
LEMMA StepStages ==
  ASSUME TInv, TInv', NEW p \in Proc, ClientStep(p)
  PROVE  \/ UNCHANGED <<runs, returns, Joined, UpTo(Described)>>
         \/ /\ p = 0 /\ pc[0] = "PC_Describe" /\ UNCHANGED <<runs, returns, Joined>>
            /\ UpTo(Described) = i /\ UpTo(Described)' = i + 1
         \/ /\ pc[p] = "Body" /\ UNCHANGED <<returns, Joined, UpTo(Described)>>
            /\ runs' = [runs EXCEPT ![tid[p]] = @ + 1]
         \/ /\ pc[p] \in InFunction /\ UNCHANGED <<runs, Joined, UpTo(Described)>>
            /\ returns' = [returns EXCEPT ![tid[p]] = @ + 1]
         \/ /\ p = 0 /\ pc[0] = "PJ_Return"
               /\ UNCHANGED <<runs, returns, UpTo(Described)>>
            /\ Joined' = Joined \cup {threads[i]}
<1> HIDE DEF ClientStep
<1>1. \/ UpTo(Described)' = UpTo(Described)
      \/ p = 0 /\ pc[0] = "PC_Describe" /\ UpTo(Described) = i
         /\ UpTo(Described)' = i + 1
  BY StepUpTo, Zenon DEF TInv, PInv, IInv, ClientTypeOK, PthreadTypeOK
<1>2. /\ \/ runs' = runs
         \/ pc[p] = "Body" /\ runs' = [runs EXCEPT ![tid[p]] = @ + 1]
      /\ \/ returns' = returns
         \/ pc[p] \in InFunction /\ returns' = [returns EXCEPT ![tid[p]] = @ + 1]
  BY StepHistory, Zenon DEF TInv, PInv, IInv, ClientTypeOK, PthreadTypeOK
<1>3. \/ Joined' = Joined
      \/ p = 0 /\ pc[0] = "PJ_Return" /\ Joined' = Joined \cup {threads[i]}
  BY StepJoined
<1> QED BY ONLY <1>1, <1>2, <1>3

(* A step that changes the stage of one thread is a Move of it.            *)
LEMMA MoveOne ==
  ASSUME NEW t \in Tid, NEW from, NEW to, Stage(t) = from, Stage(t)' = to,
         \A x \in Tid : x # t => Stage(x)' = Stage(x)
  PROVE  Life!Move(t, from, to)
<1>1. [x \in Tid |-> Stage(x)]' = [x \in Tid |-> Stage(x)']
  OBVIOUS
<1>2. [x \in Tid |-> Stage(x)'] = [[x \in Tid |-> Stage(x)] EXCEPT ![t] = to]
  BY Zenon
<1> QED BY <1>1, <1>2 DEF Life!Move

(* Every step is a step of ThreadLife or leaves every stage as it is.      *)
LEMMA StepLife ==
  ASSUME TInv, TInv', NEW p \in Proc, ClientStep(p)
  PROVE  Life!Next \/ UNCHANGED [t \in Tid |-> Stage(t)]
<1> HIDE DEF ClientStep
<1>1. CASE clobbered'
  <2>1. \A t \in Tid : Stage(t)' = "lost"
    BY <1>1 DEF Stage
  <2> QED BY <2>1 DEF Life!Next, Life!Lose
<1>2. CASE ~clobbered'
  <2>1. ~clobbered
    BY <1>2, StepOwners, Zenon DEF TInv, PInv, IInv, ClientTypeOK, PthreadTypeOK
  <2>2. \A t \in Tid : Stage(t) = IF t \in Joined THEN "joined"
                    ELSE IF returns[t] = 1 THEN "returned"
                    ELSE IF runs[t] = 1 THEN "running"
                    ELSE IF t >= UpTo(Described) THEN "none" ELSE "created"
    BY <2>1, StageIs DEF StageValue
  <2>3. \A t \in Tid : Stage(t)' = IF t \in Joined' THEN "joined"
                    ELSE IF returns'[t] = 1 THEN "returned"
                    ELSE IF runs'[t] = 1 THEN "running"
                    ELSE IF t >= UpTo(Described)' THEN "none" ELSE "created"
    BY <1>2, StageIsNext DEF StageValue
  <2>4. \A t \in Tid :
          /\ returns[t] \in {0, 1} /\ runs[t] \in {0, 1} /\ returns[t] \leq runs[t]
          /\ t \in Joined => returns[t] = 1
          /\ t >= UpTo(Handed) => runs[t] = 0
          /\ t \in Int /\ UpTo(Handed) \in Int /\ UpTo(Described) \in Int
          /\ UpTo(Handed) \leq UpTo(Described)
    BY <2>1, StageNumbers DEF StageNumber
  <2>5. \A t \in Tid : runs'[t] \in {0, 1}
    BY <1>2, StageNumbersNext DEF StageNumber
  <2>6. runs \in [Tid -> Nat] /\ returns \in [Tid -> Nat]
    BY DEF TInv, PInv, IInv, ClientTypeOK
  <2>7. CASE UNCHANGED <<runs, returns, Joined, UpTo(Described)>>
    <3>1. \A t \in Tid : Stage(t)' = Stage(t)
      BY <2>2, <2>3, <2>7
    <3> QED BY <3>1
  <2>8. CASE /\ p = 0 /\ pc[0] = "PC_Describe"
                /\ UNCHANGED <<runs, returns, Joined>>
             /\ UpTo(Described) = i /\ UpTo(Described)' = i + 1
    <3>1. i \in Tid /\ UpTo(Handed) = i
      BY <2>8, ZeroProc, MAX_THREADSAssumption
      DEF TInv, PInv, IInv, ClientTypeOK, PthreadTypeOK, ScanFollows, Claimed, Described,
          Handed,
          TidInRange, Thread, Tid, UpTo, Spawned, Joining, Exiting, ExitCounted
    <3>2. PICK t \in Tid : t = i
      BY <3>1
    <3>3. t >= i /\ t \in Int
      BY <3>2, MAX_THREADSAssumption DEF Tid
    <3>4. runs[t] = 0 /\ returns[t] = 0 /\ t \notin Joined
      BY <2>4, <3>1, <3>3
    <3>5. \A x \in Tid : x # t => (x >= i <=> x >= i + 1)
      BY <3>2, <3>3, MAX_THREADSAssumption DEF Tid
    <3>6. ~(t >= i + 1)
      BY <3>2, <3>3
    <3>7. Stage(t) = "none"
      BY <2>2, <2>8, <3>3, <3>4
    <3>8. Stage(t)' = "created"
      BY <2>3, <2>8, <3>4, <3>6
    <3>9. \A x \in Tid : x # t => Stage(x)' = Stage(x)
      BY <2>2, <2>3, <2>8, <3>5
    <3>10. Life!Move(t, "none", "created")
      BY <3>7, <3>8, <3>9, MoveOne
    <3> QED BY <3>10 DEF Life!Next, Life!Create
  <2>9. CASE /\ pc[p] = "Body" /\ UNCHANGED <<returns, Joined, UpTo(Described)>>
             /\ runs' = [runs EXCEPT ![tid[p]] = @ + 1]
    <3>1. tid[p] \in Tid /\ tid[p] < UpTo(Handed)
      BY <2>9, RunningTids DEF TInv, Running
    <3>2. PICK t \in Tid : t = tid[p]
      BY <3>1
    <3>3. runs[t] = 0 /\ runs'[t] = 1
      BY <2>4, <2>5, <2>6, <2>9, <3>2
    <3>4. returns[t] = 0 /\ t \notin Joined
      BY <2>4, <3>3
    <3>5. ~(t >= UpTo(Described))
      BY <2>4, <3>1, <3>2
    <3>6. Stage(t) = "created"
      BY <2>2, <3>3, <3>4, <3>5
    <3>7. Stage(t)' = "running"
      BY <2>3, <2>9, <3>3, <3>4
    <3>8. \A x \in Tid : x # t => Stage(x)' = Stage(x)
      BY <2>2, <2>3, <2>9, <3>2
    <3>9. Life!Move(t, "created", "running")
      BY <3>6, <3>7, <3>8, MoveOne
    <3> QED BY <3>9 DEF Life!Next, Life!Enter
  <2>10. CASE /\ pc[p] \in InFunction /\ UNCHANGED <<runs, Joined, UpTo(Described)>>
              /\ returns' = [returns EXCEPT ![tid[p]] = @ + 1]
    <3>1. tid[p] \in Tid /\ runs[tid[p]] >= 1 /\ returns[tid[p]] = 0
      BY <2>1, <2>10, RunningTids DEF TInv, Running, Callable
    <3>2. PICK t \in Tid : t = tid[p]
      BY <3>1
    <3>3. runs[t] = 1 /\ returns[t] = 0 /\ t \notin Joined
      BY <2>4, <3>1, <3>2
    <3>4. returns'[t] = 1
      BY <2>6, <2>10, <3>2, <3>3
    <3>5. Stage(t) = "running"
      BY <2>2, <3>3
    <3>6. Stage(t)' = "returned"
      BY <2>3, <2>10, <3>3, <3>4
    <3>7. \A x \in Tid : x # t => Stage(x)' = Stage(x)
      BY <2>2, <2>3, <2>10, <3>2
    <3>8. Life!Move(t, "running", "returned")
      BY <3>5, <3>6, <3>7, MoveOne
    <3> QED BY <3>8 DEF Life!Next, Life!Return
  <2>11. CASE /\ p = 0 /\ pc[0] = "PJ_Return"
                 /\ UNCHANGED <<runs, returns, UpTo(Described)>>
              /\ Joined' = Joined \cup {threads[i]}
    <3>1. threads[i] = tid[0] /\ returns[tid[0]] >= 1
      BY <2>11 DEF TInv, PInv, Joins
    <3>2. tid[0] \in Tid
      <4>1. tid[0] \in 0 .. MAX_THREADS /\ tid[0] < MAX_THREADS
        BY <2>11, ZeroProc
        DEF TInv, PInv, IInv, ClientTypeOK, PthreadTypeOK, TidInRange, Thread
      <4> QED BY <4>1, MAX_THREADSAssumption DEF Tid
    <3>3. PICK t \in Tid : t = threads[i]
      BY <3>1, <3>2
    <3>4. returns[t] = 1
      BY <2>4, <3>1, <3>3
    <3>5. Stage(t)' = "joined"
      BY <2>3, <2>11, <3>3
    <3>6. \A x \in Tid : x # t => Stage(x)' = Stage(x)
      BY <2>2, <2>3, <2>11, <3>3
    <3>7. CASE t \in Joined
      <4>1. Stage(t) = "joined"
        BY <2>2, <3>7
      <4>2. \A x \in Tid : Stage(x)' = Stage(x)
        BY <3>5, <3>6, <4>1
      <4> QED BY <4>2
    <3>8. CASE t \notin Joined
      <4>1. Stage(t) = "returned"
        BY <2>2, <3>4, <3>8
      <4>2. Life!Move(t, "returned", "joined")
        BY <3>5, <3>6, <4>1, MoveOne
      <4> QED BY <4>2 DEF Life!Next, Life!Join
    <3> QED BY <3>7, <3>8
  <2> QED BY <2>7, <2>8, <2>9, <2>10, <2>11, StepStages
<1> QED BY <1>1, <1>2

(* pthread_create, __thread_call and pthread_join give every thread the    *)
(* life the library promises, until the lock is clobbered                  *)
(* (ThreadLifeSpec).                                                       *)
THEOREM ThreadLifeRefinement == ClientSpec => ThreadLifeSpec
<1>1. ClientInit => Life!Init
  <2> SUFFICES ASSUME ClientInit PROVE Life!Init
    OBVIOUS
  <2>1. TInv /\ ~clobbered
    BY InitTInv DEF ClientInit, UosInit, LockInit
  <2>2. \A t \in Tid : returns[t] = 0 /\ runs[t] = 0 /\ t >= 0
    BY MAX_THREADSAssumption DEF ClientInit, Tid
  <2>3. \A p \in Proc : pc[p] = "US_Acquire"
    BY DEF ClientInit, UosInit
  <2>4. UpTo(Described) = 0 /\ ~Spawned
    BY <2>3, ZeroProc
    DEF ClientInit, UpTo, Spawned, Joining, Exiting, ExitCounted, Described, Handed
  <2>5. \A t \in Tid : Stage(t) = "none"
    BY <2>1, <2>2, <2>4, StageIs, JoinedIs DEF StageValue, JoinedSet
  <2> QED BY <2>5 DEF Life!Init
<1>2. TInv /\ TInv' /\ [ClientNext]_vars => [Life!Next]_([t \in Tid |-> Stage(t)])
  <2> SUFFICES ASSUME TInv, TInv', [ClientNext]_vars
               PROVE  Life!Next \/ UNCHANGED [t \in Tid |-> Stage(t)]
    OBVIOUS
  <2>1. CASE UNCHANGED vars
    <3>1. \A t \in Tid : Stage(t)' = Stage(t)
      BY <2>1 DEF vars, lockVars, uosVars, poolVars, clientVars, Stage, Joined
    <3> QED BY <3>1
  <2> QED BY <2>1, StepLife, ZenonT(40) DEF ClientNext
<1> QED BY <1>1, <1>2, ThreadInvariance, PTL DEF ClientSpec, ThreadLifeSpec, Life!Spec

-----------------------------------------------------------------------------
(***************************************************************************)
(* Part 4: nobody waits in vain.                                           *)
(*                                                                         *)
(* LInv adds to TInv where a processor that waits stands to the others:    *)
(* the words that name threads are not lost (Served), the pids below the   *)
(* count have been given (BootFollows), who waits in uos_exit has resumed  *)
(* everybody (Resumed), and the count of uos_exit is the number of those   *)
(* that have been counted (ExitFollows).                                   *)
(***************************************************************************)

(* Processor 0's own word never holds a descriptor.                        *)
OwnWord == procs[0] = Null

(* The word a descriptor is about to be written to is free.                *)
Aims == \A p \in Proc : pc[p] = "SP_Write" => procs[idx[p]] = Free

(* A thread that has been handed out has a word until the program ends.    *)
Served ==
  pc[0] \notin Exiting =>
    \A t \in Tid : t < UpTo(Handed) => \E n \in Proc : procs[n] = Descriptor(t)

(* The array of identifiers holds identifiers of the application's own.    *)
Names == \A n \in 0 .. NTHREADS - 1 : threads[n] < NTHREADS

(* Who has gone through the loop of uos_exit has resumed every processor.  *)
Resumed ==
  \A p \in Proc : pc[p] \in {"UE_Release", "UE_Wait", "Halted"} =>
    \A n \in Proc : procs[n] # Free

(* No increment is lost while the lock is sound: the counters are what     *)
(* they count, and every pid below the first one is somebody's.            *)
ExitFollows ==
  ~clobbered => /\ exited = Cardinality(Counted)
                /\ \A p \in Proc : pc[p] = "UE_Store" => reg[p] = exited

BootFollows ==
  ~clobbered =>
    /\ initialized_cores = Cardinality(Booted)
    /\ \A k \in Proc : k < initialized_cores => \E q \in Proc : pid[q] = k

-----------------------------------------------------------------------------
(* What a step does to the parts of the invariant.                         *)

USE DEF ClientStep, Jump

(* What is written to the words, and where.                                *)
LEMMA StepProcs ==
  ASSUME pc \in [Proc -> ClientLabel], NEW p \in Proc, ClientStep(p)
  PROVE  \/ procs' = procs /\ pc[p] # "SP_Write"
         \/ pc[p] = "US_InitOwn" /\ procs' = [procs EXCEPT ![0] = Null]
         \/ pc[p] = "US_InitOther" /\ procs' = [procs EXCEPT ![idx[p]] = Free]
         \/ pc[p] = "SP_Write" /\ procs' = [procs EXCEPT ![idx[p]] = Descriptor(tid[p])]
         \/ pc[p] = "UE_Resume" /\ procs' = [procs EXCEPT ![idx[p]] = Null]
<1> USE DEF ProcWrite, lockVars, devVars, uosVars, localVars, poolVars, clientVars
<1>1. CASE UosStep(p) /\ UNCHANGED poolVars /\ UNCHANGED clientVars
  BY <1>1, Zenon
<1>2. CASE PthreadStep(p) /\ UNCHANGED clientVars
  BY <1>2
<1>3. CASE UseStep(p)
  BY <1>3
<1> QED BY <1>1, <1>2, <1>3

(* The search leaves its loop at a free word, the loop of uos_exit when it *)
(* has written the last one.                                               *)
LEMMA StepLeaves ==
  ASSUME pc \in [Proc -> ClientLabel], idx \in [Proc -> 0 .. NPROCS],
         procs \in [Proc -> Word], NEW p \in Proc, ClientStep(p)
  PROVE  /\ \A q \in Proc : pc'[q] = "SP_Write" =>
              \/ q # p /\ pc[q] = "SP_Write" /\ idx'[q] = idx[q]
              \/ pc[q] = "SP_Scan" /\ procs[idx[q]] = Free /\ idx'[q] = idx[q]
                 /\ procs' = procs
         /\ \A q \in Proc : pc'[q] \in {"UE_Release", "UE_Wait", "Halted"} =>
              \/ pc[q] \in {"UE_Release", "UE_Wait", "Halted"}
              \/ pc[q] = "UE_Resume" /\ idx[q] + 1 = NPROCS
                 /\ (idx[q] \in Proc => procs'[idx[q]] # Free)
<1> USE DEF ProcWrite, Free, Null, lockVars, devVars, uosVars, localVars,
        poolVars, clientVars
<1>1. CASE UosStep(p) /\ UNCHANGED poolVars /\ UNCHANGED clientVars
  <2>1. CASE SP_Acquire(p)
    BY <1>1, <2>1
  <2>2. CASE SP_Scan(p)
    BY <1>1, <2>2
  <2>3. CASE UE_SetTerm(p)
    BY <1>1, <2>3
  <2>4. CASE UE_Resume(p)
    BY <1>1, <2>4
  <2>5. CASE US_Acquire(p) \/ US_Check(p) \/ US_InitOwn(p) \/ US_InitOther(p)
            \/ US_SetInit(p) \/ US_Load(p) \/ US_Store(p) \/ US_Release(p) \/
            AL_Test(p) \/ AL_Acquire(p) \/ AL_Read(p) \/ AL_Release(p) \/
            SP_Write(p) \/ SP_Release1(p) \/ SP_Release2(p) \/ SP_Fail(p) \/
            UM_Terminate(p) \/ UE_Acquire(p) \/ UE_Load(p) \/ UE_Store(p) \/
            UE_Release(p) \/ UE_Wait(p)
    BY <1>1, <2>5
  <2> QED BY <1>1, <2>1, <2>2, <2>3, <2>4, <2>5
<1>2. CASE PthreadStep(p) /\ UNCHANGED clientVars
  BY <1>2
<1>3. CASE UseStep(p)
  BY <1>3
<1> QED BY <1>1, <1>2, <1>3

(* Who boots, or is counted in uos_exit, stores the count.                 *)
LEMMA StepCounts ==
  ASSUME pc \in [Proc -> ClientLabel], pid \in [Proc -> {-1} \cup Proc],
         reg \in [Proc -> Int], NEW p \in Proc, ClientStep(p)
  PROVE  /\ \A q \in Proc : pc'[q] \notin PreBoot /\ pc[q] \in PreBoot =>
              q = p /\ pc[q] = "US_Store"
         /\ pc[p] = "US_Store" => /\ pc'[p] = "US_Release"
                                  /\ initialized_cores' = reg[p] + 1
                                  /\ pid' = [pid EXCEPT ![p] = reg[p]]
         /\ \A q \in Proc : pc'[q] \in ExitCounted /\ pc[q] \notin ExitCounted =>
              q = p /\ pc[q] = "UE_Store"
         /\ pc[p] = "UE_Store" => pc'[p] = "UE_SetTerm" /\ exited' = reg[p] + 1
<1> USE DEF PreBoot, BootInit, ExitCounted, lockVars, devVars, uosVars, localVars,
        poolVars, clientVars
<1>1. CASE UosStep(p) /\ UNCHANGED poolVars /\ UNCHANGED clientVars
  BY <1>1
<1>2. CASE PthreadStep(p) /\ UNCHANGED clientVars
  BY <1>2
<1>3. CASE UseStep(p)
  BY <1>3
<1> QED BY <1>1, <1>2, <1>3

(* An identifier is stored when pthread_create has returned it.            *)
LEMMA StepNamed ==
  ASSUME pc \in [Proc -> ClientLabel], NEW p \in Proc, ClientStep(p)
  PROVE  \/ threads' = threads /\ pc[p] # "PC_Return"
         \/ pc[p] = "PC_Return" /\ threads' = [threads EXCEPT ![i] = tid[p]]
<1> USE DEF lockVars, devVars, uosVars, localVars, poolVars, clientVars
<1>1. CASE UosStep(p) /\ UNCHANGED poolVars /\ UNCHANGED clientVars
  BY <1>1
<1>2. CASE PthreadStep(p) /\ UNCHANGED clientVars
  BY <1>2
<1>3. CASE UseStep(p)
  BY <1>3
<1> QED BY <1>1, <1>2, <1>3

(* The search passes by processor 0's word, which is not free.             *)
LEMMA StepOwnWord ==
  ASSUME pc \in [Proc -> ClientLabel], procs \in [Proc -> Word],
         idx \in [Proc -> 0 .. NPROCS], BootIdx, Aims, OwnWord,
         NEW p \in Proc, ClientStep(p)
  PROVE  OwnWord'
<1> HIDE DEF ClientStep
<1> USE ZeroProc DEF OwnWord, Free, Null
<1>1. CASE procs' = procs
  BY <1>1
<1>2. CASE procs' = [procs EXCEPT ![0] = Null]
  BY <1>2
<1>3. CASE pc[p] = "US_InitOther" /\ procs' = [procs EXCEPT ![idx[p]] = Free]
  BY <1>3 DEF BootIdx
<1>4. CASE pc[p] = "SP_Write" /\ procs' = [procs EXCEPT ![idx[p]] = Descriptor(tid[p])]
  BY <1>4 DEF Aims
<1>5. CASE procs' = [procs EXCEPT ![idx[p]] = Null]
  BY <1>5
<1> QED BY <1>1, <1>2, <1>3, <1>4, <1>5, StepProcs, Zenon

(* Only processor 0 gives words away before the program ends, so the word  *)
(* its search has found stays free until it writes to it.                  *)
LEMMA StepAims ==
  ASSUME pc \in [Proc -> ClientLabel], procs \in [Proc -> Word],
         idx \in [Proc -> 0 .. NPROCS], MainIsZero, InitByZero, Terminating, Aims,
         NEW p \in Proc, ClientStep(p)
  PROVE  Aims'
<1> HIDE DEF ClientStep
<1> SUFFICES ASSUME NEW q \in Proc, pc'[q] = "SP_Write"
             PROVE  procs'[idx'[q]] = Free
  BY DEF Aims
<1>1. CASE pc[q] = "SP_Scan" /\ procs[idx[q]] = Free /\ idx'[q] = idx[q] /\ procs' = procs
  BY <1>1
<1>2. CASE q # p /\ pc[q] = "SP_Write" /\ idx'[q] = idx[q]
  <2>1. q = 0 /\ p # 0
    BY <1>2 DEF MainIsZero, Main
  <2>2. pc[p] # "SP_Write" /\ pc[p] \notin BootInit
    BY <2>1 DEF MainIsZero, Main, InitByZero
  <2>3. pc[p] # "UE_Resume"
    BY <1>2, <2>1 DEF Terminating, Exiting, ExitCounted
  <2>4. procs' = procs
    BY <2>2, <2>3, StepProcs DEF BootInit
  <2> QED BY <1>2, <2>4 DEF Aims
<1> QED BY <1>1, <1>2, StepLeaves

(* Who is in uos_exit stays there.                                         *)
LEMMA StepExits ==
  ASSUME pc \in [Proc -> ClientLabel], NEW p \in Proc, ClientStep(p)
  PROVE  \A q \in Proc : pc[q] \in Exiting => pc'[q] \in Exiting
<1> USE DEF Exiting, ExitCounted
<1>1. CASE UosStep(p) /\ UNCHANGED poolVars /\ UNCHANGED clientVars
  BY <1>1
<1>2. CASE PthreadStep(p) /\ UNCHANGED clientVars
  BY <1>2
<1>3. CASE UseStep(p)
  BY <1>3
<1> QED BY <1>1, <1>2, <1>3

(* A word that names a thread is written to by uos_exit only.              *)
LEMMA StepServed ==
  ASSUME TInv, Aims, Served, NEW p \in Proc, ClientStep(p)
  PROVE  Served'
<1> HIDE DEF ClientStep
<1> USE DEF TInv, PInv, IInv, ClientTypeOK, PthreadTypeOK
<1> SUFFICES ASSUME pc'[0] \notin Exiting, NEW t \in Tid, t < UpTo(Handed)'
             PROVE  \E n \in Proc : procs'[n] = Descriptor(t)
  BY DEF Served, Descriptor
<1>1. pc[0] \notin Exiting
  BY ZeroProc, StepExits
<1>2. t \in Int /\ Descriptor(t) \notin {Free, Null}
  BY MAX_THREADSAssumption DEF Tid, Descriptor, Free, Null
<1>3. pc[p] # "UE_Resume"
  BY <1>1 DEF Terminating, Exiting, ExitCounted
<1>4. ASSUME NEW n \in Proc, procs[n] = Descriptor(t)
      PROVE  procs'[n] = Descriptor(t)
  <2>1. CASE procs' = procs
    BY <1>4, <2>1
  <2>2. CASE pc[p] = "US_InitOwn" \/ pc[p] = "US_InitOther"
    <3>1. p = 0 /\ ~gLockPool
      BY <2>2 DEF InitByZero, BootInit, PreBoot
    <3>2. UpTo(Handed) = 0 /\ i = 0
      BY <2>2, <3>1
      DEF PoolInit, UpTo, Spawned, Joining, Exiting, ExitCounted, Handed
    <3>3. procs[n] \leq 0 /\ procs[n] \in Int
      BY <3>2, MAX_THREADSAssumption DEF Given, Word, Free
    <3> QED BY <1>2, <1>4, <3>3, MAX_THREADSAssumption DEF Tid, Descriptor
  <2>3. CASE pc[p] = "SP_Write" /\ procs' = [procs EXCEPT ![idx[p]] = Descriptor(tid[p])]
    <3>1. n # idx[p]
      BY <1>2, <1>4, <2>3 DEF Aims
    <3> QED BY <1>4, <2>3, <3>1
  <2> QED BY <1>3, <2>1, <2>2, <2>3, StepProcs
<1>5. CASE t < UpTo(Handed)
  BY <1>1, <1>4, <1>5 DEF Served
<1>6. CASE p = 0 /\ pc[0] = "SP_Write" /\ UpTo(Handed) = i /\ UpTo(Handed)' = i + 1
           /\ ~(t < UpTo(Handed))
  <2>1. i \in Int
    BY NTHREADSAssumption, MAX_THREADSAssumption
  <2>2. t = i
    BY <1>2, <1>6, <2>1
  <2>3. tid[0] = i
    BY <1>6 DEF ScanFollows, Claimed, Described
  <2>4. procs' = [procs EXCEPT ![idx[0]] = Descriptor(tid[0])]
    BY <1>6, StepProcs, Zenon
  <2>5. idx[0] \in Proc
    BY <1>6, ZeroProc, NPROCSAssumption DEF IdxInRange, Proc
  <2> QED BY <2>2, <2>3, <2>4, <2>5
<1> QED BY <1>5, <1>6, StepUpTo

(* The application's identifiers are those pthread_create has returned.    *)
LEMMA StepNames ==
  ASSUME TInv, Names, NEW p \in Proc, ClientStep(p)
  PROVE  Names'
<1> HIDE DEF ClientStep
<1> USE DEF TInv, PInv, IInv, ClientTypeOK, PthreadTypeOK
<1>1. CASE threads' = threads
  BY <1>1 DEF Names
<1>2. CASE pc[p] = "PC_Return" /\ threads' = [threads EXCEPT ![i] = tid[p]]
  <2>1. p = 0
    BY <1>2 DEF MainIsZero, Main
  <2>2. tid[p] = i
    BY <1>2, <2>1 DEF ScanFollows, Claimed, Described, Handed
  <2>3. i < NTHREADS
    BY <1>2, <2>1 DEF CounterInRange, Exiting, ExitCounted
  <2> QED BY <1>2, <2>2, <2>3 DEF Names
<1> QED BY <1>1, <1>2, StepNamed

(* Words given stay given.                                                 *)
LEMMA StepResumed ==
  ASSUME TInv, Resumed, NEW p \in Proc, ClientStep(p),
         \A n \in Proc : procs[n] # Free => procs'[n] # Free
  PROVE  Resumed'
<1> HIDE DEF ClientStep
<1> USE DEF TInv, PInv, IInv, ClientTypeOK, PthreadTypeOK
<1> SUFFICES ASSUME NEW q \in Proc, pc'[q] \in {"UE_Release", "UE_Wait", "Halted"},
                    NEW n \in Proc
             PROVE  procs'[n] # Free
  BY DEF Resumed
<1>1. CASE pc[q] \in {"UE_Release", "UE_Wait", "Halted"}
  BY <1>1 DEF Resumed
<1>2. CASE /\ pc[q] = "UE_Resume" /\ idx[q] + 1 = NPROCS
           /\ idx[q] \in Proc => procs'[idx[q]] # Free
  <2>1. NPROCS \in Nat /\ idx[q] \in 0 .. NPROCS
    BY NPROCSAssumption
  <2>2. n = idx[q] \/ n < idx[q]
    BY ONLY <1>2, <2>1, n \in Proc DEF Proc
  <2> QED BY <1>2, <2>2 DEF Scanned
<1> QED BY <1>1, <1>2, StepLeaves

(* One more has been counted.                                              *)
LEMMA OneMore ==
  ASSUME NEW S \in SUBSET Proc, NEW p \in Proc, p \notin S
  PROVE  Cardinality(S \cup {p}) = Cardinality(S) + 1
<1>1. IsFiniteSet(Proc)
  BY FS_Interval, NPROCSAssumption DEF Proc
<1>2. IsFiniteSet(S)
  BY <1>1, FS_Subset
<1> QED BY <1>2, FS_AddElement

(* No two processors are between the load and the store of an increment.   *)
LEMMA StepExitFollows ==
  ASSUME TInv, ExitFollows, NEW p \in Proc, ClientStep(p), clobbered => clobbered'
  PROVE  ExitFollows'
<1> HIDE DEF ClientStep
<1> USE DEF TInv, PInv, IInv, ClientTypeOK, PthreadTypeOK
<1> SUFFICES ASSUME ~clobbered'
             PROVE  /\ exited' = Cardinality(Counted')
                    /\ \A q \in Proc : pc'[q] = "UE_Store" => reg'[q] = exited'
  BY DEF ExitFollows, Counted
<1>1. ~clobbered
  OBVIOUS
<1>2. \A q \in Proc : pc[q] = "UE_Store" /\ pc[p] = "UE_Store" => q = p
  BY <1>1 DEF OwnersMatch, ExclusiveOwner, Inside, KernelSection
<1>3. CASE pc[p] = "UE_Store"
  <2>1. pc'[p] = "UE_SetTerm" /\ exited' = reg[p] + 1
    BY <1>3, StepCounts
  <2>2. Counted' = Counted \cup {p}
    <3>1. \A q \in Proc : pc[q] \in ExitCounted => pc'[q] \in ExitCounted
      BY StepForward
    <3>2. \A q \in Proc : pc'[q] \in ExitCounted /\ pc[q] \notin ExitCounted => q = p
      BY StepCounts
    <3> QED BY <2>1, <3>1, <3>2 DEF Counted, ExitCounted
  <2>3. p \notin Counted
    BY <1>3 DEF Counted, ExitCounted
  <2>4. Cardinality(Counted') = Cardinality(Counted) + 1
    BY <2>2, <2>3, OneMore DEF Counted
  <2>5. \A q \in Proc : pc'[q] # "UE_Store"
    <3>1. \A q \in Proc : q # p => pc'[q] = pc[q]
      BY StepForward
    <3> QED BY <1>2, <1>3, <2>1, <3>1
  <2> QED BY <1>1, <1>3, <2>1, <2>4, <2>5 DEF ExitFollows
<1>4. CASE pc[p] # "UE_Store"
  <2>1. exited' = exited
    BY <1>4, StepExited
  <2>2. Counted' = Counted
    BY <1>4, StepForward, StepCounts DEF Counted
  <2>3. \A q \in Proc : pc'[q] = "UE_Store" => reg'[q] = exited
    BY <1>1, StepExited DEF ExitFollows
  <2> QED BY <1>1, <2>1, <2>2, <2>3 DEF ExitFollows
<1> QED BY <1>3, <1>4

(* The same of the boot, and the pid that is taken is the next one.        *)
LEMMA StepBootFollows ==
  ASSUME TInv, BootFollows, NEW p \in Proc, ClientStep(p), clobbered => clobbered'
  PROVE  BootFollows'
<1> HIDE DEF ClientStep
<1> USE DEF TInv, PInv, IInv, ClientTypeOK, PthreadTypeOK
<1> SUFFICES ASSUME ~clobbered'
             PROVE  /\ initialized_cores' = Cardinality(Booted')
                    /\ \A k \in Proc : k < initialized_cores' =>
                         \E q \in Proc : pid'[q] = k
  BY DEF BootFollows, Booted
<1>1. ~clobbered
  OBVIOUS
<1>2. CASE pc[p] = "US_Store"
  <2>1. /\ pc'[p] = "US_Release"
        /\ initialized_cores' = reg[p] + 1
        /\ pid' = [pid EXCEPT ![p] = reg[p]]
    BY <1>2, StepCounts
  <2>2. Booted' = Booted \cup {p}
    <3>1. \A q \in Proc : pc[q] \notin PreBoot => pc'[q] \notin PreBoot
      BY StepForward
    <3>2. \A q \in Proc : pc'[q] \notin PreBoot /\ pc[q] \in PreBoot => q = p
      BY StepCounts
    <3> QED BY <2>1, <3>1, <3>2 DEF Booted, PreBoot, BootInit
  <2>3. p \notin Booted
    BY <1>2 DEF Booted, PreBoot
  <2>4. Cardinality(Booted') = Cardinality(Booted) + 1
    BY <2>2, <2>3, OneMore DEF Booted
  <2>5. reg[p] = initialized_cores
    BY <1>1, <1>2 DEF PidsFollow
  <2>6. pid[p] = -1
    BY <1>2 DEF NoPidYet, PreBoot
  <2>7. ASSUME NEW k \in Proc, k < initialized_cores + 1
        PROVE  \E q \in Proc : pid'[q] = k
    <3>1. CASE k = initialized_cores
      BY <2>1, <2>5, <3>1
    <3>2. CASE k < initialized_cores
      <4>1. PICK q \in Proc : pid[q] = k
        BY <1>1, <3>2 DEF BootFollows
      <4>2. q # p
        BY <2>6, <4>1 DEF Proc
      <4> QED BY <2>1, <4>1, <4>2
    <3> QED BY <2>7, <3>1, <3>2, NPROCSAssumption DEF Proc
  <2> QED BY <1>1, <2>1, <2>4, <2>5, <2>7 DEF BootFollows
<1>3. CASE pc[p] # "US_Store"
  <2>1. initialized_cores' = initialized_cores /\ pid' = pid
    BY <1>3, StepCores
  <2>2. Booted' = Booted
    BY <1>3, StepForward, StepCounts DEF Booted
  <2> QED BY <1>1, <2>1, <2>2 DEF BootFollows
<1> QED BY <1>2, <1>3

-----------------------------------------------------------------------------
(* The inductive invariant.                                                *)
LInv ==
  /\ TInv
  /\ OwnWord
  /\ Aims
  /\ Served
  /\ Names
  /\ Resumed
  /\ ExitFollows
  /\ BootFollows

HIDE DEF ClientStep

(* The invariant holds at the start.                                       *)
LEMMA InitLInv == ClientInit => LInv
<1> SUFFICES ASSUME ClientInit PROVE LInv
  OBVIOUS
<1>1. TInv
  BY InitTInv
<1>2. \A p \in Proc : pc[p] = "US_Acquire"
  BY DEF ClientInit, UosInit
<1>3. UpTo(Handed) = 0
  BY <1>2, ZeroProc
  DEF ClientInit, UpTo, Spawned, Joining, Exiting, ExitCounted, Handed
<1>4. \A t \in Tid : ~(t < 0)
  BY MAX_THREADSAssumption DEF Tid
<1>5. OwnWord /\ Aims /\ Served /\ Resumed
  BY <1>2, <1>3, <1>4, ZeroProc
  DEF OwnWord, Aims, Served, Resumed, ClientInit, UosInit, ProcDeviceInit
<1>6. Names
  BY NTHREADSAssumption, MAX_THREADSAssumption DEF Names, ClientInit
<1>7. Counted = {} /\ Booted = {}
  BY <1>2 DEF Counted, Booted, ExitCounted, PreBoot
<1>8. Cardinality({}) = 0
  BY FS_EmptySet
<1>9. ExitFollows /\ BootFollows
  BY <1>2, <1>7, <1>8 DEF ExitFollows, BootFollows, ClientInit, UosInit, Proc
<1> QED BY <1>1, <1>5, <1>6, <1>9 DEF LInv

(* Every step keeps it.                                                    *)
LEMMA NextLInv == LInv /\ [ClientNext]_vars => LInv'
<1> SUFFICES ASSUME LInv, [ClientNext]_vars PROVE LInv'
  OBVIOUS
<1>1. TInv'
  BY NextTInv DEF LInv
<1>2. ASSUME NEW p \in Proc, ClientStep(p) PROVE LInv'
  <2> USE <1>2
  <2>1. clobbered => clobbered'
    BY StepOwners DEF LInv, TInv, PInv, IInv, ClientTypeOK, PthreadTypeOK
  <2>2. \A n \in Proc : procs[n] # Free => procs'[n] # Free
    BY StepWords DEF LInv, TInv, PInv, IInv, ClientTypeOK, PthreadTypeOK
  <2>3. OwnWord' /\ Aims'
    BY StepOwnWord, StepAims DEF LInv, TInv, PInv, IInv, ClientTypeOK, PthreadTypeOK
  <2>4. Served' /\ Names' /\ Resumed'
    BY <2>2, StepServed, StepNames, StepResumed DEF LInv
  <2>5. ExitFollows' /\ BootFollows'
    BY <2>1, StepExitFollows, StepBootFollows DEF LInv
  <2> QED BY <1>1, <2>3, <2>4, <2>5 DEF LInv
<1>3. CASE UNCHANGED vars
  BY <1>1, <1>3
  DEF vars, lockVars, devVars, uosVars, localVars, poolVars, clientVars, LInv,
      OwnWord, Aims, Served, UpTo, Spawned, Names, Resumed, ExitFollows, Counted,
      BootFollows, Booted
<1> QED BY <1>2, <1>3, ZenonT(40) DEF ClientNext

(* So it always holds.                                                     *)
LEMMA LiveInvariance == ClientSpec => []LInv
  BY InitLInv, NextLInv, PTL DEF ClientSpec

-----------------------------------------------------------------------------
(* A started processor other than processor 0 that does not wait for the   *)
(* others in uos_exit waits for nothing but the lock.                      *)
LEMMA OthersCanStep ==
  ASSUME LInv, ~clobbered, lock = 0, NEW q \in Proc, q # 0, procs[q] # Free,
         pc[q] \notin {"UE_Wait", "Halted"}
  PROVE  CanStep(q)
<1> USE DEF LInv, TInv, PInv, IInv
<1>1. ~paused[q]
  BY DEF PausedIffFree
<1>2. pc[q] # "Wild"
  BY DEF Callable
<1>3. pc[q] \notin {"PC_Acquire", "PJ_Poll"}
  BY DEF MainIsZero, Main
<1>4. pc[q] = "AL_Call" => reg[q] # Free
  BY DEF RegGiven
<1> QED BY <1>1, <1>2, <1>3, <1>4 DEF CanStep

(* The word of a pid that is given will be served: when the processor of   *)
(* that pid has not booted, one of those resumed by the words up to it has *)
(* not, as there are more of them than pids below it.                      *)
LEMMA WordIsServed ==
  ASSUME LInv, ~clobbered, NEW n \in Proc, procs[n] # Free
  PROVE  \E q \in Proc : procs[q] # Free /\ pid[q] \in {n, -1}
<1> USE DEF LInv, TInv, PInv, IInv, ClientTypeOK, PthreadTypeOK
<1> SUFFICES ASSUME \A q \in Proc : procs[q] # Free => pid[q] # -1
             PROVE  \E q \in Proc : procs[q] # Free /\ pid[q] = n
  OBVIOUS
<1>1. 0 .. n \subseteq Booted
  <2> SUFFICES ASSUME NEW m \in 0 .. n PROVE m \in Booted
    OBVIOUS
  <2>1. m \in Proc /\ (m = n \/ m < n)
    BY NPROCSAssumption DEF Proc
  <2>2. procs[m] # Free
    BY <2>1 DEF WordsInOrder
  <2>3. pid[m] # -1
    BY <2>1, <2>2
  <2> QED BY <2>1, <2>3 DEF Booted, NoPidYet
<1>2. n + 1 \leq Cardinality(Booted) /\ Cardinality(Booted) \in Nat
  <2>1. n \in Nat /\ 0 \in Int /\ n \in Int
    BY NPROCSAssumption DEF Proc
  <2>2. Cardinality(0 .. n) = n + 1
    <3>1. Cardinality(0 .. n) = IF 0 > n THEN 0 ELSE n - 0 + 1
      BY <2>1, FS_Interval
    <3> QED BY <2>1, <3>1
  <2>3. Booted \in SUBSET Proc /\ 0 .. n \in SUBSET Proc
    BY <1>1 DEF Booted
  <2>4. Cardinality(0 .. n) \leq Cardinality(Booted) /\ Cardinality(Booted) \in Nat
    BY <1>1, <2>3, Counting
  <2> QED BY <2>2, <2>4
<1>3. n < initialized_cores
  BY <1>2 DEF BootFollows, Proc
<1>4. PICK q \in Proc : pid[q] = n
  BY <1>3 DEF BootFollows
<1>5. pc[q] # "US_Acquire"
  BY <1>4 DEF NoPidYet, PreBoot, Proc
<1> QED BY <1>4, <1>5 DEF HasWord

(* What the main program waits for in pthread_join.                        *)
LEMMA Awaited ==
  ASSUME LInv, NEW p \in Proc, pc[p] = "PJ_Poll"
  PROVE  p = 0 /\ \E n \in Proc : n # 0 /\ procs[n] = Descriptor(tid[p])
<1> USE DEF LInv, TInv, PInv, IInv, ClientTypeOK, PthreadTypeOK
<1>1. p = 0
  BY DEF MainIsZero, Main
<1>2. i \in 0 .. NTHREADS - 1
  <2>1. i < NTHREADS
    BY <1>1 DEF CounterInRange, Exiting, ExitCounted
  <2> QED BY <2>1, NTHREADSAssumption, MAX_THREADSAssumption
<1>3. tid[0] = threads[i] /\ threads[i] \in Tid /\ threads[i] < NTHREADS
  BY <1>1, <1>2 DEF Joins, Names
<1>4. UpTo(Handed) = NTHREADS /\ pc[0] \notin Exiting
  BY <1>1 DEF UpTo, Spawned, Joining, Exiting, ExitCounted
<1>5. PICK n \in Proc : procs[n] = Descriptor(tid[0])
  BY <1>3, <1>4 DEF Served
<1>6. n # 0
  <2>1. Descriptor(tid[0]) # Null
    BY ONLY <1>3, MAX_THREADSAssumption DEF Descriptor, Null, Tid
  <2>2. procs[0] = Null
    BY DEF OwnWord
  <2> QED BY ONLY <1>5, <2>1, <2>2
<1> QED BY <1>1, <1>5, <1>6

(* pthread_join: the thread that is waited for has a word and a processor  *)
(* that serves it or can still come to (AwaitedIsServed).                  *)
THEOREM NoThreadLost == ClientSpec => []AwaitedIsServed
<1>1. LInv => AwaitedIsServed
  <2> SUFFICES ASSUME LInv, ~clobbered, NEW p \in Proc, pc[p] = "PJ_Poll"
               PROVE  \E n, q \in Proc : /\ procs[n] = Descriptor(tid[p])
                                         /\ ~paused[q] /\ pid[q] \in {n, -1}
                                         /\ pc[q] \notin ExitCounted \cup {"Wild"}
    BY DEF AwaitedIsServed
  <2> USE DEF LInv, TInv, PInv, IInv
  <2>1. p = 0
    BY Awaited
  <2>2. PICK n \in Proc : n # 0 /\ procs[n] = Descriptor(tid[p])
    BY Awaited
  <2>3. procs[n] # Free
    BY <2>2, MAX_THREADSAssumption DEF ClientTypeOK, PthreadTypeOK, Descriptor, Free
  <2>4. PICK q \in Proc : procs[q] # Free /\ pid[q] \in {n, -1}
    BY <2>3, WordIsServed
  <2>5. ~paused[q]
    BY <2>4 DEF PausedIffFree
  <2>6. pc[q] \notin ExitCounted
    BY <2>1 DEF Terminating, Exiting, ExitCounted
  <2>7. pc[q] # "Wild"
    BY DEF Callable
  <2> QED BY <2>2, <2>4, <2>5, <2>6, <2>7
<1> QED BY <1>1, LiveInvariance, PTL

(* No section has anything to wait for.                                    *)
LEMMA OwnerCanStep ==
  ASSUME LInv, NEW p \in owners
  PROVE  CanStep(p)
<1> USE DEF LInv, TInv, PInv, IInv, ClientTypeOK, PthreadTypeOK
<1>1. p \in Proc /\ pc[p] \in KernelSection \cup ClientSection
  BY DEF OwnersMatch, Inside
<1>2. ~paused[p]
  BY <1>1 DEF HasWord, PausedIffFree, KernelSection, ClientSection, PthreadSection
<1> QED BY <1>1, <1>2
        DEF CanStep, KernelAcquire, LibraryAcquire, KernelSection, ClientSection,
            PthreadSection

(* Who owns the lock never waits (OwnersCanStep), in any of the kernel's,  *)
(* the library's and the application's sections, and whatever has become   *)
(* of the lock.                                                            *)
THEOREM OwnersGoOn == ClientSpec => []OwnersCanStep
<1>1. LInv => OwnersCanStep
  BY OwnerCanStep DEF OwnersCanStep
<1> QED BY <1>1, LiveInvariance, PTL

(* The owner of the lock, when there is one, can go on.  When there is     *)
(* none, processor 0 can, unless it waits in pthread_join, and then a      *)
(* processor it has started can; or in uos_exit, and then all have been    *)
(* resumed and those that have not been counted can, or else all have and  *)
(* the wait is over (DeadlockFree).                                        *)
THEOREM NobodyStuck == ClientSpec => []DeadlockFree
<1>1. LInv => DeadlockFree
  <2> SUFFICES ASSUME LInv, ~clobbered, ~AllHalted
               PROVE  \E p \in Proc : CanStep(p)
    BY DEF DeadlockFree
  <2> USE DEF LInv, TInv, PInv, IInv
  <2>1. CASE owners # {}
    <3>1. PICK p \in Proc : p \in owners
      BY <2>1 DEF ClientTypeOK, PthreadTypeOK
    <3> QED BY <3>1, OwnerCanStep
  <2>2. CASE owners = {}
    <3>1. lock = 0
      BY <2>2 DEF ExclusiveOwner, ClientTypeOK, PthreadTypeOK
    <3>2. ~paused[0] /\ pc[0] # "Wild"
      BY ZeroProc DEF OwnWord, PausedIffFree, Free, Null, Callable
    <3>3. CASE pc[0] \notin {"PJ_Poll", "UE_Wait", "Halted"}
      <4>1. pc[0] = "PC_Acquire" => tid[0] < MAX_THREADS
        BY ZeroProc, NotExhausted DEF PoolNeverExhausted
      <4>2. pc[0] = "AL_Call" => reg[0] # Free
        BY ZeroProc DEF RegGiven
      <4>3. CanStep(0)
        BY <3>1, <3>2, <3>3, <4>1, <4>2 DEF CanStep
      <4> QED BY <4>3, ZeroProc
    <3>4. CASE pc[0] = "PJ_Poll"
      <4>1. PICK n \in Proc : n # 0 /\ procs[n] = Descriptor(tid[0])
        BY <3>4, ZeroProc, Awaited
      <4>2. procs[n] # Free
        BY <4>1, ZeroProc, MAX_THREADSAssumption
        DEF ClientTypeOK, PthreadTypeOK, Descriptor, Free
      <4>3. pc[n] \notin {"UE_Wait", "Halted"}
        BY <3>4 DEF Terminating, Exiting, ExitCounted
      <4>4. CanStep(n)
        BY <3>1, <4>1, <4>2, <4>3, OthersCanStep
      <4> QED BY <4>4
    <3>5. CASE pc[0] \in {"UE_Wait", "Halted"}
      <4>1. \A n \in Proc : procs[n] # Free
        BY <3>5, ZeroProc DEF Resumed
      <4>2. CASE \E q \in Proc : q # 0 /\ pc[q] \notin {"UE_Wait", "Halted"}
        BY <3>1, <4>1, <4>2, OthersCanStep
      <4>3. CASE \A q \in Proc : pc[q] \in {"UE_Wait", "Halted"}
        <5>1. Counted = Proc
          BY <4>3 DEF Counted, ExitCounted
        <5>2. exited = NPROCS
          BY <5>1, FS_Interval, NPROCSAssumption DEF ExitFollows, Proc
        <5>3. PICK p \in Proc : pc[p] = "UE_Wait"
          BY <4>3 DEF AllHalted
        <5>4. CanStep(p)
          BY <4>1, <5>2, <5>3
          DEF CanStep, PausedIffFree, KernelAcquire, LibraryAcquire
        <5> QED BY <5>4
      <4> QED BY <3>5, <4>2, <4>3
    <3> QED BY <3>3, <3>4, <3>5
  <2> QED BY <2>1, <2>2
<1> QED BY <1>1, LiveInvariance, PTL

-----------------------------------------------------------------------------
(***************************************************************************)
(* Part 5: the end.                                                        *)
(*                                                                         *)
(* EInv adds to LInv that the second loop of the main program joins every  *)
(* thread, once.  So when SHOULD_TERMINATE is set all have returned, no    *)
(* processor enters a function again, and each is on its way to its stop.  *)
(***************************************************************************)

(* Turn n of the first loop has created thread n.                          *)
ThreadsInOrder == \A n \in 0 .. NTHREADS - 1 : n < UpTo({}) => threads[n] = n

(* The main program leaves its second loop when it has joined all.         *)
AllJoined == pc[0] \in {"UM_Terminate"} \cup Exiting => i = NTHREADS

(* Where a processor may be once the application has returned.             *)
Ending == {"US_Acquire", "US_Check", "US_Load", "US_Store", "US_Release", "AL_Test",
           "AL_Acquire", "AL_Read", "AL_Release", "AL_Call", "TC_Run", "TC_Test",
           "TC_Clear", "TC_Finish"} \cup Exiting

-----------------------------------------------------------------------------
USE DEF ClientStep, Jump

(* The second loop ends after its last turn.                               *)
LEMMA StepAllJoined ==
  ASSUME pc \in [Proc -> ClientLabel], MainIsZero, ZeroIsMain, AllJoined,
         i \in 0 .. NTHREADS, NEW p \in Proc, ClientStep(p)
  PROVE  AllJoined'
<1> USE ZeroProc, NTHREADSAssumption, MAX_THREADSAssumption
    DEF MainIsZero, ZeroIsMain, Main, AllJoined, Exiting, ExitCounted, PreBoot,
        BootInit, lockVars, devVars, uosVars, localVars, poolVars, clientVars
<1>1. CASE UosStep(p) /\ UNCHANGED poolVars /\ UNCHANGED clientVars
  <2>1. CASE US_Acquire(p) \/ US_Check(p) \/ US_InitOwn(p) \/ US_InitOther(p)
            \/ US_SetInit(p) \/ US_Load(p) \/ US_Store(p) \/ US_Release(p)
    BY <1>1, <2>1
  <2>2. CASE AL_Test(p) \/ AL_Acquire(p) \/ AL_Read(p) \/ AL_Release(p)
    BY <1>1, <2>2
  <2>3. CASE SP_Acquire(p) \/ SP_Scan(p) \/ SP_Write(p) \/ SP_Release1(p)
            \/ SP_Release2(p) \/ SP_Fail(p)
    BY <1>1, <2>3
  <2>4. CASE UM_Terminate(p) \/ UE_Acquire(p) \/ UE_Load(p) \/ UE_Store(p)
            \/ UE_SetTerm(p) \/ UE_Resume(p) \/ UE_Release(p) \/ UE_Wait(p)
    BY <1>1, <2>4
  <2> QED BY ONLY <1>1, <2>1, <2>2, <2>3, <2>4, Zenon DEF UosStep
<1>2. CASE PthreadStep(p) /\ UNCHANGED clientVars
  <2>1. CASE PC_Check(p) \/ PC_InitAcquire(p) \/ PC_Recheck(p) \/ PC_InitPool(p)
            \/ PC_SetInit(p) \/ PC_InitRelease(p)
    BY <1>2, <2>1
  <2>2. CASE PC_Acquire(p) \/ PC_Scan(p) \/ PC_Claim(p) \/ PC_ClaimRelease(p)
            \/ PC_Skip(p) \/ PJ_Poll(p) \/ PJ_Acquire(p) \/ PJ_Release(p)
    BY <1>2, <2>2
  <2>3. CASE AL_Call(p) \/ TC_Run(p) \/ TC_Test(p) \/ TC_Call(p) \/ TC_Clear(p)
            \/ TC_Finish(p)
    BY <1>2, <2>3
  <2> QED BY ONLY <1>2, <2>1, <2>2, <2>3, Zenon DEF PthreadStep
<1>3. CASE UseStep(p)
  <2>1. CASE SpawnAcquire(p) \/ SpawnRelease(p) \/ Spawn(p) \/ Create(p) \/ Created(p)
    BY <2>1
  <2>2. CASE JoinAcquire(p) \/ JoinRelease(p) \/ Join(p) \/ JoinDone(p)
    BY <2>2
  <2>3. CASE Enter(p) \/ PrintDone(p)
    BY <2>3
  <2>4. CASE Work(p) \/ PrintAgain(p) \/ Return(p)
    BY <2>4
  <2> QED BY ONLY <1>3, <2>1, <2>2, <2>3, <2>4, Zenon DEF UseStep
<1> QED BY <1>1, <1>2, <1>3

(* A step from where a processor may be at the end brings it nearer to its *)
(* stop: the auxiliary loop is left at its test, the call of __thread_call *)
(* finds no function.                                                      *)
LEMMA StepEnding ==
  ASSUME pc \in [Proc -> ClientLabel], idx \in [Proc -> 0 .. NPROCS],
         NEW p \in Proc, ClientStep(p),
         pc[p] \in Ending, SHOULD_TERMINATE, initialized,
         pc[p] = "US_Release" => pid[p] # 0,
         pc[p] = "TC_Test" => ~func[tid[p]]
  PROVE  \/ pc[p] = "US_Acquire" /\ pc'[p] = "US_Check"
         \/ pc[p] = "US_Check"   /\ pc'[p] = "US_Load"
         \/ pc[p] = "US_Load"    /\ pc'[p] = "US_Store"
         \/ pc[p] = "US_Store"   /\ pc'[p] = "US_Release"
         \/ pc[p] = "US_Release" /\ pc'[p] = "AL_Test"
         \/ pc[p] = "AL_Acquire" /\ pc'[p] = "AL_Read"
         \/ pc[p] = "AL_Read"    /\ pc'[p] = "AL_Release"
         \/ pc[p] = "AL_Release" /\ pc'[p] = "AL_Call"
         \/ pc[p] = "AL_Call"    /\ pc'[p] \in {"TC_Run", "AL_Test"}
         \/ pc[p] = "TC_Run"     /\ pc'[p] = "TC_Test"
         \/ pc[p] = "TC_Test"    /\ pc'[p] = "TC_Clear"
         \/ pc[p] = "TC_Clear"   /\ pc'[p] = "TC_Finish"
         \/ pc[p] = "TC_Finish"  /\ pc'[p] = "AL_Test"
         \/ pc[p] = "AL_Test"    /\ pc'[p] = "UE_Acquire"
         \/ pc[p] = "UE_Acquire" /\ pc'[p] = "UE_Load"
         \/ pc[p] = "UE_Load"    /\ pc'[p] = "UE_Store"
         \/ pc[p] = "UE_Store"   /\ pc'[p] = "UE_SetTerm"
         \/ pc[p] = "UE_SetTerm" /\ pc'[p] = "UE_Resume" /\ idx'[p] = 0
         \/ pc[p] = "UE_Resume"  /\ pc'[p] = "UE_Resume" /\ idx'[p] = idx[p] + 1
         \/ pc[p] = "UE_Resume"  /\ pc'[p] = "UE_Release" /\ idx[p] + 1 = NPROCS
         \/ pc[p] = "UE_Release" /\ pc'[p] = "UE_Wait"
         \/ pc[p] = "UE_Wait"    /\ pc'[p] = "Halted"
<1> USE DEF Ending, Exiting, ExitCounted, lockVars, devVars, uosVars, localVars,
        poolVars, clientVars
<1>1. CASE UosStep(p) /\ UNCHANGED poolVars /\ UNCHANGED clientVars
  <2>1. CASE US_Acquire(p) \/ US_Check(p) \/ US_Load(p) \/ US_Store(p) \/ US_Release(p)
    BY <2>1
  <2>2. CASE AL_Test(p) \/ AL_Acquire(p) \/ AL_Read(p) \/ AL_Release(p)
    BY <2>2
  <2>3. CASE UE_Acquire(p) \/ UE_Load(p) \/ UE_Store(p) \/ UE_SetTerm(p)
    BY <2>3
  <2>4. CASE UE_Resume(p)
    BY <2>4
  <2>5. CASE UE_Release(p) \/ UE_Wait(p)
    BY <2>5
  <2>6. CASE US_InitOwn(p) \/ US_InitOther(p) \/ US_SetInit(p) \/ SP_Acquire(p)
            \/ SP_Scan(p) \/ SP_Write(p) \/ SP_Release1(p) \/ SP_Release2(p)
            \/ SP_Fail(p) \/ UM_Terminate(p)
    BY <2>6
  <2> QED BY <1>1, <2>1, <2>2, <2>3, <2>4, <2>5, <2>6
<1>2. CASE PthreadStep(p) /\ UNCHANGED clientVars
  <2>1. CASE AL_Call(p)
    BY <2>1
  <2>2. CASE TC_Run(p) \/ TC_Test(p) \/ TC_Call(p) \/ TC_Clear(p) \/ TC_Finish(p)
    BY <2>2
  <2>3. CASE PC_Check(p) \/ PC_InitAcquire(p) \/ PC_Recheck(p) \/ PC_InitPool(p)
            \/ PC_SetInit(p) \/ PC_InitRelease(p) \/ PC_Acquire(p) \/ PC_Scan(p)
            \/ PC_Claim(p) \/ PC_ClaimRelease(p) \/ PC_Skip(p) \/ PJ_Poll(p)
            \/ PJ_Acquire(p) \/ PJ_Release(p)
    BY <2>3
  <2> QED BY <1>2, <2>1, <2>2, <2>3
<1>3. CASE UseStep(p)
  BY <1>3
<1> QED BY <1>1, <1>2, <1>3

(* Nobody moves another processor or its loop counter.                     *)
LEMMA StepAlone ==
  ASSUME pc \in [Proc -> ClientLabel], idx \in [Proc -> 0 .. NPROCS],
         NEW p \in Proc, ClientStep(p)
  PROVE  \A q \in Proc \ {p} : pc'[q] = pc[q] /\ idx'[q] = idx[q]
<1> USE DEF lockVars, devVars, uosVars, localVars, poolVars, clientVars
<1>1. CASE UosStep(p) /\ UNCHANGED poolVars /\ UNCHANGED clientVars
  BY <1>1
<1>2. CASE PthreadStep(p) /\ UNCHANGED clientVars
  BY <1>2
<1>3. CASE UseStep(p)
  BY <1>3
<1> QED BY <1>1, <1>2, <1>3

HIDE DEF ClientStep

(* Turn i stores the identifier of thread i, which is i.                   *)
LEMMA StepThreadsInOrder ==
  ASSUME TInv, ThreadsInOrder, NEW p \in Proc, ClientStep(p)
  PROVE  ThreadsInOrder'
<1>1. /\ pc \in [Proc -> ClientLabel] /\ ThreadsInOrder
      /\ threads \in [0 .. NTHREADS - 1 -> Tid] /\ i \in 0 .. NTHREADS
  BY DEF TInv, PInv, IInv, ClientTypeOK, PthreadTypeOK
<1>2. MainIsZero /\ ZeroIsMain /\ CounterInRange /\ ScanFollows
  BY DEF TInv, PInv, IInv
<1>3. \/ UpTo({})' = UpTo({})
      \/ p = 0 /\ pc[0] = "PC_Return" /\ UpTo({}) = i /\ UpTo({})' = i + 1
  <2>1. \/ UNCHANGED <<pc[0], i>>
        \/ /\ i' = i
           /\ pc[0] \notin Joining \cup Exiting /\ pc'[0] \notin Joining \cup Exiting
        \/ pc[0] \in Joining \cup Exiting /\ pc'[0] \in Joining \cup Exiting
        \/ pc[0] = "PC_Claim" /\ pc'[0] = "PC_ClaimRelease" /\ i' = i
        \/ pc[0] = "PC_Describe" /\ pc'[0] = "SP_Acquire" /\ i' = i
        \/ pc[0] = "SP_Write" /\ pc'[0] = "SP_Release1" /\ i' = i
        \/ p = 0 /\ pc[0] = "PC_Return" /\ pc'[0] \in SpawnWork \cup {"PC_Check"}
           /\ i' = i + 1
        \/ p = 0 /\ pc[0] = "PC_Return" /\ pc'[0] \in JoinWork /\ i + 1 = NTHREADS
    BY ONLY <1>1, <1>2, p \in Proc, ClientStep(p), StepMain
  <2> QED BY ONLY <2>1
          DEF UpTo, Spawned, Joining, Exiting, ExitCounted, SpawnWork, JoinWork, JoinPrint
<1>4. \/ threads' = threads /\ pc[p] # "PC_Return"
      \/ p = 0 /\ pc[0] = "PC_Return" /\ threads' = [threads EXCEPT ![i] = tid[0]]
  BY ONLY <1>1, <1>2, p \in Proc, ClientStep(p), StepNamed DEF MainIsZero, Main
<1>5. pc[0] = "PC_Return" => UpTo({}) = i /\ tid[0] = i
  BY ONLY <1>2
  DEF UpTo, Spawned, Joining, Exiting, ExitCounted, Described, Handed, ScanFollows,
      Claimed, JoinWork, JoinPrint
<1> SUFFICES ASSUME NEW n \in 0 .. NTHREADS - 1, n < UpTo({})' PROVE threads'[n] = n
  BY DEF ThreadsInOrder
<1>6. NTHREADS \in Nat
  BY NTHREADSAssumption, MAX_THREADSAssumption
<1>7. CASE threads' = threads /\ pc[p] # "PC_Return"
  BY ONLY <1>1, <1>3, <1>7, n \in 0 .. NTHREADS - 1, n < UpTo({})' DEF ThreadsInOrder
<1>8. CASE p = 0 /\ pc[0] = "PC_Return" /\ threads' = [threads EXCEPT ![i] = tid[0]]
  <2>1. n = i \/ n < UpTo({})
    BY ONLY <1>1, <1>3, <1>5, <1>6, <1>8, n \in 0 .. NTHREADS - 1, n < UpTo({})'
  <2> QED BY ONLY <1>1, <1>5, <1>8, <2>1, n \in 0 .. NTHREADS - 1 DEF ThreadsInOrder
<1> QED BY <1>4, <1>7, <1>8

-----------------------------------------------------------------------------
(* The inductive invariant.                                                *)
EInv == LInv /\ ThreadsInOrder /\ AllJoined

(* The invariant holds at the start.                                       *)
LEMMA InitEInv == ClientInit => EInv
<1> SUFFICES ASSUME ClientInit PROVE EInv
  OBVIOUS
<1>1. pc[0] = "US_Acquire" /\ i = 0
  BY ZeroProc DEF ClientInit, UosInit
<1>2. UpTo({}) = 0
  BY <1>1 DEF UpTo, Spawned, Joining, JoinWork, JoinPrint, Exiting, ExitCounted
<1>3. \A n \in 0 .. NTHREADS - 1 : ~(n < 0)
  BY NTHREADSAssumption, MAX_THREADSAssumption
<1>4. ThreadsInOrder /\ AllJoined
  BY <1>1, <1>2, <1>3 DEF ThreadsInOrder, AllJoined, Exiting, ExitCounted
<1> QED BY <1>4, InitLInv DEF EInv

(* Every step keeps it.                                                    *)
LEMMA NextEInv == EInv /\ [ClientNext]_vars => EInv'
<1> SUFFICES ASSUME EInv, [ClientNext]_vars PROVE EInv'
  OBVIOUS
<1>1. LInv'
  BY NextLInv DEF EInv
<1>2. ASSUME NEW p \in Proc, ClientStep(p) PROVE EInv'
  <2>1. ThreadsInOrder'
    BY <1>2, StepThreadsInOrder DEF EInv, LInv
  <2>2. AllJoined'
    BY <1>2, StepAllJoined DEF EInv, LInv, TInv, PInv, IInv, ClientTypeOK, PthreadTypeOK
  <2> QED BY <1>1, <2>1, <2>2 DEF EInv
<1>3. CASE UNCHANGED vars
  BY <1>1, <1>3
  DEF vars, localVars, clientVars, EInv, ThreadsInOrder, AllJoined, UpTo, Spawned
<1> QED BY <1>2, <1>3 DEF ClientNext

(* So it always holds.                                                     *)
LEMMA EndInvariance == ClientSpec => []EInv
  BY InitEInv, NextEInv, PTL DEF ClientSpec

-----------------------------------------------------------------------------
(* Every thread has returned when the second loop has ended.               *)
LEMMA AllReturned ==
  ASSUME EInv, pc[0] \in {"UM_Terminate"} \cup Exiting, NEW t \in 0 .. NTHREADS - 1
  PROVE  returns[t] >= 1
<1>1. i = NTHREADS /\ Spawned
  BY DEF EInv, AllJoined, Spawned, Joining
<1>2. NTHREADS \in Nat
  BY NTHREADSAssumption, MAX_THREADSAssumption
<1>3. t < UpTo({})
  BY <1>1, <1>2 DEF UpTo
<1>4. threads[t] = t
  BY <1>3 DEF EInv, ThreadsInOrder
<1> QED BY <1>1, <1>4 DEF EInv, LInv, TInv, PInv, Joins

(* Where the processors are when the application has returned.             *)
LEMMA WhoIsLeft ==
  ASSUME EInv, SHOULD_TERMINATE, ~clobbered, NEW q \in Proc
  PROVE  /\ pc[q] \in Ending
         /\ initialized
         /\ pc[q] = "US_Release" => pid[q] # 0
         /\ pc[q] = "TC_Test" => ~func[tid[q]]
<1> USE DEF EInv, LInv, TInv, PInv, IInv, ClientTypeOK, PthreadTypeOK
<1>1. pc[0] \in Exiting
  BY DEF Terminating
<1>2. UpTo(Handed) = NTHREADS
  BY <1>1 DEF UpTo, Spawned
<1>3. initialized
  BY <1>1 DEF InitByZero, BootInit, Exiting, ExitCounted
<1>4. q = 0 => pc[q] \in Ending
  BY <1>1 DEF Ending
<1>5. pc[q] = "US_Release" => pid[q] # 0
  <2>1. pc[q] = "US_Release" => q # 0
    BY <1>1 DEF Exiting, ExitCounted
  <2>2. pc[q] = "US_Release" => pid[q] > 0
    BY <2>1 DEF PidZero, PreBoot, BootInit
  <2> QED BY <2>2
<1>6. ASSUME pc[q] \in Running PROVE returns[tid[q]] >= 1
  <2>1. tid[q] \in Tid /\ tid[q] < NTHREADS
    BY <1>2, <1>6, RunningTids DEF Given
  <2>2. tid[q] \in 0 .. NTHREADS - 1
    BY <2>1, NTHREADSAssumption, MAX_THREADSAssumption DEF Tid
  <2> QED BY <1>1, <2>2, AllReturned
<1>7. pc[q] \in Running => /\ pc[q] \notin {"TC_Call", "Body"} \cup InFunction
                           /\ pc[q] = "TC_Test" => ~func[tid[q]]
  BY <1>6, ReturnedIsLeft
<1>8. q # 0 => pc[q] \notin Main \cup BootInit \cup {"Wild"}
  BY DEF MainIsZero, InitByZero, Callable
<1>9. pc[q] \in Ending \cup Main \cup BootInit \cup {"Wild", "TC_Call", "Body"}
                 \cup InFunction
  BY DEF ClientLabel, KernelSection, ClientSection, PthreadSection, ClientOutside,
         PthreadOutside, Ending, Exiting, ExitCounted, Main, BootInit
<1>10. pc[q] \in Ending
  BY <1>4, <1>7, <1>8, <1>9 DEF Running
<1>11. pc[q] = "TC_Test" => ~func[tid[q]]
  BY <1>7 DEF Running
<1> QED BY <1>3, <1>5, <1>10, <1>11

(* uos_exit: once the application has returned every access brings its     *)
(* processor nearer to its stop, and none is undone by another             *)
(* (ShutdownAdvances).                                                     *)
THEOREM ShutdownIsBounded == ClientSpec => ShutdownAdvances
<1> DEFINE Advances == SHOULD_TERMINATE /\ ~clobbered =>
             \E p \in Proc : /\ StepsLeft(p)' < StepsLeft(p)
                             /\ \A q \in Proc \ {p} : StepsLeft(q)' = StepsLeft(q)
<1>1. ASSUME EInv, [ClientNext]_vars PROVE [Advances]_vars
  <2> SUFFICES ASSUME NEW p \in Proc, ClientStep(p), SHOULD_TERMINATE, ~clobbered
               PROVE  /\ StepsLeft(p)' < StepsLeft(p)
                      /\ \A q \in Proc \ {p} : StepsLeft(q)' = StepsLeft(q)
    BY <1>1 DEF ClientNext
  <2>1. pc \in [Proc -> ClientLabel] /\ idx \in [Proc -> 0 .. NPROCS]
    BY <1>1 DEF EInv, LInv, TInv, PInv, IInv, ClientTypeOK, PthreadTypeOK
  <2>2. \A q \in Proc \ {p} : StepsLeft(q)' = StepsLeft(q)
    BY <2>1, StepAlone DEF StepsLeft
  <2>3. StepsLeft(p)' < StepsLeft(p)
    <3>1. NPROCS \in Nat /\ idx[p] \in 0 .. NPROCS
      BY <2>1, NPROCSAssumption
    <3> QED BY <1>1, <2>1, <3>1, WhoIsLeft, StepEnding DEF StepsLeft
  <2> QED BY <2>2, <2>3
<1> QED BY <1>1, EndInvariance, PTL DEF ClientSpec, ShutdownAdvances

-----------------------------------------------------------------------------
(***************************************************************************)
(* Part 6: which threads get a processor.                                  *)
(*                                                                         *)
(* WInv adds to LInv how many words have been given: the search stops at   *)
(* the first free word and no word is given back, so the n-th word goes to *)
(* the n-th thread, and the threads that are too many go without.          *)
(***************************************************************************)

(* Processor 0's word and one word for each thread handed out, in order.   *)
Seats ==
  /\ UpTo(Handed) < NPROCS
  /\ pc[0] \notin Exiting => \A n \in Proc : procs[n] = Free <=> n > UpTo(Handed)

(* A word is given to the thread of its number or, by uos_exit, to none.   *)
LEMMA StepSeats ==
  ASSUME LInv, Seats, NEW p \in Proc, ClientStep(p)
  PROVE  Seats'
<1> USE DEF LInv, TInv, PInv, IInv, ClientTypeOK, PthreadTypeOK
<1> DEFINE u == UpTo(Handed)
           v == UpTo(Handed)'
<1>1. u \in Nat /\ i \in Nat /\ NPROCS \in Nat
  BY NTHREADSAssumption, MAX_THREADSAssumption, NPROCSAssumption DEF UpTo
<1>2. u < NPROCS /\ (pc[0] \notin Exiting => \A n \in Proc : procs[n] = Free <=> n > u)
  BY DEF Seats
<1>3. pc'[0] \notin Exiting => pc[0] \notin Exiting
  BY ZeroProc, StepExits
<1>4. CASE pc[p] = "SP_Write"
  <2>1. p = 0
    BY <1>4 DEF MainIsZero, Main
  <2>2. u = i /\ v = i + 1
    <3>1. idx[0] \in Proc /\ procs[idx[0]] = Free
      BY <1>4, <2>1, NPROCSAssumption DEF IdxInRange, Aims, Proc
    <3>2. procs'[idx[0]] = Descriptor(tid[0])
      BY <1>4, <2>1, <3>1, StepProcs
    <3>3. Descriptor(tid[0]) \notin {Free, Null}
      BY <2>1, ZeroProc, MAX_THREADSAssumption DEF Descriptor, Free, Null
    <3>4. pc'[0] = "SP_Release1"
      BY <2>1, <3>1, <3>2, <3>3, StepWrites
    <3>5. i' = i
      BY <1>4, <2>1, <3>4, StepMain DEF Joining, Exiting, ExitCounted
    <3> QED BY <1>4, <2>1, <3>4, <3>5
            DEF UpTo, Spawned, Handed, Joining, Exiting, ExitCounted
  <2>3. pc[0] \notin Exiting
    BY <1>4, <2>1 DEF Exiting, ExitCounted
  <2>4. idx[0] \in Proc /\ procs[idx[0]] = Free
    BY <1>4, <2>1, NPROCSAssumption DEF IdxInRange, Aims, Proc
  <2>5. \A n \in Proc : n < idx[0] => procs[n] # Free
    BY <1>4, <2>1 DEF Scanned
  <2>6. idx[0] = i + 1
    <3>1. idx[0] > i
      BY ONLY <1>2, <2>2, <2>3, <2>4
    <3>2. i + 1 < idx[0] => i + 1 \in Proc
      BY ONLY <1>1, <2>4 DEF Proc
    <3>3. ~(i + 1 < idx[0])
      BY ONLY <1>1, <1>2, <2>2, <2>3, <2>5, <3>2
    <3> QED BY ONLY <1>1, <2>4, <3>1, <3>3 DEF Proc
  <2>7. procs' = [procs EXCEPT ![idx[0]] = Descriptor(tid[0])]
    BY <1>4, <2>1, StepProcs, Zenon
  <2>8. Descriptor(tid[0]) # Free
    BY <2>1, MAX_THREADSAssumption DEF Descriptor, Free
  <2>9. \A n \in Proc : procs'[n] = Free <=> n > v
    <3>1. procs \in [Proc -> Word]
      OBVIOUS
    <3> QED BY ONLY <1>1, <1>2, <2>2, <2>3, <2>6, <2>7, <2>8, <3>1 DEF Proc
  <2>10. v < NPROCS
    BY ONLY <1>1, <2>2, <2>4, <2>6 DEF Proc
  <2> QED BY <2>9, <2>10 DEF Seats
<1>5. CASE pc[p] # "SP_Write"
  <2>1. v = u
    BY <1>5, StepUpTo
  <2>2. ASSUME pc'[0] \notin Exiting, NEW n \in Proc PROVE procs'[n] = Free <=> n > u
    <3>1. pc[0] \notin Exiting /\ pc[p] # "UE_Resume"
      BY <1>3, <2>2 DEF Terminating, Exiting, ExitCounted
    <3>2. procs[n] = Free <=> n > u
      BY <1>2, <3>1
    <3>3. CASE procs' = procs
      BY <3>2, <3>3
    <3>4. CASE pc[p] = "US_InitOwn" \/ pc[p] = "US_InitOther"
      <4>1. p = 0 /\ ~gLockPool
        BY <3>4 DEF InitByZero, BootInit, PreBoot
      <4>2. u = 0
        BY <3>4, <4>1 DEF PoolInit, UpTo, Spawned, Joining, Exiting, ExitCounted, Handed
      <4>3. CASE pc[p] = "US_InitOwn" /\ procs' = [procs EXCEPT ![0] = Null]
        BY <3>2, <4>2, <4>3, ZeroProc DEF Free, Null, Proc
      <4>4. CASE pc[p] = "US_InitOther" /\ procs' = [procs EXCEPT ![idx[p]] = Free]
        <5>1. idx[p] \in Proc /\ idx[p] > 0
          BY <4>4, NPROCSAssumption DEF BootIdx, Proc
        <5> QED BY <3>2, <4>2, <4>4, <5>1 DEF Proc
      <4> QED BY <3>3, <3>4, <4>3, <4>4, StepProcs
    <3> QED BY <1>5, <3>1, <3>3, <3>4, StepProcs
  <2> QED BY <1>2, <2>1, <2>2 DEF Seats
<1> QED BY <1>4, <1>5

-----------------------------------------------------------------------------
(* The inductive invariant.                                                *)
WInv == LInv /\ Seats

(* The invariant holds at the start.                                       *)
LEMMA InitWInv == ClientInit => WInv
<1> SUFFICES ASSUME ClientInit PROVE WInv
  OBVIOUS
<1>1. pc[0] = "US_Acquire" /\ i = 0
  BY ZeroProc DEF ClientInit, UosInit
<1>2. UpTo(Handed) = 0
  BY <1>1
  DEF UpTo, Spawned, Joining, JoinWork, JoinPrint, Exiting, ExitCounted, Handed
<1>3. procs = [p \in Proc |-> IF p = 0 THEN Null ELSE Free]
  BY DEF ClientInit, UosInit, ProcDeviceInit
<1>4. Seats
  BY <1>2, <1>3, NPROCSAssumption DEF Seats, Proc, Free, Null
<1> QED BY <1>4, InitLInv DEF WInv

(* Every step keeps it.                                                    *)
LEMMA NextWInv == WInv /\ [ClientNext]_vars => WInv'
<1> SUFFICES ASSUME WInv, [ClientNext]_vars PROVE WInv'
  OBVIOUS
<1>1. LInv'
  BY NextLInv DEF WInv
<1>2. ASSUME NEW p \in Proc, ClientStep(p) PROVE Seats'
  BY <1>2, StepSeats DEF WInv
<1>3. CASE UNCHANGED vars
  <2>1. UNCHANGED <<procs, pc, i>>
    BY <1>3 DEF vars, devVars, clientVars
  <2>2. UpTo(Handed)' = UpTo(Handed)
    BY <2>1 DEF UpTo, Spawned
  <2>3. Seats'
    BY <2>1, <2>2 DEF WInv, Seats
  <2> QED BY <1>1, <2>3 DEF WInv
<1> QED BY <1>1, <1>2, <1>3 DEF ClientNext, WInv

(* So it always holds.                                                     *)
LEMMA WordInvariance == ClientSpec => []WInv
  BY InitWInv, NextWInv, PTL DEF ClientSpec

-----------------------------------------------------------------------------
(* uos_start_processor: the first NPROCS - 1 threads get a processor, and  *)
(* no other thread does (RefusedOnlyWhenFull).                             *)
THEOREM FirstThreadsServed == ClientSpec => []RefusedOnlyWhenFull
<1>1. WInv => RefusedOnlyWhenFull
  <2> SUFFICES ASSUME WInv, NEW p \in Proc
               PROVE  /\ pc[p] = "SP_Fail" => i >= NPROCS - 1
                      /\ pc[p] = "PC_Return" => i < NPROCS - 1
    BY DEF RefusedOnlyWhenFull
  <2> USE DEF WInv, LInv, TInv, PInv, IInv, ClientTypeOK, PthreadTypeOK
  <2>1. i \in Nat /\ NPROCS \in Nat /\ NPROCS - 1 \in Proc
    BY NTHREADSAssumption, MAX_THREADSAssumption, NPROCSAssumption DEF Proc
  <2>2. CASE pc[p] = "SP_Fail"
    <3>1. p = 0
      BY <2>2 DEF MainIsZero, Main
    <3>2. UpTo(Handed) = i /\ pc[0] \notin Exiting
      BY <2>2, <3>1 DEF UpTo, Spawned, Joining, Exiting, ExitCounted, Handed
    <3>3. procs[NPROCS - 1] # Free
      BY <2>1, <2>2 DEF Scanned
    <3> QED BY <2>1, <2>2, <3>2, <3>3 DEF Seats
  <2>3. CASE pc[p] = "PC_Return"
    <3>1. p = 0
      BY <2>3 DEF MainIsZero, Main
    <3>2. UpTo(Handed) = i + 1
      BY <2>3, <3>1 DEF UpTo, Spawned, Joining, Exiting, ExitCounted, Handed
    <3> QED BY <2>1, <2>3, <3>2 DEF Seats
  <2> QED BY <2>2, <2>3
<1> QED BY <1>1, WordInvariance, PTL

(* pthread_create: an application that creates at most NPROCS - 1 threads  *)
(* is never refused a processor.                                           *)
THEOREM NeverRefused ==
  ASSUME NTHREADS < NPROCS
  PROVE  ClientSpec => [](\A p \in Proc : pc[p] # "SP_Fail")
<1>1. WInv /\ RefusedOnlyWhenFull => \A p \in Proc : pc[p] # "SP_Fail"
  <2> SUFFICES ASSUME WInv, RefusedOnlyWhenFull, NEW p \in Proc, pc[p] = "SP_Fail"
               PROVE  FALSE
    OBVIOUS
  <2> USE DEF WInv, LInv, TInv, PInv, IInv, ClientTypeOK, PthreadTypeOK
  <2>1. p = 0
    BY DEF MainIsZero, Main
  <2>2. i < NTHREADS
    BY <2>1 DEF CounterInRange, Exiting, ExitCounted
  <2>3. i >= NPROCS - 1
    BY DEF RefusedOnlyWhenFull
  <2> QED BY <2>2, <2>3, NTHREADSAssumption, MAX_THREADSAssumption, NPROCSAssumption
<1> QED BY <1>1, WordInvariance, FirstThreadsServed, PTL

(* uos_main: an application that creates more never returns.               *)
THEOREM TooManyNeverReturn ==
  ASSUME NTHREADS >= NPROCS
  PROVE  ClientSpec => []~SHOULD_TERMINATE
<1>1. WInv => ~SHOULD_TERMINATE
  <2> SUFFICES ASSUME WInv, SHOULD_TERMINATE PROVE FALSE
    OBVIOUS
  <2>1. UpTo(Handed) = NTHREADS
    BY DEF WInv, LInv, TInv, Terminating, UpTo, Spawned
  <2> QED BY <2>1, NTHREADSAssumption, MAX_THREADSAssumption, NPROCSAssumption
          DEF WInv, Seats
<1> QED BY <1>1, WordInvariance, PTL

-----------------------------------------------------------------------------
(***************************************************************************)
(* Part 7: sections are bounded.  That the lock is given back needs no     *)
(* more of the invariant than that every index is in range.                *)
(***************************************************************************)

USE DEF ClientStep, Jump

(* Where a step leads inside a section.                                    *)
LEMMA StepSection ==
  ASSUME pc \in [Proc -> ClientLabel], idx \in [Proc -> 0 .. NPROCS],
         NEW p \in Proc, ClientStep(p),
         pc[p] \in KernelSection \cup ClientSection,
         pc'[p] \in KernelSection \cup ClientSection
  PROVE  \/ pc[p] = "US_Check"     /\ pc'[p] \in {"US_Load", "US_InitOwn"}
         \/ pc[p] = "US_InitOwn"   /\ pc'[p] \in {"US_InitOther", "US_SetInit"}
            /\ idx'[p] = 1
         \/ pc[p] = "US_InitOther" /\ pc'[p] \in {"US_InitOther", "US_SetInit"}
            /\ idx'[p] = idx[p] + 1
         \/ pc[p] = "US_SetInit"   /\ pc'[p] = "US_Load"
         \/ pc[p] = "US_Load"      /\ pc'[p] = "US_Store"
         \/ pc[p] = "US_Store"     /\ pc'[p] = "US_Release"
         \/ pc[p] = "AL_Read"      /\ pc'[p] = "AL_Release"
         \/ pc[p] = "SP_Scan"      /\ pc'[p] = "SP_Scan" /\ idx'[p] = idx[p] + 1
         \/ pc[p] = "SP_Scan"      /\ pc'[p] = "SP_Write" /\ idx'[p] = idx[p]
         \/ pc[p] = "SP_Scan"      /\ pc'[p] = "SP_Fail"
         \/ pc[p] = "SP_Write"     /\ pc'[p] = "SP_Release1"
         \/ pc[p] = "UE_Load"      /\ pc'[p] = "UE_Store"
         \/ pc[p] = "UE_Store"     /\ pc'[p] = "UE_SetTerm"
         \/ pc[p] = "UE_SetTerm"   /\ pc'[p] = "UE_Resume" /\ idx'[p] = 0
         \/ pc[p] = "UE_Resume"    /\ pc'[p] \in {"UE_Resume", "UE_Release"}
            /\ idx'[p] = idx[p] + 1
         \/ pc[p] = "PC_Recheck"   /\ pc'[p] \in {"PC_InitPool", "PC_InitRelease"}
         \/ pc[p] = "PC_InitPool"  /\ pc'[p] = "PC_SetInit"
         \/ pc[p] = "PC_SetInit"   /\ pc'[p] = "PC_InitRelease"
         \/ pc[p] = "PC_Scan"      /\ pc'[p] \in {"PC_Claim", "PC_Skip"}
         \/ pc[p] = "PC_Claim"     /\ pc'[p] = "PC_ClaimRelease"
<1> USE DEF KernelSection, ClientSection, PthreadSection, lockVars, devVars, uosVars,
        localVars, poolVars, clientVars
<1>1. CASE UosStep(p) /\ UNCHANGED poolVars /\ UNCHANGED clientVars
  <2>1. CASE US_Acquire(p) \/ US_Check(p) \/ US_InitOwn(p) \/ US_InitOther(p)
    BY <2>1
  <2>2. CASE US_SetInit(p) \/ US_Load(p) \/ US_Store(p) \/ US_Release(p)
    BY <2>2
  <2>3. CASE AL_Test(p) \/ AL_Acquire(p) \/ AL_Read(p) \/ AL_Release(p)
    BY <2>3
  <2>4. CASE SP_Acquire(p) \/ SP_Scan(p) \/ SP_Write(p)
    BY <2>4
  <2>5. CASE SP_Release1(p) \/ SP_Release2(p) \/ SP_Fail(p) \/ UM_Terminate(p)
    BY <2>5
  <2>6. CASE UE_Acquire(p) \/ UE_Load(p) \/ UE_Store(p) \/ UE_SetTerm(p)
    BY <2>6
  <2>7. CASE UE_Resume(p) \/ UE_Release(p) \/ UE_Wait(p)
    BY <2>7
  <2> QED BY ONLY <1>1, <2>1, <2>2, <2>3, <2>4, <2>5, <2>6, <2>7, Zenon DEF UosStep
<1>2. CASE PthreadStep(p) /\ UNCHANGED clientVars
  <2>1. CASE PC_Check(p) \/ PC_InitAcquire(p) \/ PC_Recheck(p) \/ PC_InitPool(p)
            \/ PC_SetInit(p) \/ PC_InitRelease(p)
    BY <2>1
  <2>2. CASE PC_Acquire(p) \/ PC_Scan(p) \/ PC_Claim(p)
    BY <2>2
  <2>3. CASE PC_ClaimRelease(p) \/ PC_Skip(p)
    BY <2>3
  <2>4. CASE PJ_Poll(p) \/ PJ_Acquire(p) \/ PJ_Release(p) \/ AL_Call(p)
    BY <2>4
  <2>5. CASE TC_Run(p) \/ TC_Test(p) \/ TC_Call(p) \/ TC_Clear(p) \/ TC_Finish(p)
    BY <2>5
  <2> QED BY ONLY <1>2, <2>1, <2>2, <2>3, <2>4, <2>5, Zenon DEF PthreadStep
<1>3. CASE UseStep(p)
  <2>1. CASE SpawnAcquire(p) \/ SpawnRelease(p) \/ Spawn(p) \/ Create(p) \/ Created(p)
    BY <2>1
  <2>2. CASE JoinAcquire(p) \/ JoinRelease(p) \/ Join(p) \/ JoinDone(p)
    BY <2>2
  <2>3. CASE Enter(p) \/ PrintDone(p)
    BY <2>3
  <2>4. CASE Work(p) \/ PrintAgain(p) \/ Return(p)
    BY <2>4
  <2> QED BY ONLY <1>3, <2>1, <2>2, <2>3, <2>4, Zenon DEF UseStep
<1> QED BY <1>1, <1>2, <1>3

HIDE DEF ClientStep

(* Every section ends after at most NPROCS + 5 steps of its processor      *)
(* (SectionsAdvance).  With OwnersGoOn this is what SectionsEnd rests on.  *)
THEOREM SectionsBounded == ClientSpec => SectionsAdvance
<1> DEFINE Advance == \A p \in owners : p \in owners' =>
             UNCHANGED <<pc[p], idx[p]>> \/ SectionLeft(p)' < SectionLeft(p)
<1>1. IInv /\ IInv' /\ [ClientNext]_vars => [Advance]_vars
  <2> SUFFICES ASSUME IInv, IInv', NEW p \in Proc, ClientStep(p),
                      NEW q \in owners, q \in owners'
               PROVE  UNCHANGED <<pc[q], idx[q]>> \/ SectionLeft(q)' < SectionLeft(q)
    BY DEF ClientNext
  <2>1. pc \in [Proc -> ClientLabel] /\ idx \in [Proc -> 0 .. NPROCS] /\ q \in Proc
    BY DEF IInv, ClientTypeOK, PthreadTypeOK
  <2>2. /\ pc[q] \in KernelSection \cup ClientSection
        /\ pc'[q] \in KernelSection \cup ClientSection
    BY <2>1 DEF IInv, OwnersMatch, Inside
  <2>3. CASE q # p
    BY <2>1, <2>3, StepAlone
  <2>4. CASE q = p
    <3>1. /\ NPROCS \in Nat \ {0} /\ idx[p] \in 0 .. NPROCS
          /\ pc[p] = "US_InitOther" => idx[p] \in 1 .. NPROCS - 1
          /\ pc[p] \in {"SP_Scan", "UE_Resume"} => idx[p] < NPROCS
          /\ pc'[p] = "US_InitOther" => idx'[p] < NPROCS
      BY <2>1, NPROCSAssumption DEF IInv, BootIdx, IdxInRange
    <3> DEFINE a == pc[p]
               b == pc'[p]
               m == idx[p]
               n == idx'[p]
    <3>2. \/ a = "US_Check"     /\ b \in {"US_Load", "US_InitOwn"}
          \/ a = "US_InitOwn"   /\ b \in {"US_InitOther", "US_SetInit"} /\ n = 1
          \/ a = "US_InitOther" /\ b \in {"US_InitOther", "US_SetInit"} /\ n = m + 1
          \/ a = "US_SetInit"   /\ b = "US_Load"
          \/ a = "US_Load"      /\ b = "US_Store"
          \/ a = "US_Store"     /\ b = "US_Release"
          \/ a = "AL_Read"      /\ b = "AL_Release"
          \/ a = "SP_Scan"      /\ b = "SP_Scan" /\ n = m + 1
          \/ a = "SP_Scan"      /\ b \in {"SP_Write", "SP_Fail"}
          \/ a = "SP_Write"     /\ b = "SP_Release1"
          \/ a = "UE_Load"      /\ b = "UE_Store"
          \/ a = "UE_Store"     /\ b = "UE_SetTerm"
          \/ a = "UE_SetTerm"   /\ b = "UE_Resume" /\ n = 0
          \/ a = "UE_Resume"    /\ b \in {"UE_Resume", "UE_Release"} /\ n = m + 1
          \/ a = "PC_Recheck"   /\ b \in {"PC_InitPool", "PC_InitRelease"}
          \/ a = "PC_InitPool"  /\ b = "PC_SetInit"
          \/ a = "PC_SetInit"   /\ b = "PC_InitRelease"
          \/ a = "PC_Scan"      /\ b \in {"PC_Claim", "PC_Skip"}
          \/ a = "PC_Claim"     /\ b = "PC_ClaimRelease"
      BY ONLY <2>1, <2>2, <2>4, StepSection, p \in Proc, ClientStep(p)
    <3>3. SectionLeft(p)' < SectionLeft(p)
      BY ONLY <3>1, <3>2, p \in Proc, SMTT(60) DEF SectionLeft
    <3> QED BY <2>4, <3>3
  <2> QED BY <2>3, <2>4
<1> QED BY <1>1, Invariance, PTL DEF ClientSpec, SectionsAdvance

=============================================================================
