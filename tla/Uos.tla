-------------------------------- MODULE Uos --------------------------------
(***************************************************************************)
(* The kernel every processor runs (sw/uos/uos.c): the boot sequence       *)
(* uos_start, the loop of an auxiliary processor in uos_main, the search   *)
(* for a free processor in uos_start_processor, and the rendezvous of      *)
(* uos_exit.                                                               *)
(*                                                                         *)
(* A step is one access to memory shared between processors, together with *)
(* the register work up to the next one.  pc[p] names the access processor *)
(* p makes next; the prefix of a label is the function: US uos_start, AL   *)
(* the auxiliary loop, SP uos_start_processor, UE uos_exit.                *)
(*                                                                         *)
(* running_processors is left out: only uos_processor_retain, _yield and   *)
(* _halt change it and nothing calls them, so the test of uos.c:51 always  *)
(* fails and no processor word ever goes back to -1 through _halt.         *)
(***************************************************************************)
EXTENDS Devices

VARIABLES
  initialized,        \* static int initialized
  initialized_cores,  \* static int initialized_cores
  SHOULD_TERMINATE,   \* set once the application has returned
  exited,             \* static unsigned int exited
  pc,                 \* control point of each processor
  pid,                \* what uos_start returned to each processor, -1 before
  reg,                \* the word the processor loaded last
  idx,                \* its loop counter over the processor words
  tid                 \* the thread it creates, runs or joins

uosVars   == <<initialized, initialized_cores, SHOULD_TERMINATE, exited>>
localVars == <<pid, reg, idx, tid>>

Jump(p, from, to) ==
  /\ pc[p] = from
  /\ pc' = [pc EXCEPT ![p] = to]

UosInit ==
  /\ LockInit
  /\ ProcDeviceInit
  /\ initialized = FALSE
  /\ initialized_cores = 0
  /\ SHOULD_TERMINATE = FALSE
  /\ exited = 0
  /\ pc = [p \in Proc |-> "US_Acquire"]
  /\ pid = [p \in Proc |-> -1]
  /\ reg = [p \in Proc |-> 0]
  /\ idx = [p \in Proc |-> 0]
  /\ tid = [p \in Proc |-> 0]

(* The spin on __uos_lock.                                                   *)
Acquire(p, from, to) ==
  /\ Jump(p, from, to)
  /\ LockAcquire(p)
  /\ UNCHANGED <<devVars, uosVars, localVars>>

(* __uos_lock is set to 0.                                                       *)
Release(p, from, to) ==
  /\ Jump(p, from, to)
  /\ LockRelease(p)
  /\ UNCHANGED <<devVars, uosVars, localVars>>

-----------------------------------------------------------------------------
(* uos_start                                                               *)

(* Mutant: the boot does not take the lock.                                *)
US_AcquireNone(p) ==
  /\ Jump(p, "US_Acquire", "US_Check")
  /\ UNCHANGED <<lockVars, devVars, uosVars, localVars>>

US_Acquire(p) == Acquire(p, "US_Acquire", "US_Check")

US_Check(p) ==
  /\ Jump(p, "US_Check", IF initialized THEN "US_Load" ELSE "US_InitOwn")
  /\ UNCHANGED <<lockVars, devVars, uosVars, localVars>>

(* __uos_procs[0] = 0, then the same store again by the first memset.      *)
US_InitOwn(p) ==
  /\ Jump(p, "US_InitOwn", IF NPROCS = 1 THEN "US_SetInit" ELSE "US_InitOther")
  /\ ProcWrite(0, Null)
  /\ idx' = [idx EXCEPT ![p] = 1]
  /\ UNCHANGED <<lockVars, uosVars, pid, reg, tid>>

(* One word of memset(__uos_procs+1, 0xFF, (NPROCS-1)*sizeof(int)).        *)
US_InitOther(p) ==
  /\ Jump(p, "US_InitOther",
          IF idx[p] + 1 = NPROCS THEN "US_SetInit" ELSE "US_InitOther")
  /\ ProcWrite(idx[p], Free)
  /\ idx' = [idx EXCEPT ![p] = idx[p] + 1]
  /\ UNCHANGED <<lockVars, uosVars, pid, reg, tid>>

(* Mutant: initialized is never set.                                       *)
US_SetInitForgotten(p) ==
  /\ Jump(p, "US_SetInit", "US_Load")
  /\ UNCHANGED <<lockVars, devVars, uosVars, localVars>>

US_SetInit(p) ==
  /\ Jump(p, "US_SetInit", "US_Load")
  /\ initialized' = TRUE
  /\ UNCHANGED <<lockVars, devVars, initialized_cores, SHOULD_TERMINATE,
                 exited, localVars>>

(* pid = initialized_cores++ is a load and a store.                        *)
US_Load(p) ==
  /\ Jump(p, "US_Load", "US_Store")
  /\ reg' = [reg EXCEPT ![p] = initialized_cores]
  /\ UNCHANGED <<lockVars, devVars, uosVars, pid, idx, tid>>

(* Mutant: pid = ++initialized_cores.                                      *)
US_StorePreIncrement(p) ==
  /\ Jump(p, "US_Store", "US_Release")
  /\ initialized_cores' = reg[p] + 1
  /\ pid' = [pid EXCEPT ![p] = reg[p] + 1]
  /\ UNCHANGED <<lockVars, devVars, initialized, SHOULD_TERMINATE, exited,
                 reg, idx, tid>>

US_Store(p) ==
  /\ Jump(p, "US_Store", "US_Release")
  /\ initialized_cores' = reg[p] + 1
  /\ pid' = [pid EXCEPT ![p] = reg[p]]
  /\ UNCHANGED <<lockVars, devVars, initialized, SHOULD_TERMINATE, exited,
                 reg, idx, tid>>

(* Pid 0 enters the application, every other pid the auxiliary loop.       *)
US_Release(p) ==
  Release(p, "US_Release", IF pid[p] = 0 THEN "AP_Start" ELSE "AL_Test")

-----------------------------------------------------------------------------
(* uos_main: the loop of a processor whose pid is not 0                    *)

(* Mutant: while (1).                                                      *)
AL_TestNothing(p) ==
  /\ Jump(p, "AL_Test", "AL_Acquire")
  /\ UNCHANGED <<lockVars, devVars, uosVars, localVars>>

AL_Test(p) ==
  /\ Jump(p, "AL_Test", IF SHOULD_TERMINATE THEN "UE_Acquire" ELSE "AL_Acquire")
  /\ UNCHANGED <<lockVars, devVars, uosVars, localVars>>

AL_Acquire(p) == Acquire(p, "AL_Acquire", "AL_Read")

(* thr = __uos_procs[pid]: indexed by pid, not by the processor's number.  *)
AL_Read(p) ==
  /\ Jump(p, "AL_Read", "AL_Release")
  /\ reg' = [reg EXCEPT ![p] = procs[pid[p]]]
  /\ UNCHANGED <<lockVars, devVars, uosVars, pid, idx, tid>>

AL_Release(p) == Release(p, "AL_Release", "AL_Call")

-----------------------------------------------------------------------------
(* uos_start_processor(&__thread_pool[tid].os_thread): the descriptor of   *)
(* thread t is the word t + 1, which is neither NULL nor -1.               *)

Descriptor(t) == t + 1

SP_Acquire(p) ==
  /\ Jump(p, "SP_Acquire", "SP_Scan")
  /\ LockAcquire(p)
  /\ idx' = [idx EXCEPT ![p] = 0]
  /\ UNCHANGED <<devVars, uosVars, pid, reg, tid>>

(* if (__uos_procs[proc_id] < 0), else the next proc_id.                   *)
SP_Scan(p) ==
  /\ pc[p] = "SP_Scan"
  /\ \/ /\ procs[idx[p]] = Free
        /\ Jump(p, "SP_Scan", "SP_Write")
        /\ UNCHANGED idx
     \/ /\ procs[idx[p]] # Free
        /\ Jump(p, "SP_Scan",
                IF idx[p] + 1 = NPROCS THEN "SP_Fail" ELSE "SP_Scan")
        /\ idx' = [idx EXCEPT ![p] = idx[p] + 1]
  /\ UNCHANGED <<lockVars, devVars, uosVars, pid, reg, tid>>

(* Mutant: the descriptor of the next thread.                              *)
SP_WriteNext(p) ==
  /\ Jump(p, "SP_Write", "SP_Release1")
  /\ ProcWrite(idx[p], Descriptor(tid[p] + 1))
  /\ UNCHANGED <<lockVars, uosVars, localVars>>

SP_Write(p) ==
  /\ Jump(p, "SP_Write", "SP_Release1")
  /\ ProcWrite(idx[p], Descriptor(tid[p]))
  /\ UNCHANGED <<lockVars, uosVars, localVars>>

(* The release inside the loop, before the break (uos.c:65).               *)
SP_Release1(p) == Release(p, "SP_Release1", "SP_Release2")

(* The break leads to the release after the loop (uos.c:73): the lock is   *)
(* stored to again although this processor no longer owns it.              *)
SP_Release2(p) ==
  /\ Jump(p, "SP_Release2", "PC_Return")
  /\ LockStrayRelease(p)
  /\ UNCHANGED <<devVars, uosVars, localVars>>

(* Mutant: while (err == 0).                                               *)
SP_FailGivingUp(p) == Release(p, "SP_Fail", "PC_Return")

(* No free processor: release, return -1, and pthread_create tries again.  *)
SP_Fail(p) == Release(p, "SP_Fail", "SP_Acquire")

-----------------------------------------------------------------------------
(* uos_exit                                                                *)

(* uos_main of pid 0 after application_entry has returned.                 *)
UM_Terminate(p) ==
  /\ Jump(p, "UM_Terminate", "UE_Acquire")
  /\ SHOULD_TERMINATE' = TRUE
  /\ UNCHANGED <<lockVars, devVars, initialized, initialized_cores, exited,
                 localVars>>

(* Mutant: uos_exit does not take the lock.                                *)
UE_AcquireNone(p) ==
  /\ Jump(p, "UE_Acquire", "UE_Load")
  /\ UNCHANGED <<lockVars, devVars, uosVars, localVars>>

UE_Acquire(p) == Acquire(p, "UE_Acquire", "UE_Load")

(* exited++ is a load and a store.                                         *)
UE_Load(p) ==
  /\ Jump(p, "UE_Load", "UE_Store")
  /\ reg' = [reg EXCEPT ![p] = exited]
  /\ UNCHANGED <<lockVars, devVars, uosVars, pid, idx, tid>>

UE_Store(p) ==
  /\ Jump(p, "UE_Store", "UE_SetTerm")
  /\ exited' = reg[p] + 1
  /\ UNCHANGED <<lockVars, devVars, initialized, initialized_cores,
                 SHOULD_TERMINATE, localVars>>

UE_SetTerm(p) ==
  /\ Jump(p, "UE_SetTerm", "UE_Resume")
  /\ SHOULD_TERMINATE' = TRUE
  /\ idx' = [idx EXCEPT ![p] = 0]
  /\ UNCHANGED <<lockVars, devVars, initialized, initialized_cores, exited,
                 pid, reg, tid>>

(* Mutant: the loop stops at the processors that have booted.              *)
UE_ResumeBooted(p) ==
  /\ Jump(p, "UE_Resume",
          IF idx[p] + 1 = initialized_cores THEN "UE_Release" ELSE "UE_Resume")
  /\ ProcWrite(idx[p], Null)
  /\ idx' = [idx EXCEPT ![p] = idx[p] + 1]
  /\ UNCHANGED <<lockVars, uosVars, pid, reg, tid>>

(* __uos_procs[p] = 0 for every p: each store resumes a processor, the     *)
(* ones that were never started included.                                  *)
UE_Resume(p) ==
  /\ Jump(p, "UE_Resume",
          IF idx[p] + 1 = NPROCS THEN "UE_Release" ELSE "UE_Resume")
  /\ ProcWrite(idx[p], Null)
  /\ idx' = [idx EXCEPT ![p] = idx[p] + 1]
  /\ UNCHANGED <<lockVars, uosVars, pid, reg, tid>>

(* Mutant: uos_exit keeps the lock.                                        *)
UE_ReleaseNone(p) ==
  /\ Jump(p, "UE_Release", "UE_Wait")
  /\ UNCHANGED <<lockVars, devVars, uosVars, localVars>>

UE_Release(p) == Release(p, "UE_Release", "UE_Wait")

(* Mutant: while (exited < NPROCS - 1).                                    *)
UE_WaitOneLess(p) ==
  /\ exited >= NPROCS - 1
  /\ Jump(p, "UE_Wait", "Halted")
  /\ UNCHANGED <<lockVars, devVars, uosVars, localVars>>

(* while (exited != NPROCS); then exit() stops the processor.              *)
UE_Wait(p) ==
  /\ exited = NPROCS
  /\ Jump(p, "UE_Wait", "Halted")
  /\ UNCHANGED <<lockVars, devVars, uosVars, localVars>>

-----------------------------------------------------------------------------
UosStep(p) ==
  \/ US_Acquire(p) \/ US_Check(p)  \/ US_InitOwn(p) \/ US_InitOther(p)
  \/ US_SetInit(p) \/ US_Load(p)   \/ US_Store(p)   \/ US_Release(p)
  \/ AL_Test(p)    \/ AL_Acquire(p) \/ AL_Read(p)   \/ AL_Release(p)
  \/ SP_Acquire(p) \/ SP_Scan(p)   \/ SP_Write(p)   \/ SP_Release1(p)
  \/ SP_Release2(p) \/ SP_Fail(p)
  \/ UM_Terminate(p) \/ UE_Acquire(p) \/ UE_Load(p) \/ UE_Store(p)
  \/ UE_SetTerm(p) \/ UE_Resume(p) \/ UE_Release(p) \/ UE_Wait(p)

=============================================================================
