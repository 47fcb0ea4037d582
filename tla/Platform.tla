------------------------------ MODULE Platform ------------------------------
(***************************************************************************)
(* The machine main.cpp puts together: the processors, the bus, and behind *)
(* it RAM (memory.cpp), the lock memory (memory_lock.cpp) and the processor *)
(* device (multiprocessor.h).  main initialises the processors one after   *)
(* the other and starts the simulation; from then on each processor that   *)
(* is not paused loads and stores, one bus transaction at a time, since no *)
(* transport method waits.                                                 *)
(*                                                                         *)
(* A program is any sequence of loads and stores of words.  It is assumed  *)
(* to use the data of all processors, its own stack and the devices, and   *)
(* to store only 0 in a lock.  Addresses are those of the code, and the    *)
(* program uses a few of them.                                             *)
(***************************************************************************)
EXTENDS Layout

CONSTANTS
  Data,        \* RAM addresses of data all processors use
  Words,       \* the words a program stores, but in a lock 0; -1 is 0xFFFFFFFF
  Depths,      \* how far below its stack pointer a processor stores
  Locks,       \* addresses of lock words
  Processors   \* addresses in the processor device

ASSUME PlatformAssumption ==
  /\ LOCK_BASE \in Locks /\ Locks \subseteq LOCK_BASE .. PROC_BASE - 1
  /\ \A n \in Proc : PROC_BASE + 4 * n \in Processors
  /\ \A a \in Processors : a \in Nat /\ a >= PROC_BASE /\ (a - PROC_BASE) % 4 = 0
  /\ Depths \subseteq 4 .. DEFAULT_STACK_SIZE
  /\ Data \subseteq 0 .. StackTop(NPROCS) - 1
  /\ Words \subseteq Int

VARIABLES
  ram,                 \* the words of RAM written so far, the others are 0
  mLock,               \* those of the lock memory
  mProcessorData,      \* the word of each processor
  pause,               \* mips_isa::pause of each processor
  sp,                  \* RB[29] of each processor as its program begins
  processors_started,  \* static counter of mips_isa.cpp
  procNumber,          \* static counter of mips_syscall.cpp
  started,             \* multiprocessor::init: processors initialised so far
  owners, clobbered,   \* history, as in Devices
  writer,              \* history: who wrote each word of RAM last, Main if main did
  mem                  \* history: the memory the programs should see

vars == <<ram, mLock, mProcessorData, pause, sp, processors_started, procNumber,
          started, owners, clobbered, writer, mem>>

Main      == -1
Undefined == -2        \* the data of a response with status ERROR

Word(m, a)       == IF a \in DOMAIN m THEN m[a] ELSE 0
Stored(m, a, d)  == [x \in DOMAIN m \cup {a} |-> IF x = a THEN d ELSE m[x]]

(* The addresses at which there is something.                               *)
Mapped ==
  Data \cup Locks \cup {StackTop(p) - d : p \in Proc, d \in Depths}
  \cup {PROC_BASE + 4 * p : p \in Proc}

AS == INSTANCE AddressSpace WITH Address <- Mapped, LockAddress <- Locks

-----------------------------------------------------------------------------
(* ac_tlm_bus::transport: the port of an address, and the address on it.   *)
Port(a) == IF a < LOCK_BASE THEN "MEM" ELSE IF a < PROC_BASE THEN "LOCK" ELSE "PROC"

(* Mutant: the base of the processor device is not subtracted.             *)
OffsetLockOnly(a) ==
  IF Port(a) = "LOCK" THEN a - LOCK_BASE ELSE a

Offset(a) ==
  IF Port(a) = "MEM" THEN a ELSE IF Port(a) = "LOCK" THEN a - LOCK_BASE ELSE a - PROC_BASE

(* The data of the response to a READ.                                     *)
Answer(a) ==
  LET o == Offset(a) IN
  IF Port(a) = "MEM" THEN Word(ram, o)
  ELSE IF Port(a) = "LOCK" THEN IF o < LOCK_SIZE THEN Word(mLock, o) ELSE Undefined
  ELSE IF o \div 4 < NPROCS THEN mProcessorData[o \div 4] ELSE Undefined

-----------------------------------------------------------------------------
(* The constructors.  That of the memory leaves byte 0, thus part of word  *)
(* 0, as it finds it.                                                      *)
Init ==
  /\ ram \in {[a \in {0} |-> d] : d \in {0, 1}}
  /\ mLock = [o \in {a - LOCK_BASE : a \in Locks} |-> 0]
  /\ mProcessorData = [p \in Proc |-> IF p = 0 THEN 0 ELSE -1]
  /\ pause = [p \in Proc |-> FALSE]
  /\ sp = [p \in Proc |-> 0]
  /\ processors_started = 0 /\ procNumber = 0 /\ started = 0
  /\ owners = {} /\ clobbered = FALSE
  /\ writer = [a \in {} |-> Main]
  /\ mem = [a \in Mapped |-> Answer(a)]

(* The words of its strings and pointers that a program may look at: the   *)
(* first of each.                                                          *)
ArgWords(n) == {ArgBase(n), ArgBase(n) - 120}

(* Mutant: processors_started is not counted up.                           *)
beginTogether(p) ==
  /\ sp' = [sp EXCEPT ![p] = StackTop(processors_started)]
  /\ UNCHANGED processors_started

(* ac_behavior(begin)                                                      *)
begin(p) ==
  /\ sp' = [sp EXCEPT ![p] = StackTop(processors_started)]
  /\ processors_started' = processors_started + 1

set_prog_args ==
  /\ ram' = [a \in DOMAIN ram \cup ArgWords(procNumber) |->
               IF a \in ArgWords(procNumber) THEN 1 ELSE ram[a]]
  /\ writer' = [a \in DOMAIN writer \cup ArgWords(procNumber) |->
                  IF a \in ArgWords(procNumber) THEN Main ELSE writer[a]]
  /\ mem' = [a \in Mapped |-> IF a \in ArgWords(procNumber) THEN 1 ELSE mem[a]]
  /\ procNumber' = procNumber + 1

(* multiprocessor::init, one turn of its loop.                             *)
init(p) ==
  /\ started = p
  /\ started' = p + 1
  /\ begin(p)
  /\ set_prog_args
  /\ pause' = [pause EXCEPT ![p] = p > 0]
  /\ UNCHANGED <<mLock, mProcessorData, owners, clobbered>>

-----------------------------------------------------------------------------
(* Mutant: readm answers the lock and leaves it as it is.                  *)
lock_readmOnly(a) == UNCHANGED mLock

(* memory_lock::readm and writem                                           *)
lock_readm(a)     == mLock' = IF a < LOCK_SIZE THEN Stored(mLock, a, 1) ELSE mLock
lock_writem(a, d) == mLock' = IF a < LOCK_SIZE THEN Stored(mLock, a, d) ELSE mLock

(* multiprocessor::start_processor and stop_processor                      *)
proc_write(n, d) ==
  IF n < NPROCS
    THEN /\ mProcessorData' = [mProcessorData EXCEPT ![n] = d]
         /\ pause' = [pause EXCEPT ![n] = (d = -1)]
    ELSE UNCHANGED <<mProcessorData, pause>>

Stack(p) == {sp[p] - d : d \in Depths}

(* Processor p executes a load or a store to address a.                    *)
Access(p, a) ==
  /\ started = NPROCS /\ ~pause[p]
  /\ a \in Data \cup Stack(p) \cup Locks \cup Processors
  /\ UNCHANGED <<sp, processors_started, procNumber, started>>

Load(p, a) ==
  /\ Access(p, a)
  /\ IF Port(a) = "LOCK" THEN lock_readm(Offset(a)) ELSE UNCHANGED mLock
  /\ owners' = IF a = LOCK_BASE /\ Answer(a) = 0 THEN owners \cup {p} ELSE owners
  /\ AS!Load(a)
  /\ UNCHANGED <<ram, mProcessorData, pause, clobbered, writer>>

Store(p, a, d) ==
  /\ Access(p, a)
  /\ IF a \in Locks THEN d = 0 ELSE d \in Words
  /\ AS!Store(a, d)
  /\ \/ /\ Port(a) = "MEM"
        /\ ram' = Stored(ram, Offset(a), d)
        /\ writer' = Stored(writer, a, p)
        /\ UNCHANGED <<mLock, mProcessorData, pause, owners, clobbered>>
     \/ /\ Port(a) = "LOCK"
        /\ lock_writem(Offset(a), d)
        /\ owners' = IF a = LOCK_BASE THEN owners \ {p} ELSE owners
        /\ clobbered' = (clobbered \/ (a = LOCK_BASE /\ p \notin owners /\ owners # {}))
        /\ UNCHANGED <<ram, mProcessorData, pause, writer>>
     \/ /\ Port(a) = "PROC"
        /\ proc_write(Offset(a) \div 4, d)
        /\ UNCHANGED <<ram, mLock, owners, clobbered, writer>>

Accessible == Data \cup Locks \cup Processors \cup UNION {Stack(p) : p \in Proc}

Next ==
  \E p \in Proc :
    \/ init(p)
    \/ \E a \in Accessible :
         \/ Load(p, a)
         \/ \E d \in Words \cup {0} : Store(p, a, d)

Spec == Init /\ [][Next]_vars

-----------------------------------------------------------------------------
Ready == started = NPROCS

(* Once main has initialised the processors, the software finds what       *)
(* Devices says: the lock is free, word 0 is 0, the others are -1 and their *)
(* processors paused; and from then on a load of the lock is its           *)
(* test-and-set, a store its release, a store in a processor's word pauses *)
(* or resumes that processor, and no other access touches either device.   *)
D == INSTANCE Devices WITH
       lock   <- Word(mLock, 0),
       procs  <- mProcessorData,
       paused <- IF Ready THEN pause ELSE [p \in Proc |-> p # 0]

LoadOfDevice(p, a) ==
  /\ UNCHANGED D!devVars
  /\ IF a = LOCK_BASE /\ Word(mLock, 0) = 0 THEN D!LockAcquire(p) ELSE UNCHANGED D!lockVars

StoreToDevice(p, a, d) ==
  /\ IF a # LOCK_BASE THEN UNCHANGED D!lockVars
     ELSE IF p \in owners \/ owners = {} THEN D!LockRelease(p) ELSE D!LockStrayRelease(p)
  /\ IF \E n \in Proc : a = PROC_BASE + 4 * n
       THEN D!ProcWrite((a - PROC_BASE) \div 4, d) ELSE UNCHANGED D!devVars

DevicesSpec ==
  /\ D!LockInit /\ D!ProcDeviceInit
  /\ [][\A p \in Proc :
          /\ init(p) => UNCHANGED <<D!devVars, D!lockVars>>
          /\ \A a \in Accessible :
               /\ Load(p, a) => LoadOfDevice(p, a)
               /\ \A d \in Words \cup {0} : Store(p, a, d) => StoreToDevice(p, a, d)]_vars

(* A load from any address a program may use answers what AddressSpace     *)
(* says after the same loads and stores: each address is a word of its     *)
(* own, whichever device it is in, and no store is lost or hits another.   *)
Coherent == \A a \in Mapped : Answer(a) = mem[a]

(* No processor's stack is written by another one, and what main has left  *)
(* for processor 0, its arguments, by none.  This is about the places the  *)
(* two counters give to the stacks: Data is what lies below all of them.   *)
(* A program whose data reach higher meets them all the same, as that of   *)
(* the SHA application do (ShaMemory).                                     *)
StacksApart ==
  Ready =>
    /\ \A p \in Proc, a \in DOMAIN writer : a \in Stack(p) => writer[a] \in {p, Main}
    /\ \A a \in ArgWords(0) : writer[a] = Main

=============================================================================
