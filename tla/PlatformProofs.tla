--------------------------- MODULE PlatformProofs ---------------------------
(***************************************************************************)
(* The machine of main.cpp is what the software takes it for, for any      *)
(* number of processors whose stacks fit into RAM, any programs, any data  *)
(* below the stacks and any words: the bus and the devices implement       *)
(* AddressSpace and Devices, and no two stacks meet.                       *)
(***************************************************************************)
EXTENDS Platform, TLAPS

StackWord(p, d) == StackTop(p) - d

TypeOK ==
  /\ started \in 0 .. NPROCS
  /\ processors_started = started /\ procNumber = started
  /\ sp \in [Proc -> Int] /\ \A p \in Proc : p < started => sp[p] = StackTop(p)
  /\ ram = [a \in DOMAIN ram |-> ram[a]]
  /\ mLock = [a \in DOMAIN mLock |-> mLock[a]]
  /\ mProcessorData \in [Proc -> Int]
  /\ pause \in [Proc -> BOOLEAN]
  /\ mem = [a \in Mapped |-> mem[a]]

(* Nobody is paused but by main until the simulation starts, and then a    *)
(* processor is paused as main has left it.                                *)
Booting ==
  started < NPROCS =>
    /\ \A p \in Proc : mProcessorData[p] = IF p = 0 THEN 0 ELSE -1
    /\ \A p \in Proc : p < started => pause[p] = (p # 0)
    /\ owners = {} /\ ~clobbered

Flag == clobbered \in BOOLEAN

(* The lock word, and who has written where.                               *)
LockWord == Word(mLock, 0) \in {0, 1}

Written ==
  \A a \in DOMAIN writer :
    \/ writer[a] = Main
    \/ writer[a] \in Proc /\ a \in Data
    \/ writer[a] \in Proc /\ \E d \in Depths : a = StackWord(writer[a], d)

Arguments == started > 0 => ArgWords(0) \subseteq DOMAIN writer

Inner == TypeOK /\ Booting /\ LockWord /\ Written /\ Arguments /\ Coherent

IInv == Inner /\ Flag

-----------------------------------------------------------------------------
(* A stack ends where the next one begins.                                 *)
LEMMA Tops ==
  ASSUME NEW p \in Nat, NEW q \in Nat, p < q
  PROVE  /\ StackTop(p) \in Int /\ StackTop(q) \in Int
         /\ StackTop(q) \leq StackTop(p) - DEFAULT_STACK_SIZE
         /\ StackTop(p) \leq AC_RAM_END - 1024
<1> DEFINE k == q - p - 1
<1>1. DEFAULT_STACK_SIZE \in Nat /\ LOCK_BASE \in Nat /\ k \in Nat
  BY LayoutAssumption
<1>2. p * DEFAULT_STACK_SIZE \in Nat /\ q * DEFAULT_STACK_SIZE \in Nat /\ k * DEFAULT_STACK_SIZE \in Nat
  BY <1>1
<1>3. q * DEFAULT_STACK_SIZE = p * DEFAULT_STACK_SIZE + DEFAULT_STACK_SIZE + k * DEFAULT_STACK_SIZE
  BY <1>1
<1> HIDE DEF k
<1> QED
  BY <1>1, <1>2, <1>3 DEF StackTop, AC_RAM_END

(* Where the addresses are.                                                *)
LEMMA Bases ==
  /\ NPROCS \in Nat \ {0} /\ LOCK_BASE \in Nat /\ LOCK_BASE >= 1024
  /\ PROC_BASE = 2 * LOCK_BASE /\ LOCK_SIZE = LOCK_BASE /\ AC_RAM_END = LOCK_BASE
  /\ StackTop(NPROCS) \in Nat /\ StackTop(NPROCS) < LOCK_BASE
<1>1. NPROCS * DEFAULT_STACK_SIZE \in Nat
  BY LayoutAssumption
<1> QED
  BY <1>1, LayoutAssumption DEF PROC_BASE, LOCK_SIZE, AC_RAM_END, StackTop

(* Where data, stacks, arguments and devices lie.                          *)
LEMMA Places ==
  /\ \A a \in Data : a \in Nat /\ a < StackTop(NPROCS) /\ a < LOCK_BASE
  /\ \A p \in Proc, d \in Depths :
       /\ StackWord(p, d) \in Nat /\ StackWord(p, d) >= StackTop(NPROCS)
       /\ StackWord(p, d) < LOCK_BASE - 1024
  /\ \A a \in Locks : a \in Nat /\ a >= LOCK_BASE /\ a < PROC_BASE
  /\ \A a \in Processors : a \in Int /\ a >= PROC_BASE
  /\ \A p \in Proc : p \in Nat /\ p < NPROCS /\ PROC_BASE + 4 * p \in Processors
  /\ LOCK_BASE \in Locks
<1>3. \A a \in Data : a \in Nat /\ a < StackTop(NPROCS) /\ a < LOCK_BASE
  BY Bases, PlatformAssumption
<1>4. ASSUME NEW p \in Proc, NEW d \in Depths
      PROVE  /\ StackWord(p, d) \in Nat /\ StackWord(p, d) >= StackTop(NPROCS)
             /\ StackWord(p, d) < LOCK_BASE - 1024
  <2>1. d \in Int /\ d >= 4 /\ d \leq DEFAULT_STACK_SIZE /\ p \in Nat /\ p < NPROCS
    BY Bases, LayoutAssumption, PlatformAssumption DEF Proc
  <2>2. /\ StackTop(p) \in Int /\ StackTop(NPROCS) \leq StackTop(p) - DEFAULT_STACK_SIZE
        /\ StackTop(p) \leq LOCK_BASE - 1024
    BY <2>1, Bases, Tops
  <2> QED
    BY <2>1, <2>2, Bases, LayoutAssumption DEF StackWord
<1>5. \A a \in Locks : a \in Nat /\ a >= LOCK_BASE /\ a < PROC_BASE
  BY Bases, PlatformAssumption
<1>6. \A p \in Proc : p \in Nat /\ p < NPROCS /\ PROC_BASE + 4 * p \in Processors
  BY Bases, PlatformAssumption DEF Proc
<1>7. LOCK_BASE \in Locks
  BY PlatformAssumption
<1>8. \A a \in Processors : a \in Int /\ a >= PROC_BASE
  BY Bases, PlatformAssumption
<1> QED
  BY ONLY <1>3, <1>4, <1>5, <1>6, <1>7, <1>8

(* No two stacks have a word in common.                                    *)
LEMMA Apart ==
  ASSUME NEW p \in Proc, NEW q \in Proc, NEW d \in Depths, NEW e \in Depths,
         StackWord(p, d) = StackWord(q, e)
  PROVE  p = q
<1>1. /\ d \in Int /\ d >= 4 /\ d \leq DEFAULT_STACK_SIZE
      /\ e \in Int /\ e >= 4 /\ e \leq DEFAULT_STACK_SIZE
      /\ p \in Nat /\ q \in Nat /\ DEFAULT_STACK_SIZE \in Nat
  BY Places, LayoutAssumption, PlatformAssumption
<1>2. ASSUME NEW m \in Nat, NEW n \in Nat, m < n, NEW i \in Int, NEW j \in Int,
             i \leq DEFAULT_STACK_SIZE, j >= 4
      PROVE  StackTop(m) - i # StackTop(n) - j
  BY <1>1, <1>2, Tops
<1> QED
  BY <1>1, <1>2 DEF StackWord

(* Which port the bus picks, and the address there.                        *)
LEMMA Decoded ==
  ASSUME NEW a \in Int
  PROVE  /\ a < LOCK_BASE => Port(a) = "MEM" /\ Offset(a) = a
         /\ a >= LOCK_BASE /\ a < PROC_BASE =>
              Port(a) = "LOCK" /\ Offset(a) = a - LOCK_BASE /\ Offset(a) < LOCK_SIZE
         /\ a >= PROC_BASE => Port(a) = "PROC" /\ Offset(a) = a - PROC_BASE
  BY Bases DEF Port, Offset

(* What is read at an address.                                             *)
LEMMA Answers ==
  ASSUME NEW a \in Int
  PROVE  /\ a < LOCK_BASE => Answer(a) = Word(ram, a)
         /\ a >= LOCK_BASE /\ a < PROC_BASE => Answer(a) = Word(mLock, a - LOCK_BASE)
         /\ \A p \in Proc : a = PROC_BASE + 4 * p => Answer(a) = mProcessorData[p]
<1>1. a < LOCK_BASE => Answer(a) = Word(ram, a)
  BY Decoded DEF Answer
<1>2. a >= LOCK_BASE /\ a < PROC_BASE => Answer(a) = Word(mLock, a - LOCK_BASE)
  BY Decoded DEF Answer
<1>3. ASSUME NEW p \in Proc, a = PROC_BASE + 4 * p PROVE Answer(a) = mProcessorData[p]
  <2>1. p \in Nat /\ p < NPROCS /\ a >= PROC_BASE
    BY <1>3, Places, Bases
  <2>2. Port(a) = "PROC" /\ Offset(a) = 4 * p
    BY <1>3, <2>1, Decoded, Bases
  <2>3. (4 * p) \div 4 = p
    BY <2>1
  <2> QED
    BY <2>1, <2>2, <2>3 DEF Answer
<1> QED
  BY <1>1, <1>2, <1>3

(* What a load answers after a step follows from what the step has written. *)
LEMMA Answers_Next ==
  ASSUME NEW a \in Int
  PROVE  /\ a < LOCK_BASE => Answer(a)' = Word(ram', a)
         /\ a >= LOCK_BASE /\ a < PROC_BASE => Answer(a)' = Word(mLock', a - LOCK_BASE)
         /\ \A p \in Proc : a = PROC_BASE + 4 * p => Answer(a)' = mProcessorData'[p]
<1>1. /\ a < LOCK_BASE => Answer(a)' = Word(ram', a)
      /\ a >= LOCK_BASE /\ a < PROC_BASE => Answer(a)' = Word(mLock', a - LOCK_BASE)
  BY Decoded DEF Answer, Port, Offset
<1>2. ASSUME NEW p \in Proc, a = PROC_BASE + 4 * p PROVE Answer(a)' = mProcessorData'[p]
  <2>1. p \in Nat /\ p < NPROCS /\ a >= PROC_BASE
    BY <1>2, Places, Bases
  <2>2. Port(a) = "PROC" /\ Offset(a) = 4 * p
    BY <1>2, <2>1, Decoded, Bases
  <2>3. (4 * p) \div 4 = p
    BY <2>1
  <2> QED
    BY <2>1, <2>2, <2>3 DEF Answer, Port, Offset
<1> QED
  BY <1>1, <1>2

-----------------------------------------------------------------------------
(* The flag for a stack written by another processor is a Boolean.         *)
LEMMA Flag_Next == Flag /\ [Next]_vars => Flag'
<1>1. ASSUME Flag, NEW p \in Proc, init(p) PROVE Flag'
  BY <1>1 DEF init, Flag
<1>2. ASSUME Flag, NEW p, NEW a, Load(p, a) PROVE Flag'
  BY <1>2 DEF Load, Flag
<1>3. ASSUME Flag, NEW p, NEW a, NEW d, Store(p, a, d) PROVE Flag'
  BY <1>3 DEF Store, Flag
<1>4. Flag /\ UNCHANGED vars => Flag'
  BY DEF vars, Flag
<1> QED
  BY <1>1, <1>2, <1>3, <1>4 DEF Next

(* The invariant at the start,                                             *)
LEMMA Init_IInv == Init => IInv
<1> SUFFICES ASSUME Init PROVE IInv
  OBVIOUS
<1>1. TypeOK
  BY Bases DEF Init, TypeOK
<1>2. Booting
  <2>1. \A p \in Proc : mProcessorData[p] = IF p = 0 THEN 0 ELSE -1
    BY DEF Init
  <2>2. \A p \in Proc : ~(p < started)
    BY Places DEF Init
  <2>3. owners = {} /\ ~clobbered
    BY DEF Init
  <2> QED
    BY <2>1, <2>2, <2>3 DEF Booting
<1>5. Written
  BY DEF Init, Written
<1>6. Arguments
  BY DEF Init, Arguments
<1>7. Flag
  BY DEF Init, Flag
<1>3. Word(mLock, 0) = 0
  BY DEF Init, Word
<1>4. Coherent
  BY DEF Init, Coherent
<1> QED
  BY <1>1, <1>2, <1>3, <1>4, <1>5, <1>6, <1>7 DEF IInv, Inner, LockWord

(* The kinds of addresses.                                                 *)
LEMMA Kinds ==
  ASSUME NEW a \in Mapped
  PROVE  /\ a \in Int
         /\ a < LOCK_BASE \/ a \in Locks \/ \E p \in Proc : a = PROC_BASE + 4 * p
         /\ a \in Locks <=> a >= LOCK_BASE /\ a < PROC_BASE
<1>1. CASE a \in Data
  BY <1>1, Places, Bases
<1>2. CASE a \in Locks
  BY <1>2, Places, Bases
<1>3. CASE \E p \in Proc, d \in Depths : a = StackWord(p, d)
  BY <1>3, Places, Bases
<1>4. CASE \E p \in Proc : a = PROC_BASE + 4 * p
  BY <1>4, Places, Bases
<1> QED
  BY <1>1, <1>2, <1>3, <1>4 DEF Mapped, StackWord

(* Where a processor loads and stores.                                     *)
LEMMA Accesses ==
  ASSUME TypeOK, NEW p \in Proc, NEW a, Access(p, a)
  PROVE  /\ started = NPROCS /\ ~pause[p] /\ a \in Int
         /\ UNCHANGED <<sp, processors_started, procNumber, started>>
         /\ \/ a < LOCK_BASE /\ (a \in Data \/ \E d \in Depths : a = StackWord(p, d))
            \/ a \in Locks /\ a >= LOCK_BASE /\ a < PROC_BASE
            \/ a \in Processors /\ a >= PROC_BASE /\ a \notin Locks
<1>1. sp[p] = StackTop(p)
  BY Places DEF Access, TypeOK
<1>2. CASE a \in Data
  BY <1>2, Places DEF Access
<1>3. CASE a \in Stack(p)
  <2>1. PICK d \in Depths : a = StackWord(p, d)
    BY <1>1, <1>3 DEF Stack, StackWord
  <2> QED
    BY <2>1, Places, Bases DEF Access
<1>4. CASE a \in Locks
  BY <1>4, Places DEF Access
<1>5. CASE a \in Processors
  BY <1>5, Places DEF Access
<1> QED
  BY <1>2, <1>3, <1>4, <1>5 DEF Access

(* when a processor is initialised,                                        *)
LEMMA init_IInv == ASSUME IInv, NEW p \in Proc, init(p) PROVE Inner'
<1> USE DEF IInv, Inner
<1>1. /\ started = p /\ started' = p + 1 /\ p \in Nat /\ p < NPROCS /\ NPROCS \in Nat
      /\ sp' = [sp EXCEPT ![p] = StackTop(p)]
      /\ processors_started' = p + 1 /\ procNumber' = p + 1
      /\ pause' = [pause EXCEPT ![p] = p > 0]
      /\ UNCHANGED <<mLock, mProcessorData, owners, clobbered>>
  BY Places, Bases DEF init, begin, set_prog_args, TypeOK
<1>2. ram' = [a \in DOMAIN ram \cup ArgWords(p) |-> IF a \in ArgWords(p) THEN 1 ELSE ram[a]]
  BY <1>1 DEF init, set_prog_args, TypeOK
<1>3. writer' = [a \in DOMAIN writer \cup ArgWords(p) |-> IF a \in ArgWords(p) THEN Main ELSE writer[a]]
  BY <1>1 DEF init, set_prog_args, TypeOK
<1>4. mem' = [a \in Mapped |-> IF a \in ArgWords(p) THEN 1 ELSE mem[a]]
  BY <1>1 DEF init, set_prog_args, TypeOK
<1>5. StackTop(p) \in Int
  BY <1>1, Tops
<1>6. TypeOK'
  <2>1. sp' \in [Proc -> Int] /\ \A q \in Proc : q < started' => sp'[q] = StackTop(q)
    BY <1>1, <1>5, Places DEF TypeOK
  <2>2. ram' = [a \in DOMAIN ram' |-> ram'[a]] /\ mem' = [a \in Mapped |-> mem'[a]]
    BY <1>2, <1>4
  <2> QED
    BY <1>1, <2>1, <2>2 DEF TypeOK
<1>7. Booting'
  BY <1>1, Places DEF Booting, TypeOK
<1>8. LockWord'
  BY <1>1 DEF LockWord, Word
<1>9. Written'
  BY <1>3 DEF Written
<1>10. Arguments'
  <2>1. CASE p = 0
    BY <2>1, <1>3 DEF Arguments
  <2>2. CASE p # 0
    BY <2>2, <1>1, <1>3 DEF Arguments
  <2> QED
    BY <2>1, <2>2
<1>11. Coherent'
  <2>1. \A a \in ArgWords(p) : a \in Int /\ a < LOCK_BASE
    BY <1>1, Bases DEF ArgWords, ArgBase
  <2> SUFFICES ASSUME NEW a \in Mapped PROVE Answer(a)' = mem'[a]
    BY DEF Coherent
  <2>2. Answer(a) = mem[a] /\ mem'[a] = IF a \in ArgWords(p) THEN 1 ELSE mem[a]
    BY <1>4 DEF Coherent
  <2>3. CASE a < LOCK_BASE
    <3>1. Word(ram', a) = IF a \in ArgWords(p) THEN 1 ELSE Word(ram, a)
      BY <1>2 DEF Word
    <3> QED
      BY <2>2, <2>3, <3>1, Kinds, Answers, Answers_Next
  <2>4. CASE ~(a < LOCK_BASE)
    <3>1. a \notin ArgWords(p) /\ Answer(a)' = Answer(a)
      BY <1>1, <2>1, <2>4, Kinds, Places, Answers, Answers_Next DEF Word
    <3> QED
      BY <2>2, <3>1
  <2> QED
    BY <2>3, <2>4
<1> QED
  BY <1>6, <1>7, <1>8, <1>9, <1>10, <1>11

(* after a load,                                                           *)
LEMMA Load_IInv == ASSUME IInv, NEW p \in Proc, NEW a, Load(p, a) PROVE Inner'
<1> USE DEF IInv, Inner
<1>1. /\ started = NPROCS /\ a \in Int /\ Access(p, a)
      /\ UNCHANGED <<sp, processors_started, procNumber, started,
                     ram, mProcessorData, pause, clobbered, writer>>
  BY Accesses DEF Load
<1>2. mem' = [x \in Mapped |-> IF x = a /\ a \in Locks THEN 1 ELSE mem[x]]
  BY DEF Load, AS!Load
<1>3. CASE a \in Locks
  <2>0. a >= LOCK_BASE /\ a < PROC_BASE
    BY <1>3, Places
  <2>1. mLock' = Stored(mLock, a - LOCK_BASE, 1)
    BY <1>1, <2>0, Decoded DEF Load, lock_readm
  <2>2. TypeOK'
    BY <1>1, <1>2, <2>1 DEF TypeOK, Stored
  <2>3. Booting' /\ Written' /\ Arguments'
    BY <1>1 DEF Booting, Written, Arguments, TypeOK
  <2>4. LockWord'
    BY <2>1 DEF LockWord, Word, Stored
  <2>5. Coherent'
    <3> SUFFICES ASSUME NEW x \in Mapped PROVE Answer(x)' = mem'[x]
      BY DEF Coherent
    <3>1. Answer(x) = mem[x] /\ mem'[x] = IF x = a THEN 1 ELSE mem[x]
      BY <1>2, <1>3 DEF Coherent
    <3>2. CASE x \in Locks
      <4>1. x \in Int /\ x >= LOCK_BASE /\ x < PROC_BASE /\ (x - LOCK_BASE = a - LOCK_BASE <=> x = a)
        BY <3>2, <2>0, <1>1, Places, Bases
      <4>2. Answer(x)' = Word(mLock', x - LOCK_BASE) /\ Answer(x) = Word(mLock, x - LOCK_BASE)
        BY <4>1, Answers, Answers_Next
      <4>3. Word(mLock', x - LOCK_BASE) =
              IF x - LOCK_BASE = a - LOCK_BASE THEN 1 ELSE Word(mLock, x - LOCK_BASE)
        BY ONLY <2>1 DEF Word, Stored
      <4> QED
        BY <3>1, <4>1, <4>2, <4>3
    <3>3. CASE x \notin Locks
      BY <3>1, <3>3, <1>1, <1>3, Kinds, Answers, Answers_Next
    <3> QED
      BY <3>2, <3>3
  <2> QED
    BY <2>2, <2>3, <2>4, <2>5
<1>4. CASE a \notin Locks
  <2>1. UNCHANGED mLock
    BY <1>1, <1>4, Accesses, Decoded DEF Load
  <2>2. mem' = mem
    BY <1>2, <1>4 DEF TypeOK
  <2>3. TypeOK' /\ LockWord'
    BY <1>1, <2>1, <2>2 DEF TypeOK, LockWord, Word
  <2>4. Booting' /\ Written' /\ Arguments'
    BY <1>1 DEF Booting, Written, Arguments, TypeOK
  <2>5. Coherent'
    BY <1>1, <2>1, <2>2 DEF Coherent, Answer, Word
  <2> QED
    BY <2>3, <2>4, <2>5
<1> QED
  BY <1>3, <1>4

(* after a store,                                                          *)
LEMMA Store_IInv ==
  ASSUME IInv, NEW p \in Proc, NEW a, NEW d \in Words \cup {0}, Store(p, a, d)
  PROVE  Inner'
<1> USE DEF IInv, Inner
<1>1. /\ started = NPROCS /\ a \in Int /\ Access(p, a)
      /\ UNCHANGED <<sp, processors_started, procNumber, started>>
  BY Accesses DEF Store
<1>2. mem' = [x \in Mapped |-> IF x = a THEN d ELSE mem[x]]
  BY DEF Store, AS!Store
<1>3. \A x \in Mapped : Answer(x) = mem[x] /\ mem'[x] = IF x = a THEN d ELSE mem[x]
  BY <1>2 DEF Coherent
<1>d. d \in Int /\ (a \in Locks => d = 0)
  BY PlatformAssumption DEF Store
<1>4. CASE Port(a) = "MEM"
  <2>0. a < LOCK_BASE /\ (a \in Data \/ \E e \in Depths : a = StackWord(p, e))
    BY <1>1, <1>4, Accesses, Decoded
  <2>1. /\ ram' = Stored(ram, a, d) /\ writer' = Stored(writer, a, p)
        /\ UNCHANGED <<mLock, mProcessorData, pause, owners, clobbered>>
    BY <1>1, <1>4, <2>0, Decoded DEF Store
  <2>2. TypeOK'
    BY <1>1, <1>2, <2>1 DEF TypeOK, Stored
  <2>3. Booting' /\ LockWord' /\ Arguments'
    BY <1>1, <2>1 DEF Booting, LockWord, Word, Arguments, Stored, TypeOK
  <2>4. Written'
    BY <2>0, <2>1 DEF Written, Stored
  <2>5. Coherent'
    <3> SUFFICES ASSUME NEW x \in Mapped PROVE Answer(x)' = mem'[x]
      BY DEF Coherent
    <3>1. CASE x < LOCK_BASE
      <4>1. Word(ram', x) = IF x = a THEN d ELSE Word(ram, x)
        BY ONLY <2>1 DEF Word, Stored
      <4> QED
        BY <1>3, <3>1, <4>1, Kinds, Answers, Answers_Next
    <3>2. CASE ~(x < LOCK_BASE)
      BY <1>3, <2>0, <2>1, <3>2, Kinds, Places, Answers, Answers_Next
    <3> QED
      BY <3>1, <3>2
  <2> QED
    BY <2>2, <2>3, <2>4, <2>5
<1>5. CASE Port(a) = "LOCK"
  <2>0. a \in Locks /\ a >= LOCK_BASE /\ a < PROC_BASE
    BY <1>1, <1>5, Accesses, Decoded
  <2>1. /\ mLock' = Stored(mLock, a - LOCK_BASE, d)
        /\ UNCHANGED <<ram, mProcessorData, pause, writer>>
    BY <1>1, <1>5, <2>0, Decoded DEF Store, lock_writem
  <2>2. TypeOK'
    BY <1>1, <1>2, <2>1 DEF TypeOK, Stored
  <2>3. Booting' /\ Written' /\ Arguments'
    BY <1>1, <2>1 DEF Booting, Written, Arguments, TypeOK
  <2>4. LockWord'
    BY <1>d, <2>0, <2>1 DEF LockWord, Word, Stored
  <2>5. Coherent'
    <3> SUFFICES ASSUME NEW x \in Mapped PROVE Answer(x)' = mem'[x]
      BY DEF Coherent
    <3>2. CASE x \in Locks
      <4>1. x \in Int /\ x >= LOCK_BASE /\ x < PROC_BASE /\ (x - LOCK_BASE = a - LOCK_BASE <=> x = a)
        BY <3>2, <2>0, <1>1, Places, Bases
      <4>2. Answer(x)' = Word(mLock', x - LOCK_BASE) /\ Answer(x) = Word(mLock, x - LOCK_BASE)
        BY <4>1, Answers, Answers_Next
      <4>3. Word(mLock', x - LOCK_BASE) =
              IF x - LOCK_BASE = a - LOCK_BASE THEN d ELSE Word(mLock, x - LOCK_BASE)
        BY ONLY <2>1 DEF Word, Stored
      <4> QED
        BY <1>3, <4>1, <4>2, <4>3
    <3>3. CASE x \notin Locks
      BY <1>3, <3>3, <2>0, <2>1, Kinds, Answers, Answers_Next
    <3> QED
      BY <3>2, <3>3
  <2> QED
    BY <2>2, <2>3, <2>4, <2>5
<1>6. CASE Port(a) = "PROC"
  <2>0. a \in Processors /\ a >= PROC_BASE /\ Offset(a) = a - PROC_BASE
    BY <1>1, <1>6, Accesses, Decoded
  <2>1. PICK n \in Nat : a = PROC_BASE + 4 * n /\ Offset(a) \div 4 = n
    BY <2>0, PlatformAssumption, Bases
  <2>2. proc_write(n, d) /\ UNCHANGED <<ram, mLock, owners, clobbered, writer>>
    BY <1>6, <2>1 DEF Store
  <2>3. \A q \in Proc : mProcessorData'[q] = IF q = n THEN d ELSE mProcessorData[q]
    BY <2>2, Places DEF proc_write, TypeOK
  <2>4. TypeOK'
    <3>1. mProcessorData' \in [Proc -> Int] /\ pause' \in [Proc -> BOOLEAN]
      BY <1>d, <2>2 DEF proc_write, TypeOK
    <3> QED
      BY <1>1, <1>2, <2>2, <3>1 DEF TypeOK
  <2>5. Booting' /\ Written' /\ Arguments' /\ LockWord'
    BY <1>1, <2>2 DEF Booting, Written, Arguments, LockWord, Word, TypeOK
  <2>6. Coherent'
    <3> SUFFICES ASSUME NEW x \in Mapped PROVE Answer(x)' = mem'[x]
      BY DEF Coherent
    <3>1. CASE \E q \in Proc : x = PROC_BASE + 4 * q
      <4>1. PICK q \in Proc : x = PROC_BASE + 4 * q
        BY <3>1
      <4>2. x \in Int /\ (q = n <=> x = a)
        BY <4>1, <2>1, Places, Bases
      <4>3. Answer(x)' = mProcessorData'[q] /\ Answer(x) = mProcessorData[q]
        BY <4>1, <4>2, Answers, Answers_Next
      <4> QED
        BY <1>3, <2>3, <4>2, <4>3
    <3>2. CASE ~\E q \in Proc : x = PROC_BASE + 4 * q
      <4>1. x \in Int /\ x < PROC_BASE
        BY <3>2, Kinds, Bases
      <4>2. x # a /\ mem'[x] = Answer(x)
        BY <1>3, <2>0, <4>1, Bases
      <4> QED
        <5>1. ram' = ram /\ mLock' = mLock
          BY <2>2
        <5>2. x < LOCK_BASE \/ (x >= LOCK_BASE /\ x < PROC_BASE)
          BY <4>1, Bases
        <5>3. Answer(x)' = Answer(x)
          BY ONLY <4>1, <5>1, <5>2, Answers, Answers_Next
        <5> QED
          BY <4>2, <5>3
    <3> QED
      BY <3>1, <3>2
  <2> QED
    BY <2>4, <2>5, <2>6
<1> QED
  BY <1>4, <1>5, <1>6 DEF Store

(* after any step,                                                         *)
LEMMA Next_IInv == IInv /\ [Next]_vars => IInv'
<1> SUFFICES ASSUME IInv, [Next]_vars PROVE IInv'
  OBVIOUS
<1>1. CASE UNCHANGED vars
  <2>1. TypeOK' /\ Booting' /\ LockWord' /\ Written' /\ Arguments'
    BY <1>1 DEF vars, IInv, Inner, TypeOK, Booting, LockWord, Written, Arguments, Word
  <2>2. Coherent'
    BY <1>1 DEF vars, IInv, Inner, Coherent, Answer, Word
  <2> QED
    BY <2>1, <2>2, Flag_Next DEF IInv, Inner
<1>2. CASE Next
  BY <1>2, init_IInv, Load_IInv, Store_IInv, Flag_Next DEF Next, IInv
<1> QED
  BY <1>1, <1>2

(* and so in every reachable state.                                        *)
LEMMA Invariance == Spec => []IInv
  BY Init_IInv, Next_IInv, PTL DEF Spec

-----------------------------------------------------------------------------
(* The programs see a memory in which each address is a word of its own,   *)
(* through the bus and whichever device it is in: Coherent in all states.  *)
THEOREM AddressesCoherent == Spec => []Coherent
<1>1. IInv => Coherent
  BY DEF IInv, Inner
<1> QED
  BY <1>1, Invariance, PTL

(* However many processors begin one after the other, the stack of each    *)
(* is its own, and processor 0's arguments are in no stack: StacksApart in *)
(* all states, for programs whose data lie below every stack               *)
(* (PlatformAssumption).                                                   *)
THEOREM StacksNeverMeet == Spec => []StacksApart
<1>1. IInv => StacksApart
  <2> SUFFICES ASSUME IInv, started = NPROCS PROVE StacksApart
    BY DEF StacksApart, Ready
  <2> USE DEF IInv, Inner
  <2>1. ASSUME NEW p \in Proc, NEW a \in DOMAIN writer, a \in Stack(p), writer[a] # Main
        PROVE  writer[a] = p
    <3>1. PICK d \in Depths : a = StackWord(p, d)
      BY <2>1, Places DEF Stack, StackWord, TypeOK
    <3>2. a \notin Data
      BY <3>1, Places, Bases
    <3>3. PICK e \in Depths : writer[a] \in Proc /\ a = StackWord(writer[a], e)
      BY <2>1, <3>2 DEF Written
    <3> QED
      BY <3>1, <3>3, Apart
  <2>2. ASSUME NEW a \in ArgWords(0) PROVE writer[a] = Main
    <3>1. a \in Int /\ a >= LOCK_BASE - 632 /\ a \in DOMAIN writer
      BY <2>2, Bases DEF ArgWords, ArgBase, Arguments
    <3>2. a \notin Data /\ \A p \in Proc, d \in Depths : a # StackWord(p, d)
      <4>1. StackTop(NPROCS) \leq LOCK_BASE - 1024
        BY Bases, Tops
      <4> QED
        BY <3>1, <4>1, Places, Bases
    <3> QED
      BY <3>1, <3>2 DEF Written
  <2> QED
    BY <2>1, <2>2 DEF StacksApart
<1> QED
  BY <1>1, Invariance, PTL

-----------------------------------------------------------------------------
(* The devices at the start,                                               *)
LEMMA DevicesAtInit == Init => D!LockInit /\ D!ProcDeviceInit
<1> SUFFICES ASSUME Init PROVE D!LockInit /\ D!ProcDeviceInit
  OBVIOUS
<1>1. Word(mLock, 0) = 0 /\ ~Ready
  BY Bases DEF Init, Word, Ready
<1>2. D!LockInit
  BY <1>1 DEF Init, D!LockInit
<1>3. D!Proc = Proc
  BY DEF D!Proc, Proc
<1> QED
  BY <1>1, <1>2, <1>3 DEF Init, D!ProcDeviceInit, D!Null, D!Free

(* when a processor is initialised,                                        *)
LEMMA DevicesAt_init ==
  ASSUME IInv, NEW p \in Proc, init(p)
  PROVE  UNCHANGED <<D!devVars, D!lockVars>>
<1> USE DEF IInv, Inner
<1>1. /\ started = p /\ started' = p + 1 /\ p \in Nat /\ p < NPROCS /\ NPROCS \in Nat
      /\ pause' = [pause EXCEPT ![p] = p > 0]
      /\ UNCHANGED <<mLock, mProcessorData, owners, clobbered>>
  BY Places, Bases DEF init, TypeOK
<1>2. ~Ready /\ Word(mLock, 0)' = Word(mLock, 0)
  BY <1>1 DEF Ready, Word
<1>3. (IF Ready THEN pause ELSE [q \in Proc |-> q # 0])' = [q \in Proc |-> q # 0]
  <2>1. CASE Ready'
    <3>1. \A q \in Proc : q = p \/ q < p
      BY <1>1, <2>1, Places DEF Ready
    <3>2. \A q \in Proc : pause'[q] = (q # 0)
      <4>1. pause'[p] = (p # 0)
        BY <1>1 DEF TypeOK
      <4>2. \A q \in Proc : q # p => pause'[q] = (q # 0)
        BY <1>1, <3>1 DEF TypeOK, Booting
      <4> QED
        BY <4>1, <4>2
    <3>3. pause' = [q \in Proc |-> pause'[q]]
      BY <1>1 DEF TypeOK
    <3>4. pause' = [q \in Proc |-> q # 0]
      BY ONLY <3>2, <3>3
    <3> QED
      BY <2>1, <3>4
  <2>2. CASE ~Ready'
    BY <2>2
  <2> QED
    BY <2>1, <2>2
<1> QED
  BY <1>1, <1>2, <1>3 DEF D!devVars, D!lockVars

(* when one is read,                                                       *)
LEMMA DevicesAt_Load ==
  ASSUME IInv, NEW p \in Proc, NEW a, Load(p, a)
  PROVE  LoadOfDevice(p, a)
<1> USE DEF IInv, Inner
<1>1. /\ started = NPROCS /\ started' = NPROCS /\ a \in Int /\ Access(p, a)
      /\ UNCHANGED <<mProcessorData, pause, clobbered>>
      /\ owners' = IF a = LOCK_BASE /\ Answer(a) = 0 THEN owners \cup {p} ELSE owners
  BY Accesses DEF Load
<1>2. UNCHANGED D!devVars
  BY <1>1 DEF D!devVars, Ready
<1>3. CASE a \in Locks
  <2>0. a >= LOCK_BASE /\ a < PROC_BASE /\ a - LOCK_BASE \in Int
    BY <1>3, Places, Bases
  <2>1. mLock' = Stored(mLock, a - LOCK_BASE, 1)
    BY <1>1, <2>0, Decoded DEF Load, lock_readm
  <2>2. a = LOCK_BASE <=> a - LOCK_BASE = 0
    BY <1>1, <2>0, Bases
  <2>3. Word(mLock, 0)' = IF a = LOCK_BASE THEN 1 ELSE Word(mLock, 0)
    BY ONLY <2>1, <2>2 DEF Word, Stored
  <2>4. a = LOCK_BASE => Answer(a) = Word(mLock, 0)
    BY <1>1, <2>0, <2>2, Answers
  <2>5. Word(mLock, 0) = 0 \/ Word(mLock, 0) = 1
    BY DEF LockWord
  <2> QED
    BY <1>1, <1>2, <2>3, <2>4, <2>5 DEF LoadOfDevice, D!LockAcquire, D!lockVars
<1>4. CASE a \notin Locks
  <2>1. UNCHANGED mLock /\ a # LOCK_BASE
    BY <1>1, <1>4, Accesses, Decoded, Places DEF Load
  <2> QED
    BY <1>1, <1>2, <2>1 DEF LoadOfDevice, D!lockVars, Word
<1> QED
  BY <1>3, <1>4

(* and when one is written.                                                *)
LEMMA DevicesAt_Store ==
  ASSUME IInv, NEW p \in Proc, NEW a, NEW d \in Words \cup {0}, Store(p, a, d)
  PROVE  StoreToDevice(p, a, d)
<1> USE DEF IInv, Inner
<1>1. started = NPROCS /\ started' = NPROCS /\ a \in Int /\ Access(p, a)
  BY Accesses DEF Store
<1>2. a \in Locks => d = 0
  BY DEF Store
<1>3. CASE Port(a) = "MEM"
  <2>0. a < LOCK_BASE
    BY <1>1, <1>3, Accesses, Decoded
  <2>1. UNCHANGED <<mLock, mProcessorData, pause, owners, clobbered>>
    BY <1>1, <1>3, <2>0, Decoded DEF Store
  <2>2. a # LOCK_BASE /\ \A n \in Proc : a # PROC_BASE + 4 * n
    BY <2>0, Places, Bases
  <2> QED
    BY <1>1, <2>1, <2>2 DEF StoreToDevice, D!lockVars, D!devVars, Word, Ready
<1>4. CASE Port(a) = "LOCK"
  <2>0. a \in Locks /\ a >= LOCK_BASE /\ a < PROC_BASE /\ a - LOCK_BASE \in Int
    BY <1>1, <1>4, Accesses, Decoded, Bases
  <2>1. /\ mLock' = Stored(mLock, a - LOCK_BASE, 0)
        /\ owners' = IF a = LOCK_BASE THEN owners \ {p} ELSE owners
        /\ clobbered' = (clobbered \/ (a = LOCK_BASE /\ p \notin owners /\ owners # {}))
        /\ UNCHANGED <<mProcessorData, pause>>
    BY <1>1, <1>2, <1>4, <2>0, Decoded DEF Store, lock_writem
  <2>2. a = LOCK_BASE <=> a - LOCK_BASE = 0
    BY <1>1, <2>0, Bases
  <2>3. Word(mLock, 0)' = IF a = LOCK_BASE THEN 0 ELSE Word(mLock, 0)
    BY ONLY <2>1, <2>2 DEF Word, Stored
  <2>4. \A n \in Proc : a # PROC_BASE + 4 * n
    BY <2>0, Places, Bases
  <2>5. UNCHANGED D!devVars
    BY <1>1, <2>1 DEF D!devVars, Ready
  <2>6. CASE a # LOCK_BASE
    <3>1. owners' = owners
      BY <2>1, <2>6
    <3>3. clobbered' = clobbered
      BY <2>1, <2>6 DEF Flag
    <3> QED
      BY <2>3, <2>4, <2>5, <2>6, <3>1, <3>3 DEF StoreToDevice, D!lockVars
  <2>7. CASE a = LOCK_BASE /\ (p \in owners \/ owners = {})
    <3>1. owners' = owners \ {p}
      BY <2>1, <2>7
    <3>3. clobbered' = clobbered
      BY <2>1, <2>7 DEF Flag
    <3> QED
      BY <2>3, <2>4, <2>5, <2>7, <3>1, <3>3 DEF StoreToDevice, D!LockRelease
  <2>8. CASE a = LOCK_BASE /\ ~(p \in owners \/ owners = {})
    <3>1. owners' = owners /\ clobbered' = (clobbered \/ owners \ {p} # {})
      BY <2>1, <2>8
    <3> QED
      BY <2>3, <2>4, <2>5, <2>8, <3>1 DEF StoreToDevice, D!LockStrayRelease
  <2> QED
    BY <2>6, <2>7, <2>8
<1>5. CASE Port(a) = "PROC"
  <2>0. a \in Processors /\ a >= PROC_BASE /\ Offset(a) = a - PROC_BASE /\ a # LOCK_BASE
    BY <1>1, <1>5, Accesses, Decoded, Bases, Places
  <2>1. PICK n \in Nat : a = PROC_BASE + 4 * n /\ Offset(a) \div 4 = n
    BY <2>0, PlatformAssumption, Bases
  <2>2. proc_write(n, d) /\ UNCHANGED <<mLock, owners, clobbered>>
    BY <1>5, <2>1 DEF Store
  <2>3. UNCHANGED D!lockVars
    BY <2>2 DEF D!lockVars, Word
  <2>4. (a - PROC_BASE) \div 4 = n
    BY <2>0, <2>1
  <2>5. (\E q \in Proc : a = PROC_BASE + 4 * q) <=> n < NPROCS
    BY <2>1, Bases, Places DEF Proc
  <2>6. CASE n < NPROCS
    BY <1>1, <2>0, <2>2, <2>3, <2>4, <2>5, <2>6
       DEF StoreToDevice, proc_write, D!ProcWrite, D!Free, Ready
  <2>7. CASE ~(n < NPROCS)
    BY <1>1, <2>0, <2>2, <2>3, <2>5, <2>7 DEF StoreToDevice, proc_write, D!devVars, Ready
  <2> QED
    BY <2>6, <2>7
<1> QED
  BY <1>3, <1>4, <1>5 DEF Store

(* The bus, the lock memory and the processor device are the Devices on    *)
(* which the models of the kernel and the library are built.               *)
THEOREM DevicesRefinement == Spec => DevicesSpec
<1>1. IInv /\ [Next]_vars =>
        [\A p \in Proc :
           /\ init(p) => UNCHANGED <<D!devVars, D!lockVars>>
           /\ \A a \in Accessible :
                /\ Load(p, a) => LoadOfDevice(p, a)
                /\ \A d \in Words \cup {0} : Store(p, a, d) => StoreToDevice(p, a, d)]_vars
  BY DevicesAt_init, DevicesAt_Load, DevicesAt_Store
<1> QED
  BY <1>1, DevicesAtInit, Invariance, PTL DEF Spec, DevicesSpec

-----------------------------------------------------------------------------
(* Quotient and remainder.                                                 *)
LEMMA Division ==
  ASSUME NEW n \in Nat, NEW m \in Nat, m > 0
  PROVE  n \div m \in Nat /\ n % m \in 0 .. m - 1 /\ n = m * (n \div m) + (n % m)
OBVIOUS

(* Data at least as long as a stack, anywhere between the top of the last  *)
(* processor's stack and that of the first, holds the first bytes of some  *)
(* processor's stack.  sha_driver.c reads three files that are more than   *)
(* three times as long into that part of RAM.                              *)
THEOREM LongDataMeetsAStack ==
  ASSUME DEFAULT_STACK_SIZE > 0,
         NEW lo \in Nat, NEW hi \in Nat, hi - lo >= DEFAULT_STACK_SIZE,
         StackTop(NPROCS - 1) \leq lo, hi \leq StackTop(0)
  PROVE  \E p \in Proc : lo < StackTop(p) /\ StackTop(p) \leq hi
<1> DEFINE top == AC_RAM_END - 1024
           p   == (top - lo - 1) \div DEFAULT_STACK_SIZE
           r   == (top - lo - 1) % DEFAULT_STACK_SIZE
<1>1. /\ DEFAULT_STACK_SIZE \in Nat /\ LOCK_BASE \in Nat /\ NPROCS \in Nat /\ top \in Int
      /\ StackTop(0) = top
  BY LayoutAssumption DEF StackTop, AC_RAM_END
<1>2. top - lo - 1 \in Nat
  BY <1>1
<1>3. /\ p \in Nat /\ r \in 0 .. DEFAULT_STACK_SIZE - 1
      /\ top - lo - 1 = DEFAULT_STACK_SIZE * p + r
  <2> DEFINE n == top - lo - 1
  <2>1. n \in Nat /\ DEFAULT_STACK_SIZE \in Nat /\ DEFAULT_STACK_SIZE > 0
    BY <1>1, <1>2
  <2> HIDE DEF n
  <2>2. /\ n \div DEFAULT_STACK_SIZE \in Nat /\ n % DEFAULT_STACK_SIZE \in 0 .. DEFAULT_STACK_SIZE - 1
        /\ n = DEFAULT_STACK_SIZE * (n \div DEFAULT_STACK_SIZE) + (n % DEFAULT_STACK_SIZE)
    BY ONLY <2>1, Division
  <2> QED
    BY ONLY <2>2 DEF n, p, r
<1>t. \A n \in Nat : StackTop(n) = top - n * DEFAULT_STACK_SIZE
  BY <1>1 DEF StackTop
<1>p. StackTop(p) = top - p * DEFAULT_STACK_SIZE
  BY <1>3, <1>t
<1> HIDE DEF top, p, r
<1>4. p * DEFAULT_STACK_SIZE \in Nat /\ DEFAULT_STACK_SIZE * p = p * DEFAULT_STACK_SIZE
  BY <1>1, <1>3
<1>5. StackTop(p) = lo + 1 + r
  BY <1>1, <1>3, <1>4, <1>p
<1>6. p < NPROCS
  <2>1. SUFFICES ASSUME p >= NPROCS PROVE FALSE
    BY <1>1, <1>3
  <2>2. NPROCS - 1 \in Nat /\ NPROCS - 1 < p
    BY <2>1, <1>1, <1>3, LayoutAssumption
  <2>3. StackTop(p) \leq StackTop(NPROCS - 1) - DEFAULT_STACK_SIZE /\ StackTop(NPROCS - 1) \in Int
    BY <2>2, <1>3, Tops
  <2> QED
    BY <2>3, <1>1, <1>3, <1>5
<1> QED
  BY <1>1, <1>3, <1>5, <1>6 DEF Proc

-----------------------------------------------------------------------------
(***************************************************************************)
(* The converse, for the SHA application (ShaMemory) in this layout: data  *)
(* that end below the frames of the processors its workers run on are      *)
(* safe.                                                                   *)
(***************************************************************************)
CONSTANTS MAX_NO_FILES, no_files, no_workers, Size(_), PROGRAM_END, FRAME

VARIABLES brk, Tdata, created, booted, index, overwritten

SM == INSTANCE ShaMemory

SizesAreNumbers ==
  /\ no_workers \in Nat \ {0}
  /\ \A f \in SM!File : Size(f) \in Nat
  /\ PROGRAM_END \in Nat /\ FRAME \in Nat

(* The heap ends below the lowest of those frames.                         *)
Short == brk \leq StackTop(no_workers) - FRAME

(* A worker is created when all files have been read, each below the end   *)
(* of the heap; no stack has met one before, nor ever if they are short.   *)
DataSafe ==
  /\ brk \in Nat /\ created \in 0 .. no_workers
  /\ \A f \in SM!Read : f \in SM!File /\ Tdata[f] \in Nat /\ Tdata[f] + Size(f) \leq brk
  /\ created > 0 => SM!Read = SM!File
  /\ booted \subseteq 1 .. created
  /\ created = 0 \/ Short => overwritten = {}

(* Every step of the SHA application keeps it.                             *)
LEMMA StepDataSafe ==
  ASSUME SizesAreNumbers, DataSafe, SM!Next
  PROVE  DataSafe'
<1> USE DEF SizesAreNumbers, DataSafe, Short, SM!Read
<1>1. CASE \E f \in SM!File : SM!readFile(f)
  <2> PICK f \in SM!File : SM!readFile(f)
    BY <1>1
  <2>1. /\ DOMAIN Tdata = 0 .. f - 1
        /\ Tdata' = [g \in 0 .. f |-> IF g = f THEN brk ELSE Tdata[g]]
        /\ brk' = brk + Size(f) + 5
        /\ UNCHANGED <<created, booted, index, overwritten>>
    BY DEF SM!readFile
  <2>2. f \in Nat /\ f \notin DOMAIN Tdata /\ Size(f) \in Nat
    BY <2>1 DEF SM!File
  <2>3. created = 0
    BY <2>2
  <2>4. ASSUME NEW g \in DOMAIN Tdata'
        PROVE  g \in SM!File /\ Tdata'[g] \in Nat /\ Tdata'[g] + Size(g) \leq brk'
    <3>1. g \in 0 .. f
      BY <2>1
    <3>2. CASE g = f
      BY <2>1, <2>2, <3>1, <3>2
    <3>3. CASE g # f
      <4>1. g \in DOMAIN Tdata /\ Tdata'[g] = Tdata[g]
        BY <2>1, <2>2, <3>1, <3>3
      <4>2. g \in SM!File /\ Tdata[g] \in Nat /\ Tdata[g] + Size(g) \leq brk
        BY <4>1
      <4> QED BY <2>1, <2>2, <4>1, <4>2
    <3> QED BY <3>2, <3>3
  <2>5. brk' \in Nat /\ created' = 0 /\ booted' = booted /\ overwritten' = overwritten
    BY <2>1, <2>2, <2>3
  <2>6. booted \subseteq 1 .. created /\ overwritten = {}
    BY <2>3
  <2> QED BY ONLY SizesAreNumbers, <2>3, <2>4, <2>5, <2>6
          DEF SizesAreNumbers, DataSafe, SM!Read
<1>2. CASE SM!createWorker
  BY <1>2 DEF SM!createWorker
<1>3. CASE \E p \in SM!Proc : SM!boot(p)
  <2> PICK p \in SM!Proc : SM!boot(p)
    BY <1>3
  <2>1. /\ p \in (1 .. created) \ booted /\ booted' = booted \cup {p}
        /\ overwritten' = overwritten \cup SM!FilesAt(SM!StackTop(p) - FRAME, SM!StackTop(p))
        /\ UNCHANGED <<brk, Tdata, created, index>>
    BY DEF SM!boot
  <2>2. created > 0 /\ p \in Nat /\ p \leq no_workers
    BY <2>1
  <2>3. ASSUME Short PROVE SM!FilesAt(SM!StackTop(p) - FRAME, SM!StackTop(p)) = {}
    <3>1. StackTop(p) \in Int /\ StackTop(no_workers) \in Int
      BY <2>2, LayoutAssumption DEF StackTop, AC_RAM_END
    <3>2. StackTop(no_workers) \leq StackTop(p)
      <4>1. CASE p = no_workers
        BY <3>1, <4>1
      <4>2. CASE p # no_workers
        <5>1. StackTop(no_workers) \leq StackTop(p) - DEFAULT_STACK_SIZE
          BY <2>2, <4>2, Tops
        <5> QED BY <3>1, <5>1, LayoutAssumption
      <4> QED BY <4>1, <4>2
    <3>3. SM!StackTop(p) = StackTop(p)
      BY DEF SM!StackTop, StackTop, SM!AC_RAM_END, AC_RAM_END
    <3>4. \A f \in DOMAIN Tdata : Tdata[f] + Size(f) \leq StackTop(p) - FRAME
      <4> TAKE f \in DOMAIN Tdata
      <4>1. Tdata[f] + Size(f) \leq brk /\ Tdata[f] \in Nat /\ Size(f) \in Nat
        OBVIOUS
      <4> QED BY <2>3, <3>1, <3>2, <4>1
    <3> QED BY <3>1, <3>3, <3>4 DEF SM!FilesAt
  <2> QED BY <2>1, <2>2, <2>3
<1>4. CASE \E w \in SM!Worker : SM!compute_digest(w)
  BY <1>4 DEF SM!compute_digest
<1> QED BY <1>1, <1>2, <1>3, <1>4 DEF SM!Next

(* readFilesData: as long as the data read end below the stack of the last *)
(* worker's processor, less the FRAME bytes that each processor uses,      *)
(* whatever is digested of a file is what has been read from it            *)
(* (DigestIsOfTheFile), in whatever order processors boot and workers run. *)
THEOREM ShortDataIsSafe ==
  ASSUME SizesAreNumbers
  PROVE  SM!Spec => [](Short => SM!DigestIsOfTheFile)
<1>1. SM!Init => DataSafe
  BY DEF SizesAreNumbers, SM!Init, DataSafe, SM!Read
<1>2. DataSafe /\ [SM!Next]_SM!vars => DataSafe'
  <2>1. DataSafe /\ UNCHANGED SM!vars => DataSafe'
    BY DEF SM!vars, DataSafe, Short, SM!Read
  <2> QED BY <2>1, StepDataSafe
<1>3. DataSafe => (Short => SM!DigestIsOfTheFile)
  BY DEF DataSafe, SM!DigestIsOfTheFile
<1> QED BY <1>1, <1>2, <1>3, PTL DEF SM!Spec

=============================================================================
