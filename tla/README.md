# A verification of the MC723 lab 3 multiprocessor (group 4)

The repository is a simulated machine and the software that runs on it: eight
MIPS processors (ArchC models in SystemC) on one bus with a RAM, a lock device
and a device that pauses and resumes processors; on top of it a micro kernel, a
small thread library and two applications, a demo and a parallel SHA digest of
sixteen files. This directory models both halves in TLA+, checks small instances
with TLC and proves the most important results with TLAPS for every value of the
constants.

Paths below are relative to `src/project/`.

## 1. Inventory

| component | code | state | operations | meets the others through |
|---|---|---|---|---|
| lock memory | `memory_lock/` | the word at `LOCK_BASE` (0x800000) | a load answers the word and leaves 1 in it; a store overwrites it | bus |
| processor device | `multiprocessor/` | one data word per processor, all behind `PROC_BASE` (0x1000000) | a load answers the word; storing 0xFFFFFFFF pauses the processor, anything else resumes it | bus; `pause` in the processor model |
| bus | `bus/` | none | picks RAM, lock or processor device by address, and subtracts its base | every load and store |
| memory | `memory/` | 8 MB | word reads and writes | bus |
| processor model | `mips/mips_isa.cpp`, `mips/modifiers`, `*.ac` | `RB`, `hi`, `lo`, `ac_pc`, `npc`, `pause` | one behaviour per instruction, preceded by a generic one with the pause loop | bus |
| system calls | `mips/mips_syscall.cpp` | registers and RAM | buffers in and out, return, program arguments | processor model |
| debugger registers | `mips/mips_gdb_funcs.cpp` | registers | `reg_read`, `reg_write` | a debugger |
| platform | `main.cpp` | the parts above | connects, initialises, runs | |
| micro kernel | `sw/uos/uos.c`, `sw/main.c` | `initialized`, `initialized_cores`, `SHOULD_TERMINATE`, `exited`, the processor words | `uos_start`, `uos_main`, `uos_start_processor`, `uos_exit` | lock, processor words, function pointers in descriptors |
| thread library | `sw/pthread/pthread.c` | `__thread_pool`, `gLockPool`, `__pthread_initialized` | `pthread_acquire/release`, `pthread_create`, `pthread_join`, `__thread_call` | kernel, lock |
| demo | `sw/app/app.c` | `i`, `threads` | creates seven threads, joins them | library |
| SHA application | `sw/sha_driver.c` | `paramsArr`, `workers`, `in_data` | shares sixteen files out to six workers, joins them | library, files |
| SHA computation | `sw/sha/sha.c` | `SHA_INFO`, one per call | update, padding, compression | none: private to a thread |
| statistics, power tables, build | `mips/mips_stats.*`, `mips/arch_power_stats.H`, `mips/powersc/`, makefiles | counters | | none |

How they interact. All eight processors run the same program from its first
instruction. At the start only processor 0 runs, the others are paused. `main`
is `uos_main(uos_start())`: under the kernel lock a processor takes the next pid;
pid 0 becomes the main program, any other pid polls *the processor word of its
pid* for the address of a descriptor and calls it. `pthread_create` claims an
entry of the pool, describes the thread in it and calls `uos_start_processor`,
which stores the address in the first word that holds -1. That store is also
what resumes the processor of that number, and nothing else ties processor
numbers to pids. `pthread_join` polls the entry's state. When the application has
returned, `uos_exit` stores 0 in every word, thus resuming also those that were
never started, and every processor waits until all have counted themselves.

What is hard:

* **One lock word for two lock users.** The kernel's lock and the library's are
  the same word, never nested; before the first `pthread_create` the library's
  pointer is NULL, and its lock is then RAM word 0 and excludes nobody.
* **A store of 0 is a release whoever does it.** `uos_start_processor` releases
  twice on success (`uos.c:65` and `uos.c:73`).
* **Unlocked polling** of processor words, states, functions and `exited`.
* **`__thread_call` runs again and again** for a finished thread, whose word is
  never given back; every time it sets the state to RUNNING and back to FINISHED.
* **Increments are a load and a store** (`initialized_cores++`, `exited++`).
* **A pause may come between an instruction's fetch and its execution.**
* **No fairness of the lock**: it is a spin on test-and-set.
* **8 MB for everything.** Stacks are placed at fixed distances from the top of
  RAM, the heap grows from below, and nothing compares the two.
* **Stale locals.** `sha_info` is not cleared between two files.
* Fields cut out of words, undefined shifts, overflow tests, partitions with a
  remainder.

Nothing is persistent and no message can be lost, so there is no crash, recovery
or retry other than `pthread_create`'s loop on a refusal.

What makes each component right: the lock excludes; pids are distinct; a polled
word holds NULL or a descriptor, never -1; a started processor is not paused; a
thread's function runs once; a join means it has returned; nobody stops before
all have arrived, and then all do; each file is digested by exactly one worker; a
processor executes the architecture's instructions in the architecture's order
wherever it is paused; loads and stores are a memory of bytes; arithmetic
is arithmetic; every address on the bus is a word of its own; a stack is one
processor's; what is hashed is the file, padded.

## 2. Modules

```
Devices <- Uos <- Pthread <- Client <- ClientProofs         CriticalSection, ThreadLife (abstract)
                             Client <- AppDemo
                             Client, Partition <- ShaDriver
AppDemo, ClientProofs <- AppDemoProofs
ShaDriver, ClientProofs <- ShaDriverProofs
Layout <- Platform <- PlatformProofs (uses ShaMemory), MCPlatform    Devices, AddressSpace (abstract)
Layout, Partition <- ShaMemory <- MCShaMemory
Sha <- ShaProofs
Fetch <- FetchProofs                                            DelaySlot     (abstract)
Bits <- LoadStore <- LoadStoreProofs                            ByteMemory    (abstract)
Words <- Alu <- AluProofs
```

**`Devices`** the lock word and the processor words. Each operator is one bus
transaction. A turn of the spin that reads 1 writes 1 back and is a stuttering
step, so only the turn that reads 0 is an action. `owners` and `clobbered` are
history variables: who is between an acquire and its release, and whether a
release has hit the lock while somebody else was.

**`Uos`**, **`Pthread`**, **`AppDemo`**, **`ShaDriver`** the software. `pc[p]` is
the next access to shared memory of processor `p`; labels carry a prefix for the
function (`US` `uos_start`, `AL` the auxiliary loop, `SP` `uos_start_processor`,
`UE` `uos_exit`, `PC` `pthread_create`, `PJ` `pthread_join`, `TC` `__thread_call`,
`AP` and `SH` the demo, `SD` and `SW` the SHA driver). One step is *one* access
to shared memory with the register work that follows it, so every interleaving
of accesses is explored. Four steps make several accesses, none of which anybody
can tell apart: `PC_InitPool` (nobody but the caller looks at the pool before
`__pthread_initialized` is set), `PC_Claim` (under the lock, and only other
`pthread_create`s look at those fields), `PC_Describe` (the descriptor is not
published until `SP_Write`), and `SD_Divide` (only the main thread runs). The
fields of a descriptor that `AL_Call` reads have been complete since `PC_Claim`.

**`Client`** is what the two applications have in common, as a specification of its
own: the main program creates `NTHREADS` threads, joins them in that order and
returns; a thread's function begins and ends with a printf under the library's lock;
in between, printing or not, is left open. Its state is the loop counter, the array
of identifiers and two histories. `AppDemo` and `ShaDriver` extend it with their own
actions, and both are shown to implement it (`ClientSpec`, a property of both runs and
a theorem of both). The properties of the kernel and the library that need an
application to speak of are stated in `Client`, checked in `AppDemo` and proved of
`ClientSpec`, hence of both. So is `CanStep`, which says what a processor waits for: to
be resumed, for the lock, for a word that is not free, for the state in
`pthread_join`, for the count in `uos_exit`. The SHA driver's `workers` and the loop counter `index`
of its main thread are `Client`'s `threads` and `i`.

**`CriticalSection`**, **`ThreadLife`** what the lock and the library promise.
`CriticalSectionSpec` and `ThreadLifeSpec` say that the detailed model implements
them. Both promises end when the lock is clobbered.

**`Partition`** `divide_into_sub_tasks` as a function of the worker's number.

**`Layout`**, **`Platform`** the machine below the software. `Layout` is the
arithmetic of addresses. In `Platform` `main.cpp` builds the parts and initialises
the processors one by one (`init`, with `begin` and `set_prog_args`, each with its
own counter); then any processor that is not paused may `Load` and `Store`,
through `Port` and `Offset` of the bus, at the data, its own stack, the locks and
the processor device, beyond its last word too. There is no program in it: any
sequence of such accesses is one. `mem` is a history variable that follows
**`AddressSpace`**, the memory a program is promised, and `DevicesSpec` ties each
access *by name and address* to the operator of `Devices` it stands for, so that
`Devices`, on which all models of the software rest, is itself shown to be
implemented by the code of the simulator.

**`ShaMemory`** where the files of the SHA application come to lie in RAM, and
what the stacks do to them; from `ShaDriver` it keeps who may run when. `calloc`
and the sizes of the files in `sw/input` are external.

**`Sha`** the hash of one file after the other: `sha_init`, `sha_update` (length
count, whole blocks, rest), `sha_final`. A block is known by where its 64 bytes
come from, and `digest` is the sequence of blocks that `sha_transform` has been
given. `LIMIT` stands for the width of LONG.

**`Fetch`** the generic behaviour (`ac_pc = npc; npc = ac_pc + 4; while (pause)
wait`), jumps, branches and calls, the return from a system call, and the
assembler's `pcrel` and `align`. `waiting` is the point inside the loop.
**`DelaySlot`** is the architecture: the instruction at `pc`, then the one at
`next`. The mapping is `pc <- Current`, the instruction about to execute, so that
entering the loop is a stuttering step.

**`Bits`**, **`LoadStore`**, **`ByteMemory`** loads and stores on a RAM of words,
and the big-endian memory of bytes they amount to. These instructions only move
bits, so a word is the set of the places at which its bits are 1: `&` is an
intersection, `|` a union, a shift moves places, and all of that is within reach of
the provers. `ByteMemorySpec` ties every
instruction *by name and address* to its operation on bytes. Two shifts are as
wide as the word when the address is aligned (`mips_isa.cpp:195`, `:255`), which
C leaves undefined; `HighMask` is either outcome.

**`Words`**, **`Alu`** arithmetic, logic, shifts, products and quotients, each with any
contents of two registers and any destination, an operand included. Here a word is
the number its bits spell; the few logic instructions go through the places of the
bits and back (`Places`, `Spelt`).

Definitions called *Mutant* are what a plausible bug would turn the definition
after them into; no specification uses them. Each property is tried against one.

## 3. Runs

States are distinct states.

| run | instance | shows |
|---|---|---|
| `app_safety` | 4 processors, 2 threads, fair; 471,695 states | lock, pids, descriptors, one run per thread, join, rendezvous, no deadlock, nobody waiting for what cannot come, nor in a section at all, that sections are bounded, that the demo is a `Client`, both refinements, that the shutdown reaches all processors, one of them never started before, and that it takes a bounded number of accesses |
| `app_overcommit` | 3 processors, 3 threads, fair; 74,670 | no two processors are in sections at once, those entered with a NULL lock included, a thread is refused exactly if NPROCS - 1 have been created before it, words are never given back, a refusal is final, sections are left nevertheless |
| `sha_safety` | 3 processors, 5 files, 2 workers; 72,068 | each file digested once, by the time of the join; the SHA application is a `Client`, and waits where `Client` says |
| `sha_same_file` | same | *violation*, finding 1 |
| `sha_max_workers` | 3 processors, 3 workers | *violation*, finding 2 |
| `sha` | 18 sizes from 0 to 511 bytes, LONG of 10 bits; 1,192 | what is hashed is the padded file, for every kind of rest and stale content |
| `sha_memory` | the repository's numbers | *violation*, finding 4 |
| `platform` | 2 processors, 26,248 | address decoding, devices, and, for data below all stacks, that those are apart |
| `fetch` | 16 instructions, regions of 8; 22,493 | order of execution with pauses anywhere; targets |
| `load_store` | 2 words of 4 one-bit bytes, every register value; 4,087 | byte memory; unaligned pairs |
| `alu` | words of 4 bits, 3 registers; 74,610 | overflow test of `addi` where rt is not rs, products, quotients |
| `alu_add` | same | *violation*, finding 3 |

Why the bounds are enough. Four processors are the main program, two with
threads (who compete with each other and with it) and one that is never started
before the end; eight would add more of the second kind. Two threads make the
order of booting differ from the order of starting, so that pids and processor
numbers get mixed. Three threads on three processors are one more than the
processors that can serve them, and two that compete while the third is refused.
Five files for two workers leave a remainder; that shares are right for all sizes
is proved. In the processor model a byte of one bit keeps every relation between
the widths: four bytes to a word, two to a halfword, sign bits, shifts by every
multiple of a byte; the instructions treat no bit but the sign specially. Sixteen
instructions in two regions contain every combination of a branch, its slot, a
target on either side and a jump in its region. In `platform` two processors are
one that uses the lock and one that competes, one that is paused and one that
resumes it; the words used are the first and the last of each stack, RAM word 0
(whose offset is that of the lock and of processor 0), and one past the last
processor; what is left is proved. In `sha` the sizes are those around every
boundary of a block, of the padding and of `count_lo`, which a LONG of 10 bits
brings within reach of the bytes an `int` counts.

`CHECK_DEADLOCK FALSE` is set everywhere because the programs end, and because
a clobbered lock may leave everybody spinning. `DeadlockFree` says what the
checker would: as long as the lock has not been clobbered, and not all processors
have halted, some processor can step. `AwaitedIsServed` is about a single wait: as
long as main is in `pthread_join`, the thread it waits for is in a word, and some
processor already runs that polls this word or can still boot and come to poll it.
Both speak of `CanStep`'s guards and the program's labels, not of ENABLED, so that they
can be proved; `CanStepIsEnabled`, checked in both application runs, says that a
processor of which `CanStep` holds does have a step. That `pthread_create` repeats a
refused call for ever is a step each time, and no deadlock: it is `RefusalIsFinal`.

**Fairness.** `FairSpec` assumes weak fairness of each processor's step: the
simulator executes every processor that is not paused once per nanosecond of
simulated time (`wait(1, SC_NS)`). None is assumed of the lock. A spinning
processor is not fair competition: a step that acquires is disabled each time
another owns the lock, so weak fairness does not give it the lock, and rightly
so. `ShutdownCompletes` holds all the same, because after SHOULD_TERMINATE each
section is entered finitely often; and so does `SectionsEnd`, because who owns the lock
waits for nothing (`OwnersCanStep`) and each of its steps brings the release nearer
(`SectionsAdvance`: at most NPROCS + 5 of them, the memset of the pool being one). `ShutdownAdvances` says
how often: once the application has returned, a processor makes at most NPROCS + 15
more accesses that are no turn of a spin (`StepsLeft`), whoever wins the races for the
lock. These three need no fairness.

**Relative speeds** of the processors are left open. The simulator steps them in
turn, but how many instructions lie between two accesses is the compiler's
business.

**RAM word 0** is taken to be 0 in the models of the software (`Platform` leaves it
open). `memory.cpp:52` clears all bytes but byte 0;
the rest of word 0 is 0, and the program is taken to be loaded above it. Byte 0 is what
`new` left there: 8 MB, requested before anything has been freed, is served by a mapping
of zero pages, so the build produces no other value. Were word 0 not 0, the first `pthread_acquire` (before `gLockPool` is set) would spin for ever.

### Findings

1. `sha_same_file`. The second release in `uos_start_processor` (`uos.c:73`) may
   fall between another processor's acquire and its release. Two processors may
   then boot at once, read the same `initialized_cores`, take the same pid, poll
   the same word and run the same worker: both digest the same file, and truncate
   each other's output. `sw/sha/Read Me.txt:16-17` says that different files are
   processed by different threads. Properties that begin with `~clobbered` are
   those this breaks; the others hold in spite of it.
2. `sha_max_workers`. `sw/sha/Read Me.txt:19-20` allows as many workers as
   processors. The main program has processor 0, whose word is never -1, so the
   last worker is refused and `pthread_create` repeats the call for ever. This is not a
   matter of the instance: with fewer workers than processors none is ever refused
   (`EnoughProcessors`), with as many or more the main program never comes back
   (`TooManyWorkers`). The repository's six workers and seven demo threads are
   fewer than its eight processors.
3. `alu_add`. The overflow test of `add` (`mips_isa.cpp:365`) compares the wrong
   signs: it ends the simulation for 5 + (-1) and accepts the greatest number plus
   itself. `addi` has the right comparison. Both test the registers after the
   result has been written; both properties leave out the case that it has overwritten an
   operand (`fresh`). `addi` then never ends the simulation (`AddiNeverCatches`).
4. `sha_memory`. The input files take 6,960,085 bytes of heap and the stacks begin
   at 8,387,584 - *p* * 262,144, so that files lie where stacks are. Processor 6,
   resumed for the sixth worker, pushes its first frame into the last file when the
   program ends where `ShaMemory.cfg` says; for other ends it may be another processor,
   or the file before; `LongDataMeetsAStack` says why there is always one, and
   `ShortDataIsSafe` how much less data there would have to be: with six workers the heap
   has to end below 8,387,584 - 6 * 262,144, which is 145,365 bytes less than the files
   take even if the program took none. The worker
   that digests the last file cannot begin before the sixth
   processor has booted, so the digest is never that of the file that was read.
   `sw/sha/Read Me.txt:14-15` says that the digest of the file is computed.

## 4. Theorems

All are proved for every value of the constants that satisfies the `ASSUME`s:
at least one processor, at least one pool entry, between one and `MAX_THREADS`
threads; at least one worker, as many threads as workers, and as many files as
MAX_NO_FILES; addresses and regions in multiples of four; as many stacks as have room
in RAM; file sizes that an `int` holds; bytes of at least one bit and a RAM of at least
one word.

What is proved of the kernel and the library is proved of `ClientSpec`, that is for
every application that uses them as `Client` says; `DemoIsClient` and `DriverIsClient`
then carry it over to the two applications of the repository.

**`ClientProofs`, first part: the lock and the kernel.** `ClientTypeOK` and `ExclusiveOwner` are not inductive: an index is
in range because of who may be where. The inductive invariant `IInv` says:

* until `gLockPool` is set processor 0 is alone and all others wait at their first
  instruction, their words free (`Solo`); a processor is paused exactly while its
  word is free (`PausedIffFree`), which is why the memset of `uos_start` pauses
  nobody who runs;
* only processor 0 is ever in the main program (`MainIsZero`), because it counts
  itself before anybody else can (`PidZero`, `InitByZero`, `NoPidYet`);
* each counter is at most the number of processors that have added to it, *even
  when increments are torn apart* (`BootCount`, `ExitCount`), so pids and counts
  stay in range after the lock has been clobbered;
* loop counters, thread numbers and loaded words are in range where they are used
  (`IdxInRange`, `BootIdx`, `TidInRange`, `RegInRange`, `CounterInRange`);
* `owners` are exactly the processors at a label inside a section
  (`OwnersMatch`), of which there is at most one until a stray release
  (`ExclusiveOwner`), so that till then no increment is torn (`PidsFollow`,
  `DistinctPids`).

Processors let through by a NULL `gLockPool` own nothing, so `ExclusiveOwner` does not
speak of them; `SectionsExclude` does, by the labels alone, and holds because of `Solo`.

The proof has one lemma for each way of looking at a step (`StepLock` what it
does to the lock, `StepCores` to the count, `StepWords` to the words, ...), each
by cases on the actions; `NextIInv` then knows steps by those lemmas only.
`IInv`, and the invariants below that extend it, were checked by TLC on small
instances before they were proved.

| theorem | property |
|---|---|
| `Invariance` | `IInv` |
| `TypeCorrect` | `ClientTypeOK` |
| `MutualExclusion` | `ExclusiveOwner` |
| `NullLockExcludes` | `SectionsExclude` |
| `PidsDistinct` | `DistinctPids` |
| `LockRefinement` | `CriticalSectionSpec` |
| `StaysStarted` | `NeverPausedAgain` |
| `WordsStayGiven` | `WordsNeverFreed` |

**`ClientProofs`, second part: the pool and the words.** `IInv` says where each processor is; `PInv` adds what the
data say of how far the main program has come. Threads are claimed, described and
handed to a processor one after the other, so three counts (`UpTo`) say which
entries of the pool are idle (`Pool`, hence `ScanFollows`: the search stops at the
entry of the thread's own number, below `MAX_THREADS`), which have a function until
they have returned (`Done`) and which any word or processor may know (`Given`).
Words are given from the left and never taken back (`WordsInOrder`, `Scanned`), so
those given are at least as many as the processors that have started (`HasWord`,
`PidBelow`): the word of a pid, which is *not* the word that resumed the processor,
is never -1 (`RegGiven`). A refusal means that no word is free, and that stays.

| theorem | property |
|---|---|
| `WordsAreDescriptors` | `NoWildDescriptor` |
| `PoolSuffices` | `PoolNeverExhausted` (stated in `Pthread`, not run: a bound by counting) |
| `ExitsTogether` | `ExitRendezvous` |
| `RefusedForEver` | `RefusalIsFinal` |

**`ClientProofs`, third part: the life of a thread.** Why a thread runs once although its function is polled and
cleared outside the lock: `TInv` adds that no two words name one thread (`OneWord`),
and that while pids are distinct the processor whose word names it is the only one
that holds it (`OneHolder`). A function that has been entered and not yet cleared is
therefore in the hands of the processor that will clear it (`Entered`), so that who
finds it set has not entered it (`Callable`), and each is entered and left at most
once (`Returned`). `pthread_join` reads FINISHED, which only a return brings about
(`Done`, `Joins`), and by `Entered` whoever runs `__thread_call` again finds the
function cleared. `StepLife` then maps every step to a step of `ThreadLife` or a
stutter: the stage of a thread is determined by the two histories, the count of
threads described and the count of those joined (`StageIs`).

| theorem | property |
|---|---|
| `EntersOnce` | `RunsOnce` |
| `JoinWaits` | `JoinedIsDone` |
| `ThreadLifeRefinement` | `ThreadLifeSpec` |

**`ClientProofs`, fourth part: nobody waits in vain.** The invariants so far say that
nothing wrong happens; that something still can takes their converses, which `LInv`
adds to `TInv`. A thread handed out has a word until the program ends (`Served`: the
first free word is where the descriptor goes, `Aims`). While the lock is sound no
increment is lost: the counters *are* the number of processors that have added to them
(`BootFollows`, `ExitFollows`), and every pid below the first of them is somebody's. Who waits
in `uos_exit` has resumed everybody (`Resumed`).

Deadlock freedom then follows by cases (`NobodyStuck`). If somebody is in a section, he
can go on, since no section has anything to wait for (`OwnersGoOn`, which holds even of a
clobbered lock). If not, the lock is free, and two
other waits are left. Processor 0 in its program waits in `pthread_join` alone: then its
thread's word is not free, the processor of that number has been resumed, and the only
thing it may wait for is in `uos_exit`, which nobody has reached. Once processor 0 is in
`uos_exit` behind its loop everybody has been resumed, and if all of them wait there the
count is the number of processors. `NoThreadLost` needs more, because the processor that
serves a thread is not the one its word has resumed but the one whose *pid* is the number
of the word: if nobody has that pid, fewer processors have booted than words have been
given, so one that has been resumed has not booted yet (`WordIsServed`).

| theorem | property |
|---|---|
| `NoThreadLost` | `AwaitedIsServed` |
| `OwnersGoOn` | `OwnersCanStep` |
| `NobodyStuck` | `DeadlockFree` |

**`ClientProofs`, fifth part: the end.** `EInv` adds to `LInv` that the application's
second loop joins each thread once: thread *t* is created in turn *t* (`ThreadsInOrder`), so
that when the loop is left all have been joined (`AllJoined`), and therefore have returned
(`AllReturned`). Whoever is in `__thread_call` by then finds the function cleared or has
come to the clearing (`ReturnedIsLeft`), nobody enters a thread again, and everybody is at
a label of `Ending` (`WhoIsLeft`). From each of these a step lowers `StepsLeft` of the
processor that makes it (`StepEnding`), and it changes no other's (`StepAlone`). Together
with `NobodyStuck` this is the part of `ShutdownCompletes` that is about the code: until all
have halted some processor can step, and each step lowers a number that is bounded. What
is left is that a fair scheduler then makes one, which is a rule of temporal logic.

| theorem | property |
|---|---|
| `ShutdownIsBounded` | `ShutdownAdvances` |

**`ClientProofs`, sixth part: which threads get a processor.** `WInv` adds to `LInv` a
count of the words: `Seats` says that until the end exactly the words above the number of
threads handed out are free. It is inductive because the search starts at word 0 and
stops at the first free one (`Scanned`, so the word given is the next), because no other
store makes a word free or takes one, and because the memset of `uos_start` is over
before the first thread is created. So the *n*-th thread gets word *n*, and the NPROCS-th
finds none; since the main program repeats a refused call for ever (`RefusalIsFinal`), an
application with too many threads never returns. Nothing here rests on the lock.

| theorem | property |
|---|---|
| `FirstThreadsServed` | `RefusedOnlyWhenFull` |
| `NeverRefused` | NTHREADS < NPROCS: nobody is ever at `SP_Fail` |
| `TooManyNeverReturn` | NTHREADS >= NPROCS: SHOULD_TERMINATE is never set |

**`ClientProofs`, seventh part: sections are bounded.** `StepSection` lists where a step
leads inside a section; each of these lowers `SectionLeft`, the loops over the processor
words because their index rises and is in range (`IInv`). With `OwnersGoOn` this is the
part of `SectionsEnd` that is about the code.

| theorem | property |
|---|---|
| `SectionsBounded` | `SectionsAdvance` |

**`AppDemoProofs`.** Each action of `AppDemo` is an action of `Client` (`StepIsClient`),
so `Spec` implies `ClientSpec`. `TypeOK` adds that the demo stays at its own labels. Every
property that the runs `app_safety` and `app_overcommit` check is thus proved, except
`ShutdownCompletes`, `SectionsEnd` and `CanStepIsEnabled`, for which the prover has no rules.

| theorem | property |
|---|---|
| `DemoIsClient` | `ClientSpec` |
| `DemoTypes` | `TypeOK` |
| `DemoIsSafe` | `RunsOnce`, `JoinedIsDone`, `ExitRendezvous`, `DeadlockFree`, `OwnersCanStep`, `SectionsAdvance`, `SectionsExclude`, `ShutdownAdvances`, `ThreadLifeSpec`, `CriticalSectionSpec` of the demo |
| `DemoGetsProcessors` | `RefusedOnlyWhenFull` of the demo, `NeverRefused`, `TooManyNeverReturn` |

**`ShaDriverProofs`.** Three arguments meet. The *partition*: for every number of files
and workers each file is in exactly one share (`SharesExist`, `SharesDisjoint`,
`SharesCover`). The *threads*: the application is a `Client` (`DriverIsClient`), so `TInv`
holds of it, one processor runs a worker (`OneRunner`) and enters it once (`EnterNew`).
And the *data*, the inductive invariant `SInv`: the files are shared out before the
first thread is created (`Divided`); thread *t*, created in turn *t*, has argument *t*
(`ArgIsTid`, with `ThreadsInOrder` of `ClientProofs`), so whoever runs it has the share of that number
(`WorkerKnowsShare`); a worker's index stays in its share (`IndexInShare`), what it has
passed has been digested (`Digested`), and what lies ahead, or belongs to a worker not
entered yet, has not (`Fresh`, while the lock is sound). `Fresh` is what makes "at most
once" inductive: a second digest would have to come from another share, which is
disjoint, or another run, which there is not. "At least once" needs no lock:
`AllReturned` of `ClientProofs` says that every worker has returned when the second loop
ends, and `Digested` that their shares are done.

| theorem | property |
|---|---|
| `DriverIsClient` | `ClientSpec` |
| `EnoughProcessors` | no_workers < NPROCS: `ProcessorForEveryWorker` |
| `TooManyWorkers` | no_workers >= NPROCS: SHOULD_TERMINATE is never set |
| `DriverUsesThreads` | `RunsOnce`, `JoinedIsDone`, `ExitRendezvous`, `DeadlockFree`, `OwnersCanStep`, `SectionsAdvance`, `SectionsExclude`, `ShutdownAdvances`, `ThreadLifeSpec`, `CriticalSectionSpec` of the SHA application |
| `DriverTypes` | `TypeOK` |
| `FilesDigestedOnce` | `DigestedOnce` |
| `AllDigested` | `JoinedIsDigested` |

**`FetchProofs`.** `AllAligned` (every address is a multiple of four) is
inductive; under it `pcrel` and `align` lose no bits, so a branch or jump computes
the target its field was made from (`BranchReaches`, `JumpReaches`), also when a
pause came between. `DelaySlotRefinement` proves `DelaySlotSpec`,
`TargetsAlwaysReached` proves `TargetsReached`.

**`PlatformProofs`.** Where the addresses are (`Places`), what the bus makes of them
(`Decoded`, `Answers`) and that stacks have no word in common (`Apart`) are lemmas
about any number of processors and any stack size. The invariant adds that each
word of RAM was last written by its stack's processor, by `main`, or is common
data (`Written`), and that until the simulation starts nothing but `main` touches a
device (`Booting`). `AddressesCoherent` proves `Coherent`, `StacksNeverMeet`
`StacksApart`, `DevicesRefinement` `DevicesSpec`. `StacksApart` is about where two counters
place the stacks: `PlatformAssumption` puts all data below every stack, which the data of
the SHA application are not (finding 4). `LongDataMeetsAStack` and `ShortDataIsSafe`
are about finding 4: data as long as a stack that lie among the stacks hold the top of one;
data that end below the stack of the last worker's processor meet none, for every size of
the files, every division of them and every frame, all of them natural numbers (`DataSafe`, an inductive invariant of
`ShaMemory`).

**`ShaProofs`.** The invariant accounts for the file: blocks hashed, bytes left and
the two words of the length add up to it (`Accounted`), and before `sha_final` the
rest is in the buffer (`Buffered`). `EveryFilePadded` proves `HashedIsPadded` for
every size and every width of the counter.

**`LoadStoreProofs`.** For bytes of any width, a RAM of any size and any registers.
Everything is reduced to the four bytes of a word. Words with the same bytes are equal
(`SameBytes`, from `EachPlace`: every place lies in one byte), and whatever an
instruction computes has known bytes: a register filled from one side (`HighFilled`,
`LowFilled`), a word with a field replaced (`Replaced`), a word put together from bytes
(`Joined`). `MaskKeeps` says what the mask of `lwr` and `swl` leaves under each outcome
of the undefined shift; at the two addresses where it is undefined the promise is open
(`ByteMemory`), and an aligned pair is right under both outcomes (`NoShift`,
`StoreAligned`). The unaligned pairs follow by
saying which byte of which word each half moves (`Following`, `StoreAcross`). For the
refinement `WordAt` and the bytes of `ByteMemory` are joined alike (`ValueBytes`), loads
compare registers (`LoadIs`), stores compare memories byte by byte (`StoreIs`), and
there is one lemma for each group of instructions. The one invariant needed is that
registers and memory hold words (`Types`).

| theorem | property |
|---|---|
| `LoadsUnaligned` | `UnalignedLoad` |
| `StoresUnaligned` | `UnalignedStore` |
| `MemoryOfBytes` | `ByteMemorySpec` |

**`AluProofs`.** For words of any width. The signed reading of words rests on one fact,
that as many words are below the sign bit as above (`Halves`); it is proved by counting,
since 2^n is the number of subsets of 1..n (`Subsets`, `Doubled`). Then a sum overflows
exactly when the operands' signs agree and differ from the sum's (`SumFits`), a product
fits two words and comes back from them (`SignedProduct`, `UnsignedProduct`), C's
division of signed numbers leaves a quotient and a remainder in range except in its two
undefined cases (`Division`, `NoQuotient`), and that of unsigned ones except by zero
(`DivuStep`). The invariant is the conjunction of the
properties; what ties them to the code is one lemma per instruction (`AddiStep`,
`MultStep`, ...). `AddEndsWrongly`, part of it, completes finding 3: whenever `add` ends
the simulation (and has not overwritten an operand) nothing has overflowed.

| theorem | property |
|---|---|
| `AddiTests` | `AddiTestsOverflow`: rt and rs differ |
| `AddiNeverCatches` | `AddiMissesOwn` (stated in `AluProofs`): with rt = rs, `addi` never ends the simulation |
| `ProductIsWhole` | `WholeProduct` |
| `QuotientIsWhole` | `WholeQuotient` |
| `AddNeverCatches` | `AddEndsWrongly` (stated in `AluProofs`) |

**Model-checked only.** `ShutdownCompletes` and `SectionsEnd` (liveness under
fairness) and, in both applications, `CanStepIsEnabled` (ENABLED), for neither of which
the prover has rules. Every other property of a passing run is proved, and of
the two liveness properties the facts they rest on: `DeadlockFree` and `ShutdownAdvances`, of
`SectionsEnd` `OwnersCanStep` and `SectionsAdvance`. The findings are TLC's
counterexamples; of three of them `EnoughProcessors` and `TooManyWorkers`,
`LongDataMeetsAStack` and `ShortDataIsSafe`, and `AddNeverCatches` say more. Of `ShaMemory`
only the numbers of the repository are checked, and only what these two theorems say is proved.

## 5. Not modelled

* `uos_processor_retain`, `_yield`, `_halt` and `running_processors`: nothing
  calls them, so `uos.c:51` never succeeds.
* ERROR_OUT_OF_THREADS: the theorem `PoolSuffices` says it is not answered when no more
  threads are created than there are entries. `retval` of `pthread_join`: both
  applications pass NULL.
* What the SHA application does after a file could not be opened or read (it
  reports it and goes on with what is in memory), and `sequential_process` (not compiled in).
* The compression function of SHA: 80 rounds on 32-bit words, private to a thread.
  (`USE_MODIFIED_SHA` is not defined, so the schedule is that of SHA-0.)
* Words of RAM in no processor's stack but used by one processor only; a stack that
  grows beyond 256 kB; the values a program computes: `Platform` and `ShaMemory`
  know addresses. The heap's own bookkeeping lies between the files.
* The encoding of instructions, `syscall` and `break` (both end the simulation),
  and the buffers of system calls. Instructions that write `RB[31]` other than by linking are not in `Fetch`; no
  transfer of control is in a delay slot; misaligned halfwords and words are not
  accessed.
* The debugger's registers: they are read and written while the simulation stands
  still, and nothing in the repository does it.
* Statistics, power tables, makefiles: nothing in the program depends on them.

## 6. Plan

In this order.

1. *Done.* Devices, kernel, library, demo: safety, liveness, both refinements, and
   the proof of the inductive invariant. SHA application.
2. *Done.* Processor model: fetch and transfers of control with proof, loads and
   stores, arithmetic.
3. *Done.* `Sha` with proof.
4. *Done.* `Layout`, `Platform` with proof, `ShaMemory`.
5. *Done.* `ClientProofs`, second and third part: the words, the pool, the
   rendezvous, and the life of a thread.
6. *Done.* `Client`, of which the above is proved, and both applications shown to
   implement it; `ShaDriverProofs`.
7. *Done.* `Bits` and `LoadStoreProofs`, `AluProofs`: the processor model's data for
   every width.
8. *Done.* `divu` in `WholeQuotient`, with proof.
9. *Done.* The safety half of liveness: `DeadlockFree` without ENABLED and
   `AwaitedIsServed`, the fourth part of `ClientProofs`; `ShutdownAdvances`, the fifth.
10. *Done.* The same for `SectionsEnd`: `OwnersCanStep` and `SectionsAdvance`, a measure of
   what is left of a section; `RefusedOnlyWhenFull`, which threads get a processor;
   `ShortDataIsSafe`. What is left is out of the prover's reach (liveness, ENABLED).
