------------------------------- MODULE Layout -------------------------------
(***************************************************************************)
(* Who is given which addresses: RAM, the lock memory and the processor    *)
(* device side by side (bus.cpp, main.cpp), and in RAM, from the top, the  *)
(* program arguments (mips_syscall.cpp) and the stack of each processor    *)
(* (mips_isa.cpp).                                                         *)
(***************************************************************************)
EXTENDS Integers

CONSTANTS
  NPROCS,                \* number of processors (8 in uos.h and main.cpp)
  LOCK_BASE,             \* 0x800000 in bus.cpp and uos.h
  DEFAULT_STACK_SIZE     \* 256 * 1024 in mips_isa.cpp

PROC_BASE  == 2 * LOCK_BASE      \* LOCK_BASE << 1
LOCK_SIZE  == LOCK_BASE          \* memory_lock lock("memory_lock", 8*1024*1024)
AC_RAM_END == LOCK_BASE          \* ac_tlm_port DM:8M, mem("mem", 8*1024*1024)

(* The stacks fit into RAM.                                                *)
ASSUME LayoutAssumption ==
  /\ NPROCS \in Nat \ {0}
  /\ LOCK_BASE \in Nat /\ DEFAULT_STACK_SIZE \in Nat
  /\ 1024 + NPROCS * DEFAULT_STACK_SIZE \leq AC_RAM_END

Proc == 0 .. NPROCS - 1

(* The stack pointer of the processor that begins as number n.             *)
StackTop(n) == AC_RAM_END - 1024 - n * DEFAULT_STACK_SIZE

(* set_prog_args of the processor that is initialised as number n: 512     *)
(* bytes of strings from ArgBase(n) on, and 30 pointers below.             *)
ArgBase(n) == AC_RAM_END - 512 - n * 64 * 1024

=============================================================================
