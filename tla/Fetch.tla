-------------------------------- MODULE Fetch --------------------------------
(***************************************************************************)
(* How the processor model goes from instruction to instruction: the       *)
(* generic behaviour that precedes every instruction, with the loop in     *)
(* which a paused processor waits, and the jumps and branches              *)
(* (mips_isa.cpp), whose fields are those the assembler's modifiers        *)
(* compute (mips/modifiers).                                               *)
(*                                                                         *)
(* The simulator has fetched the instruction at ac_pc when the generic     *)
(* behaviour starts.  That behaviour moves ac_pc on before it looks at     *)
(* pause, and the instruction itself runs after it, in the same step if    *)
(* the processor is not paused.  Between the two a paused processor lets   *)
(* the others run, one of which may resume it, or pause it again.          *)
(*                                                                         *)
(* Programs are arbitrary, but no transfer of control is in a delay slot   *)
(* (compilers do not put one there), so npc = ac_pc + 4 when one is        *)
(* fetched.  Addresses do not wrap around.  Of the instructions that write *)
(* RB[31], those that link are here.                                       *)
(***************************************************************************)
EXTENDS Integers

CONSTANTS
  LAST,                  \* address of the last instruction
  REGION                 \* the span a jump can reach, 2^28

ASSUME FetchAssumption ==
  /\ LAST \in Nat
  /\ LAST % 4 = 0
  /\ REGION \in Nat \ {0}
  /\ REGION % 4 = 0

VARIABLES
  ac_pc, npc,            \* the program counter and the next one
  pause,                 \* mips_isa::pause
  waiting,               \* inside the loop while (pause)
  fetched,               \* address of the instruction being executed
  ra                     \* RB[31]

vars == <<ac_pc, npc, pause, waiting, fetched, ra>>

Addr == {a \in 0 .. LAST : a % 4 = 0}

(* begin; ac_pc is the program's entry.                                    *)
Init ==
  /\ ac_pc = 0
  /\ npc = 4
  /\ pause \in BOOLEAN
  /\ waiting = FALSE
  /\ fetched = 0
  /\ ra = 0

(* Stores to the processor device by other processors.                     *)
PauseProcessor  == pause' = TRUE  /\ UNCHANGED <<ac_pc, npc, waiting, fetched, ra>>
ResumeProcessor == pause' = FALSE /\ UNCHANGED <<ac_pc, npc, waiting, fetched, ra>>

-----------------------------------------------------------------------------
(* The address of the instruction about to run, and ac_pc once the generic *)
(* behaviour has moved it on.                                              *)
Current == IF waiting THEN fetched ELSE ac_pc
Moved   == IF waiting THEN ac_pc ELSE npc

(* ac_pc = npc; npc = ac_pc + 4; and the first turn of while (pause).      *)
Wait ==
  /\ pause /\ ~waiting
  /\ waiting' = TRUE
  /\ fetched' = ac_pc
  /\ ac_pc' = npc
  /\ npc' = npc + 4
  /\ UNCHANGED <<pause, ra>>

(* Mutant: a processor that has waited moves on once more.                 *)
ExecuteAfterWait(target, link) ==
  /\ ~pause
  /\ ac_pc' = npc
  /\ npc' = target
  /\ ra' = link
  /\ fetched' = Current
  /\ waiting' = FALSE
  /\ UNCHANGED pause

(* The end of the generic behaviour, and an instruction that sets npc to   *)
(* target and RB[31] to link.                                              *)
Execute(target, link) ==
  /\ ~pause
  /\ ac_pc' = Moved
  /\ npc' = target
  /\ ra' = link
  /\ fetched' = Current
  /\ waiting' = FALSE
  /\ UNCHANGED pause

Plain == Execute(Moved + 4, ra)

-----------------------------------------------------------------------------
(* Transfers of control are not in a delay slot.                           *)
NotInSlot == Moved = Current + 4

(* Mutant: relative to the branch, not to its delay slot.                  *)
PcrelBranch(a, target) == (target - a) \div 4

(* The field of a branch at address a: (target - (a + 4)) >> 2; and where  *)
(* the branch goes: ac_pc + (imm << 2).                                    *)
Pcrel(a, target) == (target - (a + 4)) \div 4
Branch(imm)      == Moved + imm * 4

(* The field of a jump: target >> 2; and where the jump goes:              *)
(* (ac_pc & 0xF0000000) | (addr << 2).                                     *)
Align(target) == (target % REGION) \div 4
Region(addr)  == (Moved - (Moved % REGION)) + addr * 4

Reaches(target) == target - (target % REGION) = Moved - (Moved % REGION)

LinkedPc == Moved + 4

(* beq, bne, blez, bgtz, bltz, bgez                                        *)
BranchTaken(target)    == NotInSlot /\ Execute(Branch(Pcrel(Current, target)), ra)
BranchNotTaken         == NotInSlot /\ Plain

(* bltzal, bgezal; the register they test is not RB[31].                   *)
BranchLink(target)     == NotInSlot /\ Execute(Branch(Pcrel(Current, target)), LinkedPc)
BranchLinkNotTaken     == NotInSlot /\ Execute(Moved + 4, LinkedPc)

j(target)   == NotInSlot /\ Reaches(target) /\ Execute(Region(Align(target)), ra)
jal(target) == NotInSlot /\ Reaches(target) /\ Execute(Region(Align(target)), LinkedPc)

(* jr, to RB[31] or another register, and jalr to a register.              *)
jr(target)   == NotInSlot /\ Execute(target, ra)
jalr(target) == NotInSlot /\ Execute(target, LinkedPc)

(* return_from_syscall: the simulator catches the fetch from the address   *)
(* of a system call, reached by jal, and runs no instruction there.        *)
return_from_syscall ==
  /\ ~waiting
  /\ ac_pc' = ra
  /\ npc' = ra + 4
  /\ UNCHANGED <<pause, waiting, fetched, ra>>

-----------------------------------------------------------------------------
Next ==
  /\ Moved \in Addr
  /\ \/ PauseProcessor \/ ResumeProcessor \/ Wait
     \/ Plain \/ BranchNotTaken \/ BranchLinkNotTaken \/ return_from_syscall
     \/ \E target \in Addr :
          \/ BranchTaken(target) \/ BranchLink(target)
          \/ j(target) \/ jal(target) \/ jr(target) \/ jalr(target)

Spec == Init /\ [][Next]_vars

-----------------------------------------------------------------------------
Arch == INSTANCE DelaySlot WITH
  pc <- Current, next <- Moved, link <- ra, Link <- Addr \cup {LAST + 4}

(* Wherever a processor is paused and resumed, it executes each            *)
(* instruction once and in the order of the architecture: a transfer of    *)
(* control takes effect after one delay slot, and a call returns to the    *)
(* instruction after that.                                                 *)
DelaySlotSpec == Arch!Spec

(* What the instructions compute from ac_pc, whether or not the processor  *)
(* has waited between fetching and executing them, is the target from      *)
(* which the assembler made their fields.                                  *)
TargetsReached ==
  [][\A target \in Addr :
       /\ BranchTaken(target) \/ j(target) => Arch!Jump(target)
       /\ BranchLink(target) \/ jal(target) => Arch!Call(target)]_vars

=============================================================================
