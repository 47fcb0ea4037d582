----------------------------- MODULE FetchProofs -----------------------------
(***************************************************************************)
(* Proofs about Fetch: with programs and jump regions of any size, pausing *)
(* and resuming a processor changes nothing about the order in which it    *)
(* executes instructions, and the fields the assembler makes lead to the   *)
(* targets it made them from.                                              *)
(***************************************************************************)
EXTENDS Fetch, TLAPS

(* Addresses, with those the program does not reach.                       *)
Aligned == {a \in Int : a % 4 = 0}

(* Everything that holds an address holds an aligned one.                  *)
AllAligned ==
  /\ ac_pc \in Aligned
  /\ npc \in Aligned
  /\ fetched \in Aligned
  /\ ra \in Aligned

(* The addresses of instructions are aligned.                              *)
LEMMA AddrAligned == Addr \subseteq Aligned
  BY FetchAssumption DEF Addr, Aligned

(* The address after an aligned one is aligned.                            *)
LEMMA AlignedSum == \A a \in Aligned : a + 4 \in Aligned
  BY DEF Aligned

(* An aligned address is four times its quotient by four.                  *)
LEMMA AlignedQuotient == \A a \in Aligned : (a \div 4) * 4 = a
  BY DEF Aligned

(* Going back by an aligned address, and by a multiple of 4.               *)
LEMMA AlignedDifference == \A a, b \in Aligned : a - b \in Aligned
  BY DEF Aligned

(* Multiples of four are aligned.                                          *)
LEMMA AlignedMultiple == \A k, q \in Int : (4 * k) * q \in Aligned
<1> SUFFICES ASSUME NEW k \in Int, NEW q \in Int PROVE (4 * k) * q \in Aligned
  OBVIOUS
<1> DEFINE p == k * q
<1>1. p \in Int
  OBVIOUS
<1>2. (4 * k) * q = 4 * p
  OBVIOUS
<1> HIDE DEF p
<1>3. QED
  BY <1>1, <1>2 DEF Aligned

(* What is left of an aligned address in its region is aligned.            *)
LEMMA AlignedOffset == \A a \in Aligned : a % REGION \in Aligned
<1> SUFFICES ASSUME NEW a \in Aligned PROVE a % REGION \in Aligned
  OBVIOUS
<1>1. REGION \in Nat \ {0} /\ REGION % 4 = 0 /\ a \in Int
  BY FetchAssumption DEF Aligned
<1>2. PICK k \in Int : REGION = 4 * k
  <2>1. REGION \div 4 \in Int /\ REGION = 4 * (REGION \div 4)
    BY <1>1
  <2>2. QED
    BY <2>1
<1>3. PICK q \in Int : a = REGION * q + (a % REGION)
  <2>1. a \div REGION \in Int /\ a = REGION * (a \div REGION) + (a % REGION)
    BY <1>1
  <2>2. QED
    BY <2>1
<1>4. a % REGION \in Int
  BY <1>1
<1>5. REGION * q \in Aligned
  BY <1>2, AlignedMultiple
<1>6. REGION * q \in Int /\ a % REGION = a - REGION * q
  BY <1>1, <1>3, <1>4
<1>7. QED
  BY <1>5, <1>6, AlignedDifference

-----------------------------------------------------------------------------
(* The field of a branch leads back to the target.                         *)
LEMMA BranchReaches ==
  ASSUME AllAligned, NEW target \in Addr, NotInSlot
  PROVE  Branch(Pcrel(Current, target)) = target
<1>1. target \in Aligned /\ Current \in Aligned
  BY AddrAligned DEF AllAligned, Current
<1>2. target - (Current + 4) \in Aligned
  BY <1>1, AlignedSum, AlignedDifference
<1>3. Pcrel(Current, target) * 4 = target - (Current + 4)
  BY <1>2, AlignedQuotient DEF Pcrel
<1>4. Current \in Int /\ target \in Int
  BY <1>1 DEF Aligned
<1> HIDE DEF Pcrel
<1>5. QED
  BY <1>3, <1>4 DEF Branch, NotInSlot

(* The field of a jump within its region leads back to the target.         *)
LEMMA JumpReaches ==
  ASSUME AllAligned, NEW target \in Addr, Reaches(target)
  PROVE  Region(Align(target)) = target
<1>1. target \in Aligned /\ target \in Int
  BY AddrAligned DEF Aligned
<1>2. target % REGION \in Aligned
  BY <1>1, AlignedOffset
<1>3. Align(target) * 4 = target % REGION
  BY <1>2, AlignedQuotient DEF Align
<1>4. target % REGION \in Int
  BY <1>2 DEF Aligned
<1> DEFINE o == target % REGION
<1>5. target - o + o = target
  BY <1>1, <1>4
<1>6. QED
  BY <1>3, <1>5 DEF Region, Reaches

-----------------------------------------------------------------------------
(* An instruction that sets npc to an aligned target and RB[31] to an      *)
(* aligned link keeps everything aligned.                                  *)
LEMMA ExecuteAligned ==
  ASSUME AllAligned, NEW target \in Aligned, NEW link \in Aligned, Execute(target, link)
  PROVE  AllAligned'
  BY DEF AllAligned, Execute, Moved, Current

(* Addresses stay aligned: the fields of branches and jumps are exact.     *)
THEOREM AlwaysAligned == Spec => []AllAligned
<1>1. Init => AllAligned
  BY DEF Init, AllAligned, Aligned
<1>2. AllAligned /\ [Next]_vars => AllAligned'
  <2> SUFFICES ASSUME AllAligned, [Next]_vars PROVE AllAligned'
    OBVIOUS
  <2>1. Moved \in Aligned /\ Moved + 4 \in Aligned /\ LinkedPc \in Aligned /\ ra \in Aligned
    BY AlignedSum DEF AllAligned, Moved, LinkedPc
  <2>2. CASE PauseProcessor \/ ResumeProcessor
    BY <2>2 DEF PauseProcessor, ResumeProcessor, AllAligned
  <2>3. CASE Wait
    BY <2>3, AlignedSum DEF Wait, AllAligned
  <2>4. CASE Plain \/ BranchNotTaken
    BY <2>1, <2>4, ExecuteAligned DEF Plain, BranchNotTaken
  <2>5. CASE BranchLinkNotTaken
    BY <2>1, <2>5, ExecuteAligned DEF BranchLinkNotTaken
  <2>6. CASE return_from_syscall
    BY <2>6, AlignedSum DEF return_from_syscall, AllAligned
  <2>7. ASSUME NEW target \in Addr, BranchTaken(target) \/ BranchLink(target)
        PROVE  AllAligned'
    BY <2>1, <2>7, AddrAligned, BranchReaches, ExecuteAligned DEF BranchTaken, BranchLink
  <2>8. ASSUME NEW target \in Addr, j(target) \/ jal(target)
        PROVE  AllAligned'
    BY <2>1, <2>8, AddrAligned, JumpReaches, ExecuteAligned DEF j, jal
  <2>9. ASSUME NEW target \in Addr, jr(target) \/ jalr(target)
        PROVE  AllAligned'
    BY <2>1, <2>9, AddrAligned, ExecuteAligned DEF jr, jalr
  <2>10. CASE UNCHANGED vars
    BY <2>10 DEF vars, AllAligned
  <2>11. QED
    BY <2>2, <2>3, <2>4, <2>5, <2>6, <2>7, <2>8, <2>9, <2>10 DEF Next
<1>3. QED
  BY <1>1, <1>2, PTL DEF Spec

-----------------------------------------------------------------------------
(* What the end of the generic behaviour and an instruction do together,   *)
(* as the architecture sees it: the instruction at pc has run.             *)
LEMMA ExecuteMoves ==
  ASSUME NEW target, NEW link, Execute(target, link)
  PROVE  Current' = Moved /\ Moved' = target /\ ra' = link
  BY DEF Execute, Current, Moved

(* A transfer of control outside a delay slot links to pc + 8.             *)
LEMMA LinkPastSlot ==
  ASSUME AllAligned, NotInSlot
  PROVE  LinkedPc = Current + 8
<1>1. Current \in Int
  BY DEF AllAligned, Aligned, Current
<1>2. QED
  BY <1>1 DEF NotInSlot, LinkedPc

(* The transfers whose targets are fields are those of the architecture.   *)
LEMMA FieldTransfers ==
  ASSUME AllAligned, NEW target \in Addr
  PROVE  /\ BranchTaken(target) \/ j(target) => Arch!Jump(target)
         /\ BranchLink(target) \/ jal(target) => Arch!Call(target)
<1>1. ASSUME BranchTaken(target) \/ j(target) PROVE Arch!Jump(target)
  BY <1>1, BranchReaches, JumpReaches, ExecuteMoves DEF BranchTaken, j, Arch!Jump
<1>2. ASSUME BranchLink(target) \/ jal(target) PROVE Arch!Call(target)
  BY <1>2, BranchReaches, JumpReaches, ExecuteMoves, LinkPastSlot
     DEF BranchLink, jal, Arch!Call
<1>3. QED
  BY <1>1, <1>2

(* What branches and jumps compute from ac_pc, before or after a pause, is *)
(* the target their fields were made from (mips_isa.cpp, mips/modifiers).  *)
THEOREM TargetsAlwaysReached == Spec => TargetsReached
<1>1. AllAligned /\ [Next]_vars =>
        [\A target \in Addr :
           /\ BranchTaken(target) \/ j(target) => Arch!Jump(target)
           /\ BranchLink(target) \/ jal(target) => Arch!Call(target)]_vars
  BY FieldTransfers
<1>2. QED
  BY <1>1, AlwaysAligned, PTL DEF Spec, TargetsReached

(* The generic behaviour, its pause loop and the transfers of control      *)
(* implement the architecture's order of instructions: pausing is a        *)
(* stuttering step, and a processor never repeats or skips an instruction. *)
THEOREM DelaySlotRefinement == Spec => DelaySlotSpec
<1>1. Init => Arch!Init
  BY FetchAssumption DEF Init, Arch!Init, Current, Moved, Addr
<1>2. AllAligned /\ [Next]_vars => [Arch!Next]_<<Current, Moved, ra>>
  <2> SUFFICES ASSUME AllAligned, [Next]_vars PROVE [Arch!Next]_<<Current, Moved, ra>>
    OBVIOUS
  <2>1. CASE PauseProcessor \/ ResumeProcessor
    BY <2>1 DEF PauseProcessor, ResumeProcessor, Current, Moved
  <2>2. CASE Wait
    BY <2>2 DEF Wait, Current, Moved
  <2>3. CASE Plain \/ BranchNotTaken
    BY <2>3, ExecuteMoves DEF Plain, BranchNotTaken, Arch!Next, Arch!Plain
  <2>4. CASE BranchLinkNotTaken
    BY <2>4, ExecuteMoves, LinkPastSlot
       DEF BranchLinkNotTaken, Arch!Next, Arch!CallNotTaken
  <2>5. CASE return_from_syscall
    BY <2>5 DEF return_from_syscall, Current, Moved, Arch!Next, Arch!Resume
  <2>6. ASSUME NEW target \in Addr,
               BranchTaken(target) \/ j(target) \/ BranchLink(target) \/ jal(target)
        PROVE  Arch!Next
    BY <2>6, FieldTransfers DEF Arch!Next
  <2>7. ASSUME NEW target \in Addr, jr(target) PROVE Arch!Next
    BY <2>7, ExecuteMoves DEF jr, Arch!Next, Arch!Jump
  <2>8. ASSUME NEW target \in Addr, jalr(target) PROVE Arch!Next
    BY <2>8, ExecuteMoves, LinkPastSlot DEF jalr, Arch!Next, Arch!Call
  <2>9. CASE UNCHANGED vars
    BY <2>9 DEF vars, Current, Moved
  <2>10. QED
    BY <2>1, <2>2, <2>3, <2>4, <2>5, <2>6, <2>7, <2>8, <2>9 DEF Next
<1>3. QED
  BY <1>1, <1>2, AlwaysAligned, PTL DEF Spec, DelaySlotSpec, Arch!Spec

=============================================================================
