------------------------------ MODULE DelaySlot ------------------------------
(***************************************************************************)
(* The order in which a MIPS processor executes instructions: the one at   *)
(* pc, then the one at next; a jump or a taken branch replaces what comes  *)
(* after next, and a call remembers the address after its delay slot.      *)
(***************************************************************************)
EXTENDS Integers

CONSTANTS
  Addr,                  \* addresses of instructions
  Link                   \* values of the link register

VARIABLES pc, next, link

Init ==
  /\ pc = 0
  /\ next = 4
  /\ link \in Link

(* An instruction that does not transfer control.                          *)
Plain ==
  /\ pc' = next
  /\ next' = next + 4
  /\ UNCHANGED link

(* A transfer of control to target, after the delay slot.                  *)
Jump(target) ==
  /\ pc' = next
  /\ next' = target
  /\ UNCHANGED link

Call(target) ==
  /\ pc' = next
  /\ next' = target
  /\ link' = pc + 8

(* A branch that links although it is not taken.                           *)
CallNotTaken ==
  /\ pc' = next
  /\ next' = next + 4
  /\ link' = pc + 8

(* The return from a system call, which has no delay slot.                 *)
Resume ==
  /\ pc' = link
  /\ next' = link + 4
  /\ UNCHANGED link

Next == Plain \/ CallNotTaken \/ Resume \/ \E target \in Addr : Jump(target) \/ Call(target)

Spec == Init /\ [][Next]_<<pc, next, link>>

=============================================================================
