---------------------------- MODULE AddressSpace ----------------------------
(***************************************************************************)
(* What the bus and the devices behind it promise a program: a memory in   *)
(* which every address is a word of its own.  A store writes that word and *)
(* no other, a load changes nothing, but for the locks, in which it leaves *)
(* 1.                                                                      *)
(***************************************************************************)
CONSTANTS
  Address,       \* the addresses at which there is something
  LockAddress    \* those of the locks

VARIABLE mem     \* the word a load from each address answers

Load(a) ==
  mem' = [x \in Address |-> IF x = a /\ a \in LockAddress THEN 1 ELSE mem[x]]

Store(a, d) ==
  mem' = [x \in Address |-> IF x = a THEN d ELSE mem[x]]

=============================================================================
