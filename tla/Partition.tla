----------------------------- MODULE Partition -----------------------------
(***************************************************************************)
(* How sha_driver.c shares the files out: each of no_workers workers is    *)
(* given the range s_index .. e_index - 1 of partition_size files, and the *)
(* last one the remainder as well.                                         *)
(*                                                                         *)
(* s_index is accumulated over the loop of divide_into_sub_tasks; its      *)
(* value in turn w is w * partition_size.                                  *)
(***************************************************************************)
EXTENDS Integers

CONSTANTS
  MAX_NO_FILES,          \* 16 in sha_driver.c
  no_files,              \* 16, the files there are
  no_workers             \* 6, the threads created

ASSUME PartitionAssumption ==
  /\ MAX_NO_FILES \in Nat
  /\ no_files = MAX_NO_FILES
  /\ no_workers \in Nat \ {0}

File   == 0 .. no_files - 1
Worker == 0 .. no_workers - 1

partition_size == MAX_NO_FILES \div no_workers

(* Mutant: the remainder is not given to the last worker.                  *)
paramsWithoutRest(w) ==
  [s_index |-> w * partition_size, e_index |-> w * partition_size + partition_size]

(* Mutant: every range begins one file early.                              *)
paramsOverlapping(w) ==
  [s_index |-> IF w = 0 THEN 0 ELSE w * partition_size - 1,
   e_index |-> w * partition_size + partition_size
               + IF w = no_workers - 1 THEN no_files % no_workers ELSE 0]

(* paramsArr[w] after divide_into_sub_tasks.                               *)
params(w) ==
  [s_index |-> w * partition_size,
   e_index |-> w * partition_size + partition_size
               + IF w = no_workers - 1 THEN no_files % no_workers ELSE 0]

Share(w) == params(w).s_index .. params(w).e_index - 1

=============================================================================
