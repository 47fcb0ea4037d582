----------------------------- MODULE ShaMemory -----------------------------
(***************************************************************************)
(* The RAM of the SHA application: the main thread reads all files into    *)
(* the heap, which grows up from the end of the program; the stacks of the *)
(* processors grow down from where mips_isa.cpp has put them, and nothing  *)
(* keeps the two apart.                                                    *)
(*                                                                         *)
(* What ShaDriver says step by step is kept to what matters here: worker w *)
(* is run by the processor whose pid is w + 1, so not before w + 1 others  *)
(* than processor 0 have booted; and the processors resumed for the first  *)
(* w workers are 1 .. w.  A processor that has booted has at least the     *)
(* frame of main on its stack.                                             *)
(*                                                                         *)
(* External: calloc, which takes memory from the heap in the order of the  *)
(* calls, and the sizes, which are those of the files in sw/input.         *)
(***************************************************************************)
EXTENDS Layout, Partition, FiniteSets

CONSTANTS
  Size(_),       \* the bytes of each file
  PROGRAM_END,   \* where the program ends and the heap begins
  FRAME          \* the bytes a processor has on its stack at least

VARIABLES
  brk,           \* the end of the heap
  Tdata,         \* the file data read so far, in order: where it begins
  created,       \* workers created, hence processors resumed
  booted,        \* processors that have begun to run
  index,         \* the next file of each worker
  overwritten    \* history: files of which a stack has overwritten bytes

vars == <<brk, Tdata, created, booted, index, overwritten>>

Init ==
  /\ brk = PROGRAM_END
  /\ Tdata = <<>>
  /\ created = 0
  /\ booted = {}
  /\ index = [w \in Worker |-> params(w).s_index]
  /\ overwritten = {}

Read == DOMAIN Tdata

(* readFilesData: one turn of the loop, for file f.                        *)
readFile(f) ==
  /\ Read = 0 .. f - 1
  /\ Tdata' = [g \in 0 .. f |-> IF g = f THEN brk ELSE Tdata[g]]
  /\ brk' = brk + Size(f) + 5
  /\ UNCHANGED <<created, booted, index, overwritten>>

(* createWorkers: pthread_create finds processor created + 1 free.         *)
createWorker ==
  /\ Read = File /\ created < no_workers
  /\ created' = created + 1
  /\ UNCHANGED <<brk, Tdata, booted, index, overwritten>>

(* The files that have a byte among those from .. to - 1.                  *)
FilesAt(from, to) ==
  {f \in Read : Tdata[f] < to /\ from < Tdata[f] + Size(f)}

boot(p) ==
  /\ p \in (1 .. created) \ booted
  /\ booted' = booted \cup {p}
  /\ overwritten' = overwritten \cup FilesAt(StackTop(p) - FRAME, StackTop(p))
  /\ UNCHANGED <<brk, Tdata, created, index>>

(* Worker w is about to digest file index[w].                              *)
Digests(w) ==
  w < created /\ w + 1 \leq Cardinality(booted) /\ index[w] < params(w).e_index

compute_digest(w) ==
  /\ Digests(w)
  /\ index' = [index EXCEPT ![w] = @ + 1]
  /\ UNCHANGED <<brk, Tdata, created, booted, overwritten>>

Next ==
  \/ \E f \in File : readFile(f)
  \/ createWorker
  \/ \E p \in Proc : boot(p)
  \/ \E w \in Worker : compute_digest(w)

Spec == Init /\ [][Next]_vars

-----------------------------------------------------------------------------
(* What is digested of a file is what has been read from it.               *)
DigestIsOfTheFile == \A w \in Worker : Digests(w) => index[w] \notin overwritten

=============================================================================
