-------------------------------- MODULE Sha --------------------------------
(***************************************************************************)
(* The digest of one file after the other (sw/sha/sha.c), as a worker of   *)
(* sha_driver.c computes it: sha_init, one sha_update with the whole file, *)
(* sha_final.  sha_info is a local variable of compute_digest, so each     *)
(* call finds in it what the stack holds: nothing the program wrote at     *)
(* first, and the last call's leavings from then on.                       *)
(*                                                                         *)
(* What sha_transform computes from a block is left out, and which blocks  *)
(* it is given is kept: `digest` is the sequence of the blocks taken in    *)
(* since sha_init.  A byte is known by where it comes from.                *)
(*                                                                         *)
(* Nothing here is shared with another processor: the file has been read   *)
(* before the workers start; ShaMemory says what may become of it then.    *)
(***************************************************************************)
EXTENDS Integers, Sequences

CONSTANTS
  LIMIT,       \* bytes whose bits a LONG can count: 2^32 / 8 in the code
  Sizes        \* the sizes of the files

SHA_BLOCKSIZE == 64

ASSUME ShaAssumption ==
  /\ LIMIT \in Nat \ {0}
  /\ LIMIT % SHA_BLOCKSIZE = 0
  /\ Sizes \subseteq 0 .. 4 * LIMIT - 1         \* `int count`

VARIABLES
  pc,          \* the next statement
  size,        \* the size of the file, sha_stream's argument
  buffer,      \* sha_update: the bytes of the file before `buffer`
  count,       \* sha_update: the bytes of it that are left
  count_lo, count_hi,
  data,        \* the 64 bytes of sha_info->data
  digest

shaInfo == <<count_lo, count_hi, data, digest>>
vars    == <<pc, size, buffer, count, shaInfo>>

LONGS == 8 * LIMIT       \* a LONG is a number below LONGS

Text(i) == <<"text", i>>                        \* byte i of the file
Mark    == <<"byte", 128>>                      \* 0x80
Zero    == <<"byte", 0>>
Hi(v)   == <<"hi", v>>                          \* a byte of the word v
Lo(v)   == <<"lo", v>>
Unset   == <<"unset", 0>>

Init ==
  /\ pc = "init"
  /\ size \in Sizes
  /\ buffer = 0 /\ count = 0 /\ count_lo = 0 /\ count_hi = 0
  /\ data = [j \in 0 .. 63 |-> Unset]
  /\ digest = <<>>

-----------------------------------------------------------------------------
(* sha_transform on the 64 bytes of each block in turn.                    *)
sha_transform(blocks) == digest' = digest \o blocks

(* Mutant: count_hi keeps the value the last file left in it.              *)
sha_initLowOnly ==
  /\ pc = "init" /\ pc' = "count"
  /\ digest' = <<>> /\ count_lo' = 0
  /\ UNCHANGED <<size, buffer, count, count_hi, data>>

sha_init ==
  /\ pc = "init" /\ pc' = "count"
  /\ digest' = <<>> /\ count_lo' = 0 /\ count_hi' = 0
  /\ UNCHANGED <<size, buffer, count, data>>

(* sha_update, up to the loop: the length in bits, count << 3 in the low   *)
(* word and count >> 29, with the carry of the low word, in the high one.  *)
CountBits ==
  /\ pc = "count" /\ pc' = "blocks"
  /\ LET bits  == (8 * size) % LONGS
         carry == IF (count_lo + bits) % LONGS < count_lo THEN 1 ELSE 0
     IN  /\ count_lo' = (count_lo + bits) % LONGS
         /\ count_hi' = (count_hi + carry + size \div LIMIT) % LONGS
  /\ buffer' = 0 /\ count' = size
  /\ UNCHANGED <<size, data, digest>>

(* memcpy(data, buffer, n)                                                 *)
Copied(n) == [j \in 0 .. 63 |-> IF j < n THEN Text(buffer + j) ELSE data[j]]

(* One turn of the loop: a whole block.                                    *)
WholeBlock ==
  /\ pc = "blocks" /\ count >= SHA_BLOCKSIZE
  /\ data' = Copied(SHA_BLOCKSIZE)
  /\ sha_transform(<<Copied(SHA_BLOCKSIZE)>>)
  /\ buffer' = buffer + SHA_BLOCKSIZE
  /\ count' = count - SHA_BLOCKSIZE
  /\ UNCHANGED <<pc, size, count_lo, count_hi>>

Rest ==
  /\ pc = "blocks" /\ count < SHA_BLOCKSIZE /\ pc' = "final"
  /\ data' = Copied(count)
  /\ UNCHANGED <<size, buffer, count, count_lo, count_hi, digest>>

(* memset of the bytes from .. to - 1 of data.                              *)
Cleared(d, from, to) == [j \in 0 .. 63 |-> IF j \in from .. to - 1 THEN Zero ELSE d[j]]

(* Mutant: the place of the mark is tested, not the place after it.        *)
SpillsLate(at) == at > 56

(* The mark in byte `at` leaves less than eight bytes for the length.      *)
Spills(at) == at + 1 > 56

(* The last words of the last block are the length.                        *)
WithLength(d) ==
  [j \in 0 .. 63 |-> IF j < 56 THEN d[j] ELSE IF j < 60 THEN Hi(count_hi) ELSE Lo(count_lo)]

sha_final ==
  /\ pc = "final" /\ pc' = "done"
  /\ LET at     == (count_lo \div 8) % SHA_BLOCKSIZE
         marked == [data EXCEPT ![at] = Mark]
         first  == Cleared(marked, at + 1, 64)
         last   == WithLength(IF Spills(at) THEN Cleared(first, 0, 56)
                              ELSE Cleared(marked, at + 1, 56))
     IN  /\ data' = last
         /\ sha_transform(IF Spills(at) THEN <<first, last>> ELSE <<last>>)
  /\ UNCHANGED <<size, buffer, count, count_lo, count_hi>>

(* compute_digest for the worker's next file.                              *)
NextFile ==
  /\ pc = "done" /\ pc' = "init"
  /\ size' \in Sizes
  /\ UNCHANGED <<buffer, count, shaInfo>>

Next == sha_init \/ CountBits \/ WholeBlock \/ Rest \/ sha_final \/ NextFile

Spec == Init /\ [][Next]_vars

-----------------------------------------------------------------------------
(* The padding the standard defines for a message of n bytes: a one bit,   *)
(* the fewest zeros that leave eight bytes in the last block, and in these *)
(* the number of bits, of which n has 8 * n.                               *)
Blocks(n) == (n + 8) \div 64 + 1

PaddedByte(n, i) ==
  IF i < n THEN Text(i)
  ELSE IF i = n THEN Mark
  ELSE IF i < 64 * Blocks(n) - 8 THEN Zero
  ELSE IF i < 64 * Blocks(n) - 4 THEN Hi((8 * n) \div LONGS)
  ELSE Lo((8 * n) % LONGS)

PaddedBlock(n, b) == [j \in 0 .. 63 |-> PaddedByte(n, 64 * (b - 1) + j)]

(* sha_update and sha_final hash the file as the standard pads it, block   *)
(* after block, and when they are done they have hashed all of it: no byte *)
(* of an earlier file or of the stack, whatever the size, and the length.  *)
HashedIsPadded ==
  /\ pc \in {"blocks", "final"} =>
       \A b \in 1 .. Len(digest) : digest[b] = PaddedBlock(size, b)
  /\ pc = "done" => digest = [b \in 1 .. Blocks(size) |-> PaddedBlock(size, b)]

=============================================================================
