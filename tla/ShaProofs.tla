----------------------------- MODULE ShaProofs -----------------------------
(***************************************************************************)
(* sha.c hashes every file as the standard pads it: HashedIsPadded for     *)
(* files of every size and for every width of the length counter.          *)
(*                                                                         *)
(* The invariant follows the file through the program: between sha_init    *)
(* and sha_update nothing is hashed or counted; in the loop and after it   *)
(* the blocks hashed, the bytes left and the two words of the length add   *)
(* up to the file; before sha_final the rest of the file is in the buffer. *)
(***************************************************************************)
EXTENDS Sha, TLAPS

Byte  == {"text", "byte", "hi", "lo", "unset"} \X Nat
Block == [0 .. 63 -> Byte]

TypeOK ==
  /\ pc \in {"init", "count", "blocks", "final", "done"}
  /\ size \in Sizes
  /\ buffer \in Nat /\ count \in Nat /\ count_lo \in Nat /\ count_hi \in Nat
  /\ data \in Block
  /\ digest \in Seq(Block)

(* Nothing is left of an earlier file.                                     *)
Fresh ==
  pc = "count" => digest = <<>> /\ count_lo = 0 /\ count_hi = 0

(* The blocks hashed, the bytes that are left and the length.              *)
Accounted ==
  pc \in {"blocks", "final"} =>
    /\ count_lo = (8 * size) % LONGS
    /\ count_hi = (8 * size) \div LONGS
    /\ buffer = 64 * Len(digest)
    /\ buffer + count = size

(* The rest of the file is in the buffer.                                  *)
Buffered ==
  pc = "final" => count < 64 /\ \A j \in 0 .. count - 1 : data[j] = Text(buffer + j)

IInv == TypeOK /\ Fresh /\ Accounted /\ Buffered /\ HashedIsPadded

-----------------------------------------------------------------------------
(* Dividing and taking the remainder of a length in bits.                  *)
LEMMA Scaled ==
  ASSUME NEW n \in Nat, NEW L \in Nat \ {0}
  PROVE  (8 * n) \div (8 * L) = n \div L /\ (8 * n) % (8 * L) = 8 * (n % L)
<1> DEFINE q == n \div L  r == n % L
<1>1. q \in Nat /\ r \in 0 .. L - 1 /\ n = L * q + r
  OBVIOUS
<1>2. 8 * n = (8 * L) * q + 8 * r /\ 8 * r \in 0 .. 8 * L - 1
  BY <1>1
<1> HIDE DEF q, r
<1>3. (8 * n) \div (8 * L) = q /\ (8 * n) % (8 * L) = 8 * r
  BY <1>1, <1>2
<1> QED
  BY <1>3 DEF q, r

(* A counter that wraps at a multiple of 64 keeps the place in a block.    *)
LEMMA Place ==
  ASSUME NEW n \in Nat, NEW L \in Nat \ {0}, L % 64 = 0
  PROVE  (n % L) % 64 = n % 64
<1> DEFINE q == n \div L  r == n % L  k == L \div 64
<1>1. q \in Nat /\ r \in Nat /\ n = L * q + r /\ k \in Nat /\ L = 64 * k
  OBVIOUS
<1> HIDE DEF q, r, k
<1>2. k * q \in Nat /\ L * q = 64 * (k * q)
  BY <1>1
<1>3. \A m \in Nat : (64 * m + r) % 64 = r % 64
  BY <1>1
<1> QED
  BY <1>1, <1>2, <1>3 DEF r

(* The blocks and the rest of a file.                                      *)
LEMMA Split ==
  ASSUME NEW l \in Nat, NEW c \in 0 .. 63
  PROVE  /\ (64 * l + c) % 64 = c
         /\ (64 * l + c + 8) \div 64 = IF c > 55 THEN l + 1 ELSE l
  OBVIOUS

(* The bytes of a padded file are bytes.                                   *)
LEMMA Bytes ==
  ASSUME NEW n \in Nat
  PROVE  /\ Text(n) \in Byte /\ Hi(n) \in Byte /\ Lo(n) \in Byte
         /\ Mark \in Byte /\ Zero \in Byte /\ Unset \in Byte
<1>1. \A k \in {"text", "byte", "hi", "lo", "unset"}, v \in Nat : <<k, v>> \in Byte
  BY DEF Byte
<1>2. n \in Nat /\ 0 \in Nat /\ 128 \in Nat
  OBVIOUS
<1> QED
  BY ONLY <1>1, <1>2 DEF Text, Hi, Lo, Mark, Zero, Unset

(* What is to be hashed depends on the file only.                          *)
LEMMA Fixed ==
  ASSUME UNCHANGED size
  PROVE  /\ Blocks(size)' = Blocks(size)
         /\ \A b : PaddedBlock(size, b)' = PaddedBlock(size, b)
  BY DEF Blocks, PaddedBlock, PaddedByte, Text, Mark, Zero, Hi, Lo, LONGS

(* A block whose bytes are those of the padding is the padded block.       *)
LEMMA IsPaddedBlock ==
  ASSUME NEW n, NEW b, NEW k, NEW f, k = b - 1,
         f = [j \in 0 .. 63 |-> f[j]],
         \A j \in 0 .. 63 : f[j] = PaddedByte(n, 64 * k + j)
  PROVE  f = PaddedBlock(n, b)
BY DEF PaddedBlock

(* The invariant at the start,                                             *)
LEMMA Init_IInv == Init => IInv
<1> SUFFICES ASSUME Init PROVE IInv
  OBVIOUS
<1>1. data \in Block
  BY Bytes DEF Init, Block
<1>2. digest \in Seq(Block)
  BY DEF Init
<1> QED
  BY <1>1, <1>2 DEF Init, IInv, TypeOK, Fresh, Accounted, Buffered, HashedIsPadded

-----------------------------------------------------------------------------
(* The numbers and sequences of a typed state.                             *)
LEMMA Blocks_Typed ==
  ASSUME TypeOK
  PROVE  /\ LIMIT \in Nat \ {0} /\ LIMIT % 64 = 0 /\ LONGS = 8 * LIMIT
         /\ size \in Nat /\ size < 4 * LIMIT
         /\ Len(digest) \in Nat
         /\ digest = [b \in 1 .. Len(digest) |-> digest[b]]
  BY ShaAssumption DEF TypeOK, LONGS, SHA_BLOCKSIZE

(* when sha_update counts the bits,                                        *)
LEMMA CountBits_IInv == IInv /\ CountBits => IInv'
<1> SUFFICES ASSUME IInv, CountBits PROVE IInv'
  OBVIOUS
<1> USE DEF IInv
<1>0. /\ LIMIT \in Nat \ {0} /\ LONGS = 8 * LIMIT
      /\ size \in Nat /\ size < 4 * LIMIT
  BY Blocks_Typed
<1>1. digest = <<>> /\ count_lo = 0 /\ count_hi = 0
  BY DEF CountBits, Fresh
<1>2. size \div LIMIT \in 0 .. 3 /\ (8 * size) \div LONGS = size \div LIMIT
  BY <1>0, Scaled
<1>3. (8 * size) % LONGS \in 0 .. LONGS - 1
  BY <1>0
<1>4. count_lo' = (8 * size) % LONGS
  BY <1>0, <1>1, <1>3 DEF CountBits
<1>5. count_hi' = (8 * size) \div LONGS
  BY <1>0, <1>1, <1>2, <1>3 DEF CountBits
<1>6. pc' = "blocks" /\ buffer' = 0 /\ count' = size /\ UNCHANGED <<size, data, digest>>
  BY DEF CountBits
<1>7. TypeOK'
  BY <1>0, <1>2, <1>3, <1>4, <1>5, <1>6 DEF TypeOK
<1>8. Accounted'
  BY <1>0, <1>1, <1>4, <1>5, <1>6 DEF Accounted
<1> QED
  BY <1>1, <1>6, <1>7, <1>8 DEF Fresh, Buffered, HashedIsPadded

(* when it takes a whole block,                                            *)
LEMMA WholeBlock_IInv == IInv /\ WholeBlock => IInv'
<1> SUFFICES ASSUME IInv, WholeBlock PROVE IInv'
  OBVIOUS
<1> USE DEF IInv
<1> DEFINE l == Len(digest)
<1>0. size \in Nat /\ l \in Nat /\ l = Len(digest)
  BY Blocks_Typed
<1>1. /\ pc = "blocks" /\ pc' = "blocks" /\ count >= 64
      /\ UNCHANGED <<size, count_lo, count_hi>>
      /\ buffer' = buffer + 64 /\ count' = count - 64
      /\ data' = Copied(64)
      /\ digest' = digest \o <<Copied(64)>>
  BY DEF WholeBlock, sha_transform, SHA_BLOCKSIZE
<1>2. buffer \in Nat /\ count \in Nat /\ buffer = 64 * l /\ buffer + count = size
  BY <1>1 DEF TypeOK, Accounted
<1>3. Copied(64) = [j \in 0 .. 63 |-> Text(buffer + j)]
  BY DEF Copied
<1>4. Copied(64) \in Block
  <2>1. \A j \in 0 .. 63 : buffer + j \in Nat
    BY <1>2
  <2>2. \A j \in 0 .. 63 : Text(buffer + j) \in Byte
    BY <2>1, Bytes
  <2> QED
    BY <2>2, <1>3 DEF Block
<1> HIDE DEF l
<1>5. Copied(64) = PaddedBlock(size, l + 1)
  <2>1. ASSUME NEW j \in 0 .. 63
        PROVE  PaddedByte(size, 64 * l + j) = Text(buffer + j)
    <3>1. buffer + j < size /\ 64 * l + j = buffer + j
      BY <1>0, <1>1, <1>2
    <3> QED
      BY <3>1 DEF PaddedByte
  <2>2. l = (l + 1) - 1
    BY <1>0
  <2>3. Copied(64) = [j \in 0 .. 63 |-> Copied(64)[j]] /\ \A j \in 0 .. 63 : Copied(64)[j] = Text(buffer + j)
    BY ONLY <1>3
  <2> QED
    BY ONLY <2>1, <2>2, <2>3, IsPaddedBlock
<1>6. digest' \in Seq(Block) /\ Len(digest') = l + 1
  BY <1>0, <1>1, <1>4 DEF TypeOK
<1>7. \A b \in 1 .. l + 1 : digest'[b] = IF b = l + 1 THEN Copied(64) ELSE digest[b]
  BY <1>0, <1>1, <1>4 DEF TypeOK
<1>8. TypeOK'
  BY <1>1, <1>2, <1>4, <1>6 DEF TypeOK
<1>9. Accounted'
  <2>1. buffer' = 64 * (l + 1) /\ buffer' + count' = size
    BY <1>0, <1>1, <1>2
  <2>2. buffer' = 64 * Len(digest')
    BY <2>1, <1>6
  <2> QED
    BY <2>1, <2>2, <1>1 DEF Accounted, LONGS
<1>10. \A b \in 1 .. l + 1 : digest'[b] = PaddedBlock(size, b)
  BY <1>0, <1>1, <1>5, <1>7 DEF HashedIsPadded
<1>11. HashedIsPadded'
  BY <1>1, <1>6, <1>10, Fixed DEF HashedIsPadded
<1> QED
  BY <1>1, <1>8, <1>9, <1>11 DEF Fresh, Buffered

(* when it keeps the rest,                                                 *)
LEMMA Rest_IInv == IInv /\ Rest => IInv'
<1> SUFFICES ASSUME IInv, Rest PROVE IInv'
  OBVIOUS
<1> USE DEF IInv
<1>1. /\ pc = "blocks" /\ pc' = "final" /\ count < 64 /\ data' = Copied(count)
      /\ UNCHANGED <<size, buffer, count, count_lo, count_hi, digest>>
  BY DEF Rest, SHA_BLOCKSIZE
<1>2. buffer \in Nat /\ count \in Nat /\ data \in Block
  BY DEF TypeOK
<1>3. data' \in Block
  <2>1. \A j \in 0 .. 63 : buffer + j \in Nat
    BY <1>2
  <2>2. \A j \in 0 .. 63 : Text(buffer + j) \in Byte /\ data[j] \in Byte
    BY <2>1, <1>2, Bytes DEF Block
  <2> QED
    BY <2>2, <1>1 DEF Copied, Block
<1>4. \A j \in 0 .. count - 1 : data'[j] = Text(buffer + j)
  BY <1>1, <1>2 DEF Copied
<1>5. TypeOK' /\ Accounted'
  BY <1>1, <1>3 DEF TypeOK, Accounted
<1> QED
  BY <1>1, <1>4, <1>5, Fixed DEF Fresh, Buffered, HashedIsPadded

-----------------------------------------------------------------------------
(* The blocks sha_final makes, from the place of the mark.                 *)
LEMMA Final_Blocks ==
  ASSUME IInv, pc = "final",
         NEW first, NEW last, NEW at, NEW marked,
         at = (count_lo \div 8) % SHA_BLOCKSIZE,
         marked = [data EXCEPT ![at] = Mark],
         first = Cleared(marked, at + 1, 64),
         last = WithLength(IF Spills(at) THEN Cleared(first, 0, 56)
                           ELSE Cleared(marked, at + 1, 56))
  PROVE  /\ first \in Block /\ last \in Block
         /\ Blocks(size) = Len(digest) + (IF Spills(at) THEN 2 ELSE 1)
         /\ last = PaddedBlock(size, Blocks(size))
         /\ Spills(at) => first = PaddedBlock(size, Len(digest) + 1)
<1> USE DEF IInv
<1> DEFINE l == Len(digest)
<1>0. /\ LIMIT \in Nat \ {0} /\ LIMIT % 64 = 0 /\ LONGS = 8 * LIMIT
      /\ size \in Nat /\ l \in Nat
  BY Blocks_Typed
<1>1. /\ buffer \in Nat /\ count \in 0 .. 63 /\ buffer = 64 * l /\ size = 64 * l + count
      /\ count_lo = (8 * size) % LONGS /\ count_hi = (8 * size) \div LONGS
  BY DEF TypeOK, Accounted, Buffered
<1>2. at = count
  <2>1. count_lo = 8 * (size % LIMIT)
    BY <1>0, <1>1, Scaled
  <2>2. size % LIMIT \in Nat /\ (size % LIMIT) % 64 = size % 64
    BY <1>0, Place
  <2>3. count_lo \div 8 = size % LIMIT
    BY <2>1, <2>2
  <2>4. size % 64 = count
    BY <1>0, <1>1, Split
  <2> QED
    BY <2>2, <2>3, <2>4 DEF SHA_BLOCKSIZE
<1>3. Spills(at) <=> count > 55
  BY <1>1, <1>2 DEF Spills
<1>c. count \in 0 .. 63
  BY <1>1
<1>l. l = Len(digest)
  OBVIOUS
<1> HIDE DEF l
<1>4. Blocks(size) = l + (IF Spills(at) THEN 2 ELSE 1)
  <2>1. Blocks(size) = (64 * l + count + 8) \div 64 + 1
    BY <1>1 DEF Blocks
  <2> QED
    BY <2>1, <1>0, <1>1, <1>3, Split
<1>5. data \in Block /\ \A j \in 0 .. count - 1 : data[j] = Text(64 * l + j)
  BY <1>1 DEF TypeOK, Buffered
<1>6. /\ marked \in Block
      /\ \A j \in 0 .. 63 : marked[j] = IF j = count THEN Mark ELSE data[j]
  BY <1>1, <1>2, <1>5, Bytes DEF Block
<1>7. first = [j \in 0 .. 63 |-> IF j > count THEN Zero ELSE marked[j]]
  <2>1. first = [j \in 0 .. 63 |-> IF j \in count + 1 .. 63 THEN Zero ELSE marked[j]]
    BY <1>2 DEF Cleared
  <2>2. \A j \in 0 .. 63 : j \in count + 1 .. 63 <=> j > count
    BY <1>1
  <2> QED
    BY <2>1, <2>2
<1>8. first \in Block
  BY <1>6, <1>7, Bytes DEF Block
<1>9. last = [j \in 0 .. 63 |->
         IF j < 56 THEN IF Spills(at) \/ j > count THEN Zero ELSE marked[j]
         ELSE IF j < 60 THEN Hi(count_hi) ELSE Lo(count_lo)]
  <2> DEFINE d == IF Spills(at) THEN Cleared(first, 0, 56) ELSE Cleared(marked, at + 1, 56)
  <2>1. \A j \in 0 .. 63 : j < 56 =>
          d[j] = IF Spills(at) \/ j > count THEN Zero ELSE marked[j]
    BY <1>1, <1>2 DEF Cleared
  <2>2. last = [j \in 0 .. 63 |-> IF j < 56 THEN d[j]
                                  ELSE IF j < 60 THEN Hi(count_hi) ELSE Lo(count_lo)]
    BY DEF WithLength
  <2> HIDE DEF d
  <2> QED
    BY <2>1, <2>2
<1>10. last \in Block
  <2>1. Hi(count_hi) \in Byte /\ Lo(count_lo) \in Byte /\ Zero \in Byte
    BY Bytes DEF TypeOK
  <2> QED
    BY <2>1, <1>6, <1>9 DEF Block
<1>11. ASSUME Spills(at) PROVE first = PaddedBlock(size, l + 1)
  <2>1. ASSUME NEW j \in 0 .. 63 PROVE first[j] = PaddedByte(size, 64 * l + j)
    <3>0. 64 * Blocks(size) - 8 = 64 * l + 120
      BY <1>0, <1>4, <1>11
    <3>1. CASE j < count
      <4>1. 64 * l + j < size
        BY <3>1, <1>0, <1>1
      <4>2. first[j] = marked[j] /\ marked[j] = data[j] /\ data[j] = Text(64 * l + j)
        BY ONLY <3>1, <1>c, <1>5, <1>6, <1>7, j \in 0 .. 63
      <4> QED
        BY <3>0, <4>1, <4>2 DEF PaddedByte
    <3>2. CASE j = count
      <4>1. 64 * l + j = size
        BY <3>2, <1>1
      <4>2. first[j] = marked[j] /\ marked[j] = Mark
        BY ONLY <3>2, <1>c, <1>6, <1>7, j \in 0 .. 63
      <4> QED
        BY <3>0, <4>1, <4>2, <1>0 DEF PaddedByte
    <3>3. CASE j > count
      <4>1. 64 * l + j > size /\ 64 * l + j < 64 * l + 120
        BY <3>3, <1>0, <1>1
      <4> QED
        BY <3>0, <3>3, <4>1, <1>0, <1>1, <1>7 DEF PaddedByte
    <3> QED
      BY <3>1, <3>2, <3>3, <1>1
  <2>2. l = (l + 1) - 1
    BY <1>0
  <2>3. first = [j \in 0 .. 63 |-> first[j]]
    BY ONLY <1>7
  <2> QED
    BY ONLY <2>1, <2>2, <2>3, IsPaddedBlock
<1>12. last = PaddedBlock(size, Blocks(size))
  <2> DEFINE m == Blocks(size) - 1
  <2>0. m \in Nat /\ m = (IF Spills(at) THEN l + 1 ELSE l)
    BY <1>0, <1>4
  <2>1. ASSUME NEW j \in 0 .. 63
        PROVE  last[j] = PaddedByte(size, 64 * m + j)
    <3>0. /\ 64 * Blocks(size) - 8 = 64 * m + 56 /\ 64 * Blocks(size) - 4 = 64 * m + 60
          /\ Blocks(size) \in Nat
      BY <1>0, <1>4
    <3> HIDE DEF m
    <3>1. CASE j < 56 /\ (Spills(at) \/ j > count)
      <4>1. 64 * m + j > size /\ 64 * m + j < 64 * m + 56
        BY <3>1, <2>0, <1>0, <1>1
      <4>2. last[j] = Zero
        BY <3>1, <1>9
      <4> QED
        BY <3>0, <4>1, <4>2, <1>0, <2>0 DEF PaddedByte
    <3>2. CASE j < 56 /\ ~Spills(at) /\ j \leq count
      <4>1. m = l /\ last[j] = marked[j]
        BY <3>2, <2>0, <1>1, <1>9
      <4>2. CASE j < count
        BY <4>1, <4>2, <1>0, <1>1, <1>5, <1>6 DEF PaddedByte
      <4>3. CASE j = count
        BY <4>1, <4>3, <1>0, <1>1, <1>6 DEF PaddedByte
      <4> QED
        BY <3>2, <4>2, <4>3, <1>1
    <3>3. CASE j >= 56
      <4>1. 64 * m + j > size
        BY <3>3, <2>0, <1>0, <1>1, <1>3
      <4>2. /\ ~(64 * m + j < 64 * m + 56)
            /\ 64 * m + j < 64 * m + 60 <=> j < 60
        BY <3>3, <2>0
      <4>3. last[j] = IF j < 60 THEN Hi(count_hi) ELSE Lo(count_lo)
        BY <3>3, <1>9
      <4> QED
        BY <3>0, <4>1, <4>2, <4>3, <1>0, <1>1, <2>0 DEF PaddedByte
    <3> QED
      BY <3>1, <3>2, <3>3, <1>1
  <2> QED
    BY <2>1, <1>9 DEF PaddedBlock
<1> QED
  BY <1>l, <1>4, <1>8, <1>10, <1>11, <1>12

(* when sha_final pads it,                                                 *)
LEMMA Final_IInv == IInv /\ sha_final => IInv'
<1> SUFFICES ASSUME IInv, sha_final PROVE IInv'
  OBVIOUS
<1> USE DEF IInv
<1> DEFINE l      == Len(digest)
           at     == (count_lo \div 8) % SHA_BLOCKSIZE
           marked == [data EXCEPT ![at] = Mark]
           first  == Cleared(marked, at + 1, 64)
           last   == WithLength(IF Spills(at) THEN Cleared(first, 0, 56)
                                ELSE Cleared(marked, at + 1, 56))
<1>1. /\ pc = "final" /\ pc' = "done" /\ data' = last
      /\ digest' = digest \o (IF Spills(at) THEN <<first, last>> ELSE <<last>>)
      /\ UNCHANGED <<size, buffer, count, count_lo, count_hi>>
  BY DEF sha_final, sha_transform
<1>2. /\ first \in Block /\ last \in Block
      /\ Blocks(size) = l + (IF Spills(at) THEN 2 ELSE 1)
      /\ last = PaddedBlock(size, Blocks(size))
      /\ Spills(at) => first = PaddedBlock(size, l + 1)
  BY <1>1, Final_Blocks
<1> HIDE DEF at, marked, first, last
<1>3. /\ digest \in Seq(Block) /\ l \in Nat
      /\ \A b \in 1 .. l : digest[b] = PaddedBlock(size, b)
  BY <1>1 DEF TypeOK, HashedIsPadded
<1>4. /\ digest' \in Seq(Block) /\ Len(digest') = Blocks(size)
      /\ \A b \in 1 .. Blocks(size) : digest'[b] = PaddedBlock(size, b)
  <2>1. CASE Spills(at)
    BY <2>1, <1>1, <1>2, <1>3
  <2>2. CASE ~Spills(at)
    BY <2>2, <1>1, <1>2, <1>3
  <2> QED
    BY <2>1, <2>2
<1>5. digest' = [b \in 1 .. Blocks(size) |-> PaddedBlock(size, b)]
  BY <1>4
<1>6. TypeOK'
  BY <1>1, <1>2, <1>4 DEF TypeOK
<1>7. HashedIsPadded'
  BY <1>1, <1>5, Fixed DEF HashedIsPadded
<1> QED
  BY <1>1, <1>6, <1>7 DEF Fresh, Accounted, Buffered

(* and after any step.                                                     *)
LEMMA Next_IInv == IInv /\ [Next]_vars => IInv'
<1> SUFFICES ASSUME IInv, [Next]_vars PROVE IInv'
  OBVIOUS
<1>1. CASE sha_init
  BY <1>1 DEF sha_init, IInv, TypeOK, Fresh, Accounted, Buffered, HashedIsPadded
<1>2. CASE NextFile
  BY <1>2 DEF NextFile, shaInfo, IInv, TypeOK, Fresh, Accounted, Buffered, HashedIsPadded
<1>3. CASE UNCHANGED vars
  BY <1>3, Fixed DEF vars, shaInfo, IInv, TypeOK, Fresh, Accounted, Buffered, HashedIsPadded
<1> QED
  BY <1>1, <1>2, <1>3, CountBits_IInv, WholeBlock_IInv, Rest_IInv, Final_IInv DEF Next

(* Whatever its size, a file is hashed as the standard pads it; nothing    *)
(* that an earlier file, or nobody, has put into sha_info is hashed.       *)
THEOREM EveryFilePadded == Spec => []HashedIsPadded
<1>1. IInv => HashedIsPadded
  BY DEF IInv
<1> QED
  BY <1>1, Init_IInv, Next_IInv, PTL DEF Spec

=============================================================================
