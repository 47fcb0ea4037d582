--------------------------- MODULE LoadStoreProofs ---------------------------
(***************************************************************************)
(* Proofs about the load and store instructions, for bytes of any width, a *)
(* RAM of any size and any registers.                                      *)
(*                                                                         *)
(* Everything is reduced to the four bytes of a word: two words are equal  *)
(* when their bytes are (SameBytes), and each shift, mask and union the    *)
(* instructions compute has known bytes.                                   *)
(***************************************************************************)
EXTENDS LoadStore, TLAPS

TypeOK == DM \in [0 .. SIZE - 1 -> Word] /\ RB \in [Reg -> Word]

(* Byte p of a word, the highest first.                                    *)
Byte(w, p) == Low(Shr(w, (3 - p) * BYTE), BYTE)

(* A register whose high bytes are filled from a word shifted left, and    *)
(* one whose low bytes are filled from a word shifted right, under the     *)
(* mask m that keeps the others.                                           *)
FillHigh(w, x, s)   == Shl(w, s * BYTE) \cup Low(x, s * BYTE)
FillLow(w, x, s, m) == Shr(w, s * BYTE) \cup (x \cap m)

(* n bytes joined, the first the highest.                                  *)
Join(f, n) == UNION {Shl(f[k], (n - 1 - k) * BYTE) : k \in 0 .. n - 1}

-----------------------------------------------------------------------------
(* Bytes of words.                                                         *)

(* The bits of a byte.                                                     *)
LEMMA InByte ==
  ASSUME NEW w \in Word, NEW p \in 0 .. 3, NEW i
  PROVE  i \in Byte(w, p) <=> i \in 0 .. BYTE - 1 /\ i + (3 - p) * BYTE \in w
<1>1. (3 - p) * BYTE \in Int /\ BYTE \in Nat \ {0} /\ (3 - p) * BYTE >= 0
  BY BYTEAssumption
<1> DEFINE s == (3 - p) * BYTE
<1> HIDE DEF s
<1>2. i \in Low(Shr(w, s), BYTE) <=> i \in 0 .. BYTE - 1 /\ i + s \in w
  BY <1>1 DEF Low, Shr, Word, Ones, W, s
<1> QED BY <1>2 DEF Byte, s

(* Every place is in one of the four bytes.                                *)
LEMMA EachPlace ==
  ASSUME NEW j \in Ones
  PROVE  \E p \in 0 .. 3 : j - (3 - p) * BYTE \in 0 .. BYTE - 1
<1>1. /\ (3 - 0) * BYTE = 3 * BYTE /\ (3 - 1) * BYTE = 2 * BYTE
      /\ (3 - 2) * BYTE = BYTE /\ (3 - 3) * BYTE = 0
  BY BYTEAssumption
<1>2. CASE j < BYTE
  BY <1>1, <1>2, BYTEAssumption DEF Ones, W
<1>3. CASE BYTE \leq j /\ j < 2 * BYTE
  BY <1>1, <1>3, BYTEAssumption DEF Ones, W
<1>4. CASE 2 * BYTE \leq j /\ j < 3 * BYTE
  BY <1>1, <1>4, BYTEAssumption DEF Ones, W
<1>5. CASE 3 * BYTE \leq j
  BY <1>1, <1>5, BYTEAssumption DEF Ones, W
<1> QED BY <1>2, <1>3, <1>4, <1>5, BYTEAssumption DEF Ones, W

(* Words with the same bytes are equal.                                    *)
LEMMA SameBytes ==
  ASSUME NEW w \in Word, NEW v \in Word, \A p \in 0 .. 3 : Byte(w, p) = Byte(v, p)
  PROVE  w = v
<1> SUFFICES ASSUME NEW j \in Ones PROVE j \in w <=> j \in v
  BY DEF Word
<1>1. PICK p \in 0 .. 3 : j - (3 - p) * BYTE \in 0 .. BYTE - 1
  BY EachPlace
<1>2. (3 - p) * BYTE \in Int /\ j \in Int
  BY BYTEAssumption DEF Ones, W
<1> DEFINE s == (3 - p) * BYTE
           i == j - s
<1>3. i + s = j
  BY <1>2
<1>4. i \in Byte(w, p) <=> i + s \in w
  BY <1>1, InByte
<1>5. i \in Byte(v, p) <=> i + s \in v
  BY <1>1, InByte
<1> QED BY <1>3, <1>4, <1>5

(* What FillHigh does to the bytes.                                        *)
LEMMA HighFilled ==
  ASSUME NEW w \in Word, NEW x \in Word, NEW s \in 0 .. 3
  PROVE  /\ FillHigh(w, x, s) \in Word
         /\ \A p \in 0 .. 3 : Byte(FillHigh(w, x, s), p) =
              IF p + s \leq 3 THEN Byte(w, p + s) ELSE Byte(x, p)
<1> DEFINE v == FillHigh(w, x, s)
<1>1. v \in Word
  BY DEF FillHigh, Shl, Low, Word
<1>2. ASSUME NEW p \in 0 .. 3, p + s \leq 3
      PROVE  Byte(v, p) = Byte(w, p + s)
  <2> DEFINE P == (3 - p) * BYTE
             Q == (3 - (p + s)) * BYTE
             S == s * BYTE
  <2>1. /\ P \in Nat /\ Q \in Nat /\ S \in Nat
        /\ P = Q + S /\ Q \leq 3 * BYTE /\ P \leq 3 * BYTE
    BY <1>2, BYTEAssumption
  <2>2. p + s \in 0 .. 3
    BY <1>2
  <2>3. \A i : i \in Byte(v, p) <=> i \in 0 .. BYTE - 1 /\ i + P \in v
    BY <1>1, InByte
  <2>4. \A i : i \in Byte(w, p + s) <=> i \in 0 .. BYTE - 1 /\ i + Q \in w
    BY <2>2, InByte
  <2>5. ASSUME NEW i \in 0 .. BYTE - 1 PROVE i + P \in v <=> i + Q \in w
    <3>1. v = Shl(w, S) \cup Low(x, S)
      BY DEF FillHigh
    <3> HIDE DEF P, Q, S, v
    <3> QED BY <2>1, <2>5, <3>1, BYTEAssumption DEF Shl, Low, Ones, W
  <2> HIDE DEF v, P, Q
  <2> QED BY <2>3, <2>4, <2>5
<1>3. ASSUME NEW p \in 0 .. 3, ~ (p + s \leq 3)
      PROVE  Byte(v, p) = Byte(x, p)
  <2> DEFINE P == (3 - p) * BYTE
             S == s * BYTE
  <2>1. P \in Nat /\ S \in Nat /\ P + BYTE \leq S
    BY <1>3, BYTEAssumption
  <2>2. \A i : i \in Byte(v, p) <=> i \in 0 .. BYTE - 1 /\ i + P \in v
    BY <1>1, InByte
  <2>3. \A i : i \in Byte(x, p) <=> i \in 0 .. BYTE - 1 /\ i + P \in x
    BY InByte
  <2>4. ASSUME NEW i \in 0 .. BYTE - 1 PROVE i + P \in v <=> i + P \in x
    <3>1. v = Shl(w, S) \cup Low(x, S)
      BY DEF FillHigh
    <3> HIDE DEF P, S, v
    <3> QED BY <2>1, <2>4, <3>1, BYTEAssumption DEF Shl, Low, Ones, Word, W
  <2> HIDE DEF v, P
  <2> QED BY <2>2, <2>3, <2>4
<1> QED BY <1>1, <1>2, <1>3

(* The mask of a shift by s bytes keeps the s bytes to the left.           *)
LEMMA MaskKeeps ==
  ASSUME NEW s \in 1 .. 3, NEW m \in HighMask(s * BYTE)
  PROVE  \A i \in Ones : i \in m <=> i >= (4 - s) * BYTE
<1> DEFINE S == s * BYTE
           T == (4 - s) * BYTE
<1>1. S \in Nat /\ S # 0 /\ T \in Nat /\ T = W - S /\ T \leq W
  BY BYTEAssumption DEF W
<1>2. m = Shl(Ones, T)
  BY <1>1 DEF HighMask
<1> HIDE DEF S, T
<1>3. \A i \in Ones : i \in m <=> i >= T
  BY <1>1, <1>2, BYTEAssumption DEF Shl, Ones, W
<1> QED BY <1>3 DEF T

(* What FillLow does to the bytes.                                         *)
LEMMA LowFilled ==
  ASSUME NEW w \in Word, NEW x \in Word, NEW s \in 1 .. 3, NEW m \in HighMask(s * BYTE)
  PROVE  /\ FillLow(w, x, s, m) \in Word
         /\ \A p \in 0 .. 3 : Byte(FillLow(w, x, s, m), p) =
              IF p >= s THEN Byte(w, p - s) ELSE Byte(x, p)
<1> DEFINE S == s * BYTE
           v == FillLow(w, x, s, m)
<1>1. v \in Word
  BY DEF FillLow, Shr, Word
<1>2. S \in Nat /\ S # 0 /\ S \leq 4 * BYTE
  BY BYTEAssumption
<1>3. \A i \in Ones : i \in m <=> i + S >= 4 * BYTE
  <2>1. (4 - s) * BYTE = 4 * BYTE - S /\ (4 - s) * BYTE \in Int
    BY BYTEAssumption
  <2>2. \A i \in Ones : i \in m <=> i >= (4 - s) * BYTE
    BY MaskKeeps
  <2> HIDE DEF S
  <2> QED BY <1>2, <2>1, <2>2, BYTEAssumption DEF Ones, W
<1>4. v = Shr(w, S) \cup (x \cap m)
  BY DEF FillLow
<1>5. ASSUME NEW p \in 0 .. 3, p >= s
      PROVE  Byte(v, p) = Byte(w, p - s)
  <2> DEFINE P == (3 - p) * BYTE
             Q == (3 - (p - s)) * BYTE
  <2>1. P \in Nat /\ Q \in Nat /\ Q = P + S /\ P + BYTE + S \leq 4 * BYTE
    BY <1>5, BYTEAssumption
  <2>2. p - s \in 0 .. 3
    BY <1>5
  <2>3. \A i : i \in Byte(v, p) <=> i \in 0 .. BYTE - 1 /\ i + P \in v
    BY <1>1, InByte
  <2>4. \A i : i \in Byte(w, p - s) <=> i \in 0 .. BYTE - 1 /\ i + Q \in w
    BY <2>2, InByte
  <2> HIDE DEF P, Q, S, v
  <2>5. ASSUME NEW i \in 0 .. BYTE - 1 PROVE i + P \in v <=> i + Q \in w
    BY <1>2, <1>3, <1>4, <2>1, <2>5, BYTEAssumption DEF Shr, Shl, Ones, Word, W
  <2> QED BY <2>3, <2>4, <2>5
<1>6. ASSUME NEW p \in 0 .. 3, ~ (p >= s)
      PROVE  Byte(v, p) = Byte(x, p)
  <2> DEFINE P == (3 - p) * BYTE
  <2>1. P \in Nat /\ P + S >= 4 * BYTE /\ P + BYTE \leq 4 * BYTE
    BY <1>6, BYTEAssumption
  <2>2. \A i : i \in Byte(v, p) <=> i \in 0 .. BYTE - 1 /\ i + P \in v
    BY <1>1, InByte
  <2>3. \A i : i \in Byte(x, p) <=> i \in 0 .. BYTE - 1 /\ i + P \in x
    BY InByte
  <2> HIDE DEF P, S, v
  <2>4. ASSUME NEW i \in 0 .. BYTE - 1 PROVE i + P \in v <=> i + P \in x
    <3>1. i + P \in m
      BY <1>2, <1>3, <2>1, <2>4, BYTEAssumption DEF Shl, Ones, W
    <3>2. i + P + S \notin w
      BY <1>2, <2>1, <2>4, BYTEAssumption DEF Ones, Word, W
    <3> QED BY <1>4, <3>1, <3>2 DEF Shr
  <2> QED BY <2>2, <2>3, <2>4
<1> QED BY <1>1, <1>5, <1>6

(* Bytes o .. o + n - 1 of a word are replaced by the low n of another.    *)
LEMMA Replaced ==
  ASSUME NEW w \in Word, NEW x \in Word, NEW n \in 1 .. 3, NEW o \in 0 .. 4 - n
  PROVE  LET v == Replace(w, (4 - o - n) * BYTE, n * BYTE, x)
         IN  /\ v \in Word
             /\ \A p \in 0 .. 3 : Byte(v, p) = IF p \in o .. o + n - 1
                                              THEN Byte(x, p - o + 4 - n)
                                              ELSE Byte(w, p)
<1> DEFINE A == (4 - o - n) * BYTE
           N == n * BYTE
           v == Replace(w, (4 - o - n) * BYTE, n * BYTE, x)
<1>1. v \in Word
  BY DEF Replace, Shl, Word
<1>2. A \in Nat /\ N \in Nat /\ A + N \leq 4 * BYTE
  BY BYTEAssumption
<1>3. v = (w \ Shl(Low(Ones, N), A)) \cup Shl(Low(x, N), A)
  BY DEF Replace
<1>4. ASSUME NEW p \in o .. o + n - 1
      PROVE  p \in 0 .. 3 /\ Byte(v, p) = Byte(x, p - o + 4 - n)
  <2> DEFINE P == (3 - p) * BYTE
             Q == (3 - (p - o + 4 - n)) * BYTE
  <2>1. p \in 0 .. 3 /\ p - o + 4 - n \in 0 .. 3
    OBVIOUS
  <2>2. P \in Nat /\ Q \in Nat /\ P = Q + A /\ Q + BYTE \leq N /\ P + BYTE \leq 4 * BYTE
    BY <2>1, BYTEAssumption
  <2>3. \A i : i \in Byte(v, p) <=> i \in 0 .. BYTE - 1 /\ i + P \in v
    BY <1>1, <2>1, InByte
  <2>4. \A i : i \in Byte(x, p - o + 4 - n) <=> i \in 0 .. BYTE - 1 /\ i + Q \in x
    BY <2>1, InByte
  <2> HIDE DEF P, Q, A, N, v
  <2>5. ASSUME NEW i \in 0 .. BYTE - 1 PROVE i + P \in v <=> i + Q \in x
    BY <1>2, <1>3, <2>2, <2>5, BYTEAssumption DEF Shl, Low, Ones, Word, W
  <2> QED BY <2>1, <2>3, <2>4, <2>5
<1>5. ASSUME NEW p \in (0 .. 3) \ (o .. o + n - 1)
      PROVE  Byte(v, p) = Byte(w, p)
  <2> DEFINE P == (3 - p) * BYTE
  <2>1. P \in Nat /\ P + BYTE \leq 4 * BYTE /\ (P + BYTE \leq A \/ P >= A + N)
    <3>1. p < o \/ p >= o + n
      OBVIOUS
    <3>2. CASE p < o
      BY <3>2, BYTEAssumption
    <3>3. CASE p >= o + n
      BY <3>3, BYTEAssumption
    <3> QED BY <3>1, <3>2, <3>3
  <2>2. \A i : i \in Byte(v, p) <=> i \in 0 .. BYTE - 1 /\ i + P \in v
    BY <1>1, InByte
  <2>3. \A i : i \in Byte(w, p) <=> i \in 0 .. BYTE - 1 /\ i + P \in w
    BY InByte
  <2> HIDE DEF P, A, N, v
  <2>4. ASSUME NEW i \in 0 .. BYTE - 1 PROVE i + P \in v <=> i + P \in w
    BY <1>2, <1>3, <2>1, <2>4, BYTEAssumption DEF Shl, Low, Ones, Word, W
  <2> QED BY <2>2, <2>3, <2>4
<1> QED BY <1>1, <1>4, <1>5

(* n bytes joined, the first the highest, make a word.                     *)
LEMMA Joined ==
  ASSUME NEW n \in 1 .. 4, NEW f, \A k \in 0 .. n - 1 : f[k] \subseteq 0 .. BYTE - 1
  PROVE  /\ Join(f, n) \in Word
         /\ \A p \in 0 .. 3 :
              Byte(Join(f, n), p) = IF p >= 4 - n THEN f[p - (4 - n)] ELSE {}
<1> DEFINE v == Join(f, n)
<1>1. v \in Word
  BY DEF Join, Shl, Word
<1>2. \A j : j \in v <=>
        j \in Ones /\ \E k \in 0 .. n - 1 : j - (n - 1 - k) * BYTE \in f[k]
  BY DEF Join, Shl
<1>3. ASSUME NEW p \in 0 .. 3, NEW i \in 0 .. BYTE - 1
      PROVE  i + (3 - p) * BYTE \in v <=> p >= 4 - n /\ i \in f[p - (4 - n)]
  <2> DEFINE P == (3 - p) * BYTE
             j == i + P
  <2>1. P \in Nat /\ P + BYTE \leq 4 * BYTE /\ j \in Ones
    BY BYTEAssumption DEF Ones, W
  <2>2. ASSUME NEW k \in 0 .. n - 1, j - (n - 1 - k) * BYTE \in f[k]
        PROVE  k = p - (4 - n) /\ i \in f[k]
    <3> DEFINE K == (n - 1 - k) * BYTE
               e == (3 - p) - (n - 1 - k)
    <3>1. K \in Nat /\ j - K \in 0 .. BYTE - 1 /\ e \in Int /\ BYTE * e = P - K
      BY <2>2, BYTEAssumption
    <3>2. -BYTE < BYTE * e /\ BYTE * e < BYTE
      <4> HIDE DEF P, K, e
      <4> QED BY <2>1, <3>1, BYTEAssumption
    <3>3. e = 0
      <4> HIDE DEF e
      <4> QED BY <3>1, <3>2, BYTEAssumption
    <3>4. k = p - (4 - n)
      BY <3>3
    <3>5. P = K
      <4> HIDE DEF P, K, e
      <4> QED BY <2>1, <3>1, <3>3, BYTEAssumption
    <3>6. j - K = i
      <4> HIDE DEF P, K
      <4> QED BY <2>1, <3>5
    <3> QED BY <2>2, <3>4, <3>6
  <2>3. ASSUME p >= 4 - n, i \in f[p - (4 - n)]
        PROVE  \E k \in 0 .. n - 1 : j - (n - 1 - k) * BYTE \in f[k]
    <3> DEFINE k == p - (4 - n)
    <3>1. k \in 0 .. n - 1 /\ n - 1 - k = 3 - p
      BY <2>3
    <3>2. j - (n - 1 - k) * BYTE = i
      BY <2>1, <3>1
    <3> QED BY <2>3, <3>1, <3>2
  <2> HIDE DEF v
  <2> QED BY <1>2, <2>1, <2>2, <2>3
<1>4. ASSUME NEW p \in 0 .. 3
      PROVE  Byte(v, p) = IF p >= 4 - n THEN f[p - (4 - n)] ELSE {}
  <2>1. \A i : i \in Byte(v, p) <=> i \in 0 .. BYTE - 1 /\ i + (3 - p) * BYTE \in v
    <3> HIDE DEF v
    <3> QED BY <1>1, InByte
  <2>2. \A i : i \in Byte(v, p) <=>
          i \in 0 .. BYTE - 1 /\ p >= 4 - n /\ i \in f[p - (4 - n)]
    <3> HIDE DEF v
    <3> QED BY <1>3, <2>1
  <2>3. p >= 4 - n => f[p - (4 - n)] \subseteq 0 .. BYTE - 1
    <3>1. p >= 4 - n => p - (4 - n) \in 0 .. n - 1
      OBVIOUS
    <3> QED BY <3>1
  <2> HIDE DEF v
  <2> QED BY <2>2, <2>3
<1> QED BY <1>1, <1>4

-----------------------------------------------------------------------------
(* Bytes in memory.                                                        *)

(* The word a byte is in, and its place there.                             *)
LEMMA Address ==
  ASSUME NEW a \in Addr
  PROVE  /\ a \in Nat /\ a \div 4 \in 0 .. SIZE - 1 /\ a % 4 \in 0 .. 3
         /\ a = 4 * (a \div 4) + (a % 4)
BY SIZEAssumption DEF Addr

(* The words and places of the bytes that follow.                          *)
LEMMA Following ==
  ASSUME NEW a \in Nat, NEW k \in 0 .. 3
  PROVE  IF (a % 4) + k \leq 3
         THEN (a + k) \div 4 = a \div 4 /\ (a + k) % 4 = (a % 4) + k
         ELSE (a + k) \div 4 = (a \div 4) + 1 /\ (a + k) % 4 = (a % 4) + k - 4
OBVIOUS

(* The byte of an address is a byte of its word.                           *)
LEMMA ByteAtIs ==
  ASSUME NEW mem, NEW a
  PROVE  ByteAt(mem, a) = Byte(mem[a \div 4], a % 4)
BY DEF ByteAt, Byte, ByteShift

(* The unaligned word at a, byte by byte.                                  *)
LEMMA WordAtBytes ==
  ASSUME NEW mem \in [0 .. SIZE - 1 -> Word], NEW a \in 0 .. 4 * SIZE - 4
  PROVE  /\ WordAt(mem, a) \in Word
         /\ \A p \in 0 .. 3 : Byte(WordAt(mem, a), p) =
              IF (a % 4) + p \leq 3 THEN Byte(mem[a \div 4], (a % 4) + p)
                                  ELSE Byte(mem[(a \div 4) + 1], (a % 4) + p - 4)
<1> DEFINE f == [k \in 0 .. 3 |-> ByteAt(mem, a + k)]
           v == Join(f, 4)
<1>1. WordAt(mem, a) = v
  <2>1. \A k \in 0 .. 3 : f[k] = ByteAt(mem, a + k) /\ 4 - 1 - k = 3 - k
    OBVIOUS
  <2>2. 0 .. 4 - 1 = 0 .. 3
    OBVIOUS
  <2> HIDE DEF f
  <2>3. v = UNION {Shl(ByteAt(mem, a + k), (3 - k) * BYTE) : k \in 0 .. 3}
    BY <2>1, <2>2 DEF Join
  <2> QED BY <2>3 DEF WordAt
<1>2. \A k \in 0 .. 4 - 1 : f[k] \subseteq 0 .. BYTE - 1
  <2> SUFFICES ASSUME NEW k \in 0 .. 3 PROVE ByteAt(mem, a + k) \subseteq 0 .. BYTE - 1
    OBVIOUS
  <2>1. a + k \in Addr
    BY SIZEAssumption DEF Addr
  <2>2. mem[(a + k) \div 4] \in Word /\ (a + k) % 4 \in 0 .. 3
    BY <2>1, Address
  <2> QED BY <2>2, ByteAtIs, InByte
<1>3. 4 \in 1 .. 4
  OBVIOUS
<1>4. v \in Word /\ \A p \in 0 .. 3 : Byte(v, p) = IF p >= 4 - 4 THEN f[p - (4 - 4)] ELSE {}
  <2> HIDE DEF f
  <2> QED BY <1>2, <1>3, Joined
<1>5. ASSUME NEW p \in 0 .. 3 PROVE Byte(v, p) = ByteAt(mem, a + p)
  <2>1. Byte(v, p) = f[p]
    <3> HIDE DEF v, f
    <3> QED BY <1>4
  <2> QED BY <2>1
<1> HIDE DEF v, f
<1>6. a \in Nat
  BY SIZEAssumption
<1> QED BY <1>1, <1>4, <1>5, <1>6, ByteAtIs, Following

-----------------------------------------------------------------------------
(* Unaligned words.                                                        *)

(* lwl and lwr, in either order, put together the four bytes of the word.  *)
LEMMA LoadUnaligned ==
  ASSUME TypeOK
  PROVE  UnalignedLoad
<1> SUFFICES ASSUME NEW rt \in Reg, NEW a \in 0 .. 4 * SIZE - 4,
                    NEW m \in HighMask(Right(a + 3))
             PROVE  /\ Lwr(a + 3, Read(a + 3), Lwl(a, Read(a), RB[rt]), m) = WordAt(DM, a)
                    /\ Lwl(a, Read(a), Lwr(a + 3, Read(a + 3), RB[rt], m)) = WordAt(DM, a)
  BY DEF UnalignedLoad
<1> DEFINE z == a + 3
           o == a % 4
           u == DM[a \div 4]
           w == DM[z \div 4]
           x == RB[rt]
           v == WordAt(DM, a)
<1>1. a \in Addr /\ z \in Addr /\ a \in Nat /\ o \in 0 .. 3
  BY SIZEAssumption DEF Addr
<1>2. u \in Word /\ w \in Word /\ x \in Word /\ v \in Word
  BY <1>1, Address, WordAtBytes DEF TypeOK
<1>3. Read(a) = u /\ Read(z) = w
  BY DEF Read
<1>4. \A p \in 0 .. 3 : Byte(v, p) = IF o + p \leq 3 THEN Byte(u, o + p)
                                   ELSE Byte(DM[(a \div 4) + 1], o + p - 4)
  BY WordAtBytes DEF TypeOK
<1>5. CASE o = 0
  <2>1. z \div 4 = a \div 4 /\ z % 4 = 3
    BY <1>1, <1>5
  <2>2. w = u
    BY <2>1
  <2>3. u = v
    <3>1. \A p \in 0 .. 3 : Byte(u, p) = Byte(v, p)
      BY <1>4, <1>5
    <3> HIDE DEF u, v
    <3> QED BY <1>2, <3>1, SameBytes
  <2>4. Left(a) = 0 /\ Right(z) = 0
    BY <1>5, <2>1, BYTEAssumption DEF Left, Right
  <2>5. Shl(u, 0) = u /\ Shr(u, 0) = u /\ \A y \in Word : Low(y, 0) = {}
    <3> HIDE DEF u
    <3>1. \A i \in Ones : i \in Int /\ i - 0 = i /\ i + 0 = i /\ ~ (i < 0)
      BY BYTEAssumption DEF Ones, W
    <3>2. Shl(u, 0) = u
      BY <1>2, <3>1 DEF Shl, Word
    <3>3. Shr(u, 0) = u
      BY <1>2, <3>1 DEF Shr, Word
    <3>4. \A y \in Word : Low(y, 0) = {}
      BY <3>1 DEF Low, Word
    <3> QED BY <3>2, <3>3, <3>4
  <2>6. Lwr(z, u, x, m) \in Word
    <3> HIDE DEF u, x, z
    <3> QED BY <1>2 DEF Lwr, Shr, Word
  <2>7. /\ Lwl(a, u, x) = u /\ Lwl(a, u, Lwr(z, u, x, m)) = u
        /\ Lwr(z, u, u, m) = u
    <3> HIDE DEF u, x, z
    <3> QED BY <1>2, <2>4, <2>5, <2>6 DEF Lwl, Lwr
  <2> HIDE DEF u, v, w, x, z
  <2> QED BY <1>3, <2>2, <2>3, <2>7 DEF v, z, x
<1>6. CASE o # 0
  <2>1. z \div 4 = (a \div 4) + 1 /\ z % 4 = o - 1
    BY <1>1, <1>6
  <2>2. Left(a) = o * BYTE /\ Right(z) = (4 - o) * BYTE /\ 4 - o \in 1 .. 3
    BY <1>1, <1>6, <2>1, BYTEAssumption DEF Left, Right
  <2>3. m \in HighMask((4 - o) * BYTE)
    BY <2>2
  <2> HIDE DEF u, w, x, v, z
  <2>4. \A y \in Word :
          /\ Lwl(a, u, y) \in Word
          /\ \A p \in 0 .. 3 :
               Byte(Lwl(a, u, y), p) = IF p + o \leq 3 THEN Byte(u, p + o) ELSE Byte(y, p)
    <3>1. \A y : Lwl(a, u, y) = FillHigh(u, y, o)
      BY <2>2 DEF Lwl, FillHigh
    <3> HIDE DEF o
    <3> QED BY <1>1, <1>2, <3>1, HighFilled
  <2>5. \A y \in Word :
          /\ Lwr(z, w, y, m) \in Word
          /\ \A p \in 0 .. 3 : Byte(Lwr(z, w, y, m), p) =
               IF p >= 4 - o THEN Byte(w, p - (4 - o)) ELSE Byte(y, p)
    <3>1. PICK s \in 1 .. 3 : s = 4 - o
      BY <2>2
    <3>2. \A y : Lwr(z, w, y, m) = FillLow(w, y, s, m)
      BY <2>2, <3>1 DEF Lwr, FillLow
    <3>3. m \in HighMask(s * BYTE)
      BY <2>3, <3>1
    <3> HIDE DEF o
    <3>4. ASSUME NEW y \in Word
          PROVE  /\ FillLow(w, y, s, m) \in Word
                 /\ \A p \in 0 .. 3 : Byte(FillLow(w, y, s, m), p) =
                      IF p >= s THEN Byte(w, p - s) ELSE Byte(y, p)
      BY <1>2, <3>3, LowFilled
    <3> QED BY <3>1, <3>2, <3>4
  <2>6. \A p \in 0 .. 3 : Byte(v, p) = IF o + p \leq 3 THEN Byte(u, o + p)
                                    ELSE Byte(w, o + p - 4)
    BY <1>4, <2>1 DEF u, w
  <2> DEFINE l == Lwl(a, u, x)
             r == Lwr(z, w, x, m)
             rl == Lwr(z, w, l, m)
             lr == Lwl(a, u, r)
  <2> HIDE DEF o
  <2>7. l \in Word /\ r \in Word /\ rl \in Word /\ lr \in Word
    BY <1>2, <2>4, <2>5
  <2>8. \A p \in 0 .. 3 : Byte(rl, p) = Byte(v, p)
    BY <1>1, <1>2, <2>4, <2>5, <2>6, <2>7
  <2>9. \A p \in 0 .. 3 : Byte(lr, p) = Byte(v, p)
    BY <1>1, <1>2, <2>4, <2>5, <2>6, <2>7
  <2>10. rl = v /\ lr = v
    <3> HIDE DEF rl, lr
    <3> QED BY <1>2, <2>7, <2>8, <2>9, SameBytes
  <2> QED BY <1>3, <2>10 DEF x, z, v
<1> QED BY <1>5, <1>6

(* No shift changes nothing.                                               *)
LEMMA NoShift ==
  ASSUME NEW u \in Word
  PROVE  Shl(u, 0) = u /\ Shr(u, 0) = u /\ Low(u, 0) = {}
<1>1. \A i \in Ones : i \in Int /\ i - 0 = i /\ i + 0 = i /\ ~ (i < 0)
  BY BYTEAssumption DEF Ones, W
<1>2. Shl(u, 0) = u
  BY <1>1 DEF Shl, Word
<1>3. Shr(u, 0) = u
  BY <1>1 DEF Shr, Word
<1>4. Low(u, 0) = {}
  BY <1>1 DEF Low, Word
<1> QED BY <1>2, <1>3, <1>4

(* What the two stores leave when the word is aligned: the second repairs  *)
(* what the first has left, whatever the mask m.                           *)
LEMMA StoreAligned ==
  ASSUME TypeOK, NEW x \in Word, NEW a \in 0 .. 4 * SIZE - 4, a % 4 = 0,
         NEW m \in HighMask(Left(a)),
         NEW mem \in [0 .. SIZE - 1 -> Word], mem = [DM EXCEPT ![a \div 4] = x]
  PROVE  /\ WordAt(mem, a) = x
         /\ \A b \in Addr \ (a .. a + 3) : ByteAt(mem, b) = ByteAt(DM, b)
<1>1. a \in Nat /\ a \in Addr
  BY SIZEAssumption DEF Addr
<1>2. mem[a \div 4] = x
  BY <1>1, Address DEF TypeOK
<1>3. WordAt(mem, a) \in Word /\ \A p \in 0 .. 3 : Byte(WordAt(mem, a), p) = Byte(x, p)
  <2>1. \A p \in 0 .. 3 : (a % 4) + p \leq 3 /\ (a % 4) + p = p
    OBVIOUS
  <2> QED BY <1>2, <2>1, WordAtBytes
<1>4. WordAt(mem, a) = x
  BY <1>3, SameBytes
<1>5. ASSUME NEW b \in Addr \ (a .. a + 3)
      PROVE  ByteAt(mem, b) = ByteAt(DM, b)
  <2>1. b \div 4 # a \div 4 /\ b \div 4 \in 0 .. SIZE - 1
    BY <1>1, Address
  <2>2. mem[b \div 4] = DM[b \div 4]
    BY <2>1 DEF TypeOK
  <2> QED BY <2>2, ByteAtIs
<1> QED BY <1>4, <1>5

(* When it is not, each of them writes its own word.                       *)
Across(x, a, m) ==
  [DM EXCEPT ![a \div 4] = Swl(a, DM[a \div 4], x, m),
             ![(a + 3) \div 4] = Swr(a + 3, DM[(a + 3) \div 4], x)]

(* They then leave the word, and no other byte has changed.                *)
LEMMA StoreAcross ==
  ASSUME TypeOK, NEW x \in Word, NEW a \in 0 .. 4 * SIZE - 4, a % 4 # 0,
         NEW m \in HighMask(Left(a)), NEW mem \in [0 .. SIZE - 1 -> Word],
         mem = Across(x, a, m)
  PROVE  /\ WordAt(mem, a) = x
         /\ \A b \in Addr \ (a .. a + 3) : ByteAt(mem, b) = ByteAt(DM, b)
<1> DEFINE z == a + 3
           i == a \div 4
           j == z \div 4
           u == DM[i]
           w == DM[j]
           l == Swl(a, u, x, m)
           r == Swr(z, w, x)
<1>1. PICK o \in 1 .. 3 : o = a % 4
  BY SIZEAssumption
<1>2. /\ a \in Addr /\ z \in Addr /\ a \in Nat
      /\ i \in 0 .. SIZE - 1 /\ j \in 0 .. SIZE - 1 /\ j = i + 1
      /\ a = 4 * i + o /\ z % 4 = o - 1
  BY <1>1, SIZEAssumption DEF Addr
<1>3. u \in Word /\ w \in Word
  BY <1>2 DEF TypeOK
<1>4. mem[i] = l /\ mem[j] = r /\ \A k \in (0 .. SIZE - 1) \ {i, j} : mem[k] = DM[k]
  BY <1>2 DEF TypeOK, Across
<1>5. /\ l \in Word
      /\ \A p \in 0 .. 3 : Byte(l, p) = IF p >= o THEN Byte(x, p - o) ELSE Byte(u, p)
  <2>1. Left(a) = o * BYTE
    BY <1>1 DEF Left
  <2>2. l = FillLow(x, u, o, m) /\ m \in HighMask(o * BYTE)
    BY <2>1 DEF Swl, FillLow
  <2>3. /\ FillLow(x, u, o, m) \in Word
        /\ \A p \in 0 .. 3 : Byte(FillLow(x, u, o, m), p) =
             IF p >= o THEN Byte(x, p - o) ELSE Byte(u, p)
    <3> HIDE DEF u
    <3> QED BY <1>3, <2>2, LowFilled
  <2> QED BY <2>2, <2>3
<1>6. /\ r \in Word
      /\ \A p \in 0 .. 3 :
           Byte(r, p) = IF p < o THEN Byte(x, p + 4 - o) ELSE Byte(w, p)
  <2>1. PICK s \in 1 .. 3 : s = 4 - o
    BY <1>1
  <2>2. Right(z) = s * BYTE
    BY <1>2, <2>1 DEF Right
  <2>3. r = FillHigh(x, w, s)
    BY <2>2 DEF Swr, FillHigh
  <2>4. /\ FillHigh(x, w, s) \in Word
        /\ \A p \in 0 .. 3 : Byte(FillHigh(x, w, s), p) =
             IF p + s \leq 3 THEN Byte(x, p + s) ELSE Byte(w, p)
    <3> HIDE DEF w
    <3> QED BY <1>3, HighFilled
  <2>5. \A p \in 0 .. 3 : (p + s \leq 3 <=> p < o) /\ p + s = p + 4 - o
    BY <2>1
  <2> QED BY <2>3, <2>4, <2>5
<1> HIDE DEF l, r, u, w
<1>7. WordAt(mem, a) = x
  <2>1. /\ WordAt(mem, a) \in Word
        /\ \A p \in 0 .. 3 : Byte(WordAt(mem, a), p) =
             IF o + p \leq 3 THEN Byte(l, o + p) ELSE Byte(r, o + p - 4)
    BY <1>1, <1>2, <1>4, WordAtBytes
  <2>2. \A p \in 0 .. 3 : Byte(WordAt(mem, a), p) = Byte(x, p)
    <3> SUFFICES ASSUME NEW p \in 0 .. 3 PROVE Byte(WordAt(mem, a), p) = Byte(x, p)
      OBVIOUS
    <3>1. CASE o + p \leq 3
      <4>1. o + p \in 0 .. 3 /\ o + p >= o /\ o + p - o = p
        BY <3>1
      <4> QED BY <1>5, <2>1, <3>1, <4>1
    <3>2. CASE ~ (o + p \leq 3)
      <4>1. o + p - 4 \in 0 .. 3 /\ o + p - 4 < o /\ o + p - 4 + 4 - o = p
        BY <3>2
      <4> QED BY <1>6, <2>1, <3>2, <4>1
    <3> QED BY <3>1, <3>2
  <2> QED BY <2>1, <2>2, SameBytes
<1>8. ASSUME NEW b \in Addr \ (a .. a + 3)
      PROVE  ByteAt(mem, b) = ByteAt(DM, b)
  <2> DEFINE k == b \div 4
             q == b % 4
  <2>1. b \in Nat /\ k \in 0 .. SIZE - 1 /\ q \in 0 .. 3 /\ b = 4 * k + q
    BY Address
  <2>2. (k = i => q < o) /\ (k = j => q >= o)
    <3> HIDE DEF k, q, i, j
    <3> QED BY <1>2, <2>1
  <2>3. Byte(mem[k], q) = Byte(DM[k], q)
    <3> HIDE DEF k, q, i, j
    <3>1. CASE k = i
      BY <1>4, <1>5, <2>1, <2>2, <3>1 DEF u
    <3>2. CASE k = j
      BY <1>4, <1>6, <2>1, <2>2, <3>2 DEF w
    <3>3. CASE k \notin {i, j}
      BY <1>4, <2>1, <3>3
    <3> QED BY <3>1, <3>2, <3>3
  <2> QED BY <2>3, ByteAtIs
<1> QED BY <1>7, <1>8

(* swl and swr, in either order, write the four bytes and no others.       *)
LEMMA StoreUnaligned ==
  ASSUME TypeOK
  PROVE  UnalignedStore
<1> SUFFICES ASSUME NEW rt \in Reg, NEW a \in 0 .. 4 * SIZE - 4, NEW m \in HighMask(Left(a))
             PROVE  LET z == a + 3
                        Put(mem, b, v) == [mem EXCEPT ![b \div 4] = v]
                        L(mem) == Put(mem, a, Swl(a, mem[a \div 4], RB[rt], m))
                        R(mem) == Put(mem, z, Swr(z, mem[z \div 4], RB[rt]))
                    IN  \A mem \in {L(R(DM)), R(L(DM))} :
                          /\ WordAt(mem, a) = RB[rt]
                          /\ \A b \in Addr \ (a .. z) : ByteAt(mem, b) = ByteAt(DM, b)
  BY DEF UnalignedStore
<1> DEFINE z == a + 3
           i == a \div 4
           j == z \div 4
           x == RB[rt]
           l(w) == Swl(a, w, x, m)
           r(w) == Swr(z, w, x)
           L(mem) == [mem EXCEPT ![i] = l(mem[i])]
           R(mem) == [mem EXCEPT ![j] = r(mem[j])]
<1>1. a \in Nat /\ i \in 0 .. SIZE - 1 /\ j \in 0 .. SIZE - 1 /\ x \in Word
  <2>1. a \in Addr /\ z \in Addr
    BY SIZEAssumption DEF Addr
  <2> QED BY <2>1, Address DEF TypeOK
<1>2. \A w \in Word : l(w) \in Word /\ r(w) \in Word
  <2> HIDE DEF x, z
  <2> QED BY <1>1 DEF Swl, Swr, Shl, Shr, Low, Word
<1> SUFFICES ASSUME NEW mem \in {L(R(DM)), R(L(DM))}
             PROVE  /\ WordAt(mem, a) = x
                    /\ \A b \in Addr \ (a .. a + 3) : ByteAt(mem, b) = ByteAt(DM, b)
  OBVIOUS
<1>3. mem \in [0 .. SIZE - 1 -> Word]
  <2>1. \A f \in [0 .. SIZE - 1 -> Word] :
          L(f) \in [0 .. SIZE - 1 -> Word] /\ R(f) \in [0 .. SIZE - 1 -> Word]
    <3> HIDE DEF l, r, i, j
    <3> QED BY <1>1, <1>2
  <2> HIDE DEF L, R
  <2> QED BY <2>1 DEF TypeOK
<1>4. CASE a % 4 = 0
  <2>1. j = i
    BY <1>1, <1>4
  <2>2. Left(a) = 0 /\ Right(z) = 0
    <3>1. z % 4 = 3
      BY <1>1, <1>4
    <3> QED BY <1>4, <3>1, BYTEAssumption DEF Left, Right
  <2>3. l(x) = x /\ \A w \in Word : r(w) = x
    <3> HIDE DEF x, z
    <3> QED BY <1>1, <2>2, NoShift DEF Swl, Swr
  <2>4. mem = [DM EXCEPT ![i] = x]
    <3> HIDE DEF l, r, i, j, x
    <3> QED BY <1>1, <1>2, <2>1, <2>3 DEF TypeOK
  <2> HIDE DEF L, R, x
  <2> QED BY <1>1, <1>3, <1>4, <2>4, StoreAligned
<1>5. CASE a % 4 # 0
  <2>1. j # i
    BY <1>1, <1>5
  <2>2. mem = [DM EXCEPT ![i] = l(DM[i]), ![j] = r(DM[j])]
    <3> HIDE DEF l, r, i, j, x
    <3> QED BY <1>1, <1>2, <2>1 DEF TypeOK
  <2>3. mem = Across(x, a, m)
    BY <2>2 DEF Across
  <2> HIDE DEF L, R, x
  <2> QED BY <1>1, <1>3, <1>5, <2>3, StoreAcross
<1> QED BY <1>4, <1>5

-----------------------------------------------------------------------------
(* Registers and memory hold words.                                        *)

(* At the start.                                                           *)
LEMMA InitTypes == Init => TypeOK
<1>1. {} \in Word
  BY DEF Word
<1> QED BY <1>1 DEF Init, TypeOK

(* The two ways an instruction ends.                                       *)
LEMMA SetRegTypes ==
  ASSUME TypeOK, NEW rt \in Reg, NEW v \in Word, SetReg(rt, v)
  PROVE  TypeOK'
BY DEF TypeOK, SetReg

(* A word is written.                                                      *)
LEMMA WriteTypes ==
  ASSUME TypeOK, NEW a \in Addr, NEW v \in Word, Write(a, v)
  PROVE  TypeOK'
<1>1. a \div 4 \in 0 .. SIZE - 1
  BY Address
<1> QED BY <1>1 DEF TypeOK, Write

(* What is read is a word.                                                 *)
LEMMA ReadIsWord ==
  ASSUME TypeOK, NEW a \in Addr
  PROVE  Read(a) \in Word
BY Address DEF TypeOK, Read

(* A word extended by its sign is a word.                                  *)
LEMMA ExtendIsWord ==
  ASSUME NEW x \in Word, NEW n \in Nat
  PROVE  SignExtend(x, n) \in Word
<1>1. n .. W - 1 \subseteq Ones
  BY BYTEAssumption DEF Ones, W
<1> QED BY <1>1 DEF SignExtend, Word

(* Every instruction keeps the types.                                      *)
LEMMA NextTypes == TypeOK /\ [Next]_vars => TypeOK'
<1>1. ASSUME TypeOK, UNCHANGED vars PROVE TypeOK'
  BY <1>1 DEF TypeOK, vars
<1>2. ASSUME TypeOK, NEW rt \in Reg, NEW a \in Addr,
             \/ lb(rt, a) \/ lbu(rt, a) \/ lh(rt, a) \/ lhu(rt, a) \/ lw(rt, a)
             \/ lwl(rt, a) \/ lwr(rt, a)
      PROVE  TypeOK'
  <2>1. Read(a) \in Word /\ RB[rt] \in Word
    BY <1>2, ReadIsWord DEF TypeOK
  <2>2. LoadedByte(a) \in Word /\ LoadedHalf(a) \in Word
    BY DEF LoadedByte, LoadedHalf, Low, Shr, Word
  <2>3. BYTE \in Nat /\ 2 * BYTE \in Nat
    BY BYTEAssumption
  <2>4. /\ SignExtend(LoadedByte(a), BYTE) \in Word
        /\ SignExtend(LoadedHalf(a), 2 * BYTE) \in Word
    BY <2>2, <2>3, ExtendIsWord
  <2>5. Lwl(a, Read(a), RB[rt]) \in Word
    BY <2>1 DEF Lwl, Shl, Low, Word
  <2>6. \A m : Lwr(a, Read(a), RB[rt], m) \in Word
    BY <2>1 DEF Lwr, Shr, Word
  <2> QED BY <1>2, <2>1, <2>2, <2>4, <2>5, <2>6, SetRegTypes
          DEF lb, lbu, lh, lhu, lw, lwl, lwr
<1>3. ASSUME TypeOK, NEW rt \in Reg, NEW a \in Addr,
             sb(rt, a) \/ sh(rt, a) \/ sw(rt, a) \/ swl(rt, a) \/ swr(rt, a)
      PROVE  TypeOK'
  <2>1. Read(a) \in Word /\ RB[rt] \in Word
    BY <1>3, ReadIsWord DEF TypeOK
  <2>2. \A at, n : Replace(Read(a), at, n, RB[rt]) \in Word
    BY <2>1 DEF Replace, Shl, Word
  <2>3. \A m : Swl(a, Read(a), RB[rt], m) \in Word
    BY <2>1 DEF Swl, Shr, Word
  <2>4. Swr(a, Read(a), RB[rt]) \in Word
    BY <2>1 DEF Swr, Shl, Low, Word
  <2> QED BY <1>3, <2>1, <2>2, <2>3, <2>4, WriteTypes DEF sb, sh, sw, swl, swr
<1> QED BY <1>1, <1>2, <1>3 DEF Next

(* Registers and memory hold words in every reachable state.               *)
LEMMA Types == Spec => []TypeOK
BY InitTypes, NextTypes, PTL DEF Spec

(* An unaligned word is loaded by lwl and lwr, in either order, whatever   *)
(* the shifts that C leaves undefined give.                                *)
THEOREM LoadsUnaligned == Spec => []UnalignedLoad
<1>1. TypeOK => UnalignedLoad
  BY LoadUnaligned
<1> QED BY <1>1, Types, PTL

(* An unaligned word is stored by swl and swr, in either order, and no     *)
(* other byte changes.                                                     *)
THEOREM StoresUnaligned == Spec => []UnalignedStore
<1>1. TypeOK => UnalignedStore
  BY StoreUnaligned
<1> QED BY <1>1, Types, PTL

-----------------------------------------------------------------------------
(* The memory of bytes.                                                    *)

(* Its words are the same words.                                           *)
LEMMA SameBits ==
  /\ BM!Word = Word
  /\ \A x, n : /\ BM!Low(x, n) = Low(x, n) /\ BM!Shl(x, n) = Shl(x, n)
              /\ BM!Shr(x, n) = Shr(x, n) /\ BM!SignExtend(x, n) = SignExtend(x, n)
<1>1. BM!W = W /\ BM!Ones = Ones
  BY DEF BM!W, W, BM!Ones, Ones
<1>2. BM!Word = Word
  BY <1>1 DEF BM!Word, Word
<1>3. ASSUME NEW x, NEW n PROVE BM!Low(x, n) = Low(x, n)
  BY DEF BM!Low, Low
<1>4. ASSUME NEW x, NEW n PROVE BM!Shl(x, n) = Shl(x, n)
  BY <1>1 DEF BM!Shl, Shl
<1>5. ASSUME NEW x, NEW n PROVE BM!Shr(x, n) = Shr(x, n)
  BY <1>1 DEF BM!Shr, Shr
<1>6. ASSUME NEW x, NEW n PROVE BM!SignExtend(x, n) = SignExtend(x, n)
  BY <1>1 DEF BM!SignExtend, SignExtend
<1> QED BY <1>2, <1>3, <1>4, <1>5, <1>6

(* The n bytes from a on, when they lie in one word of memory.             *)
LEMMA ValueBytes ==
  ASSUME TypeOK, NEW a \in Addr, NEW n \in 1 .. 4, (a % 4) + n \leq 4
  PROVE  /\ BM!Value(a, n) \in Word
         /\ \A p \in 0 .. 3 : Byte(BM!Value(a, n), p) =
              IF p >= 4 - n THEN Byte(Read(a), (a % 4) + p - (4 - n)) ELSE {}
<1> DEFINE B == [b \in Addr |-> ByteAt(DM, b)]
           f == [k \in 0 .. n - 1 |-> B[a + k]]
           v == Join(f, n)
<1>1. ASSUME NEW k \in 0 .. n - 1
      PROVE  /\ f[k] = Byte(Read(a), (a % 4) + k) /\ f[k] \subseteq 0 .. BYTE - 1
  <2>1. /\ a \in Nat /\ a % 4 \in 0 .. 3 /\ k \in 0 .. 3 /\ (a % 4) + k \in 0 .. 3
        /\ a + k \in Addr
    BY Address, SIZEAssumption DEF Addr
  <2>2. (a + k) \div 4 = a \div 4 /\ (a + k) % 4 = (a % 4) + k
    BY <2>1, Following
  <2>3. f[k] = ByteAt(DM, a + k)
    BY <2>1
  <2>4. f[k] = Byte(Read(a), (a % 4) + k)
    BY <2>2, <2>3, ByteAtIs DEF Read
  <2>5. Read(a) \in Word
    BY ReadIsWord
  <2>6. Byte(Read(a), (a % 4) + k) \subseteq 0 .. BYTE - 1
    BY <2>1, <2>5, InByte
  <2> QED BY <2>4, <2>6
<1>2. BM!Value(a, n) = v
  <2>1. BM!Value(a, n) = UNION {Shl(B[a + k], (n - 1 - k) * BYTE) : k \in 0 .. n - 1}
    <3> HIDE DEF B
    <3>1. BM!Value(a, n) = UNION {BM!Shl(B[a + k], (n - 1 - k) * BYTE) : k \in 0 .. n - 1}
      BY DEF BM!Value, B
    <3> QED BY <3>1, SameBits
  <2>2. \A k \in 0 .. n - 1 : f[k] = B[a + k]
    OBVIOUS
  <2> HIDE DEF f, B
  <2> QED BY <2>1, <2>2 DEF Join
<1> HIDE DEF f
<1>3. v \in Word /\ \A p \in 0 .. 3 : Byte(v, p) = IF p >= 4 - n THEN f[p - (4 - n)] ELSE {}
  BY <1>1, Joined
<1> HIDE DEF v
<1>4. ASSUME NEW p \in 0 .. 3, p >= 4 - n
      PROVE  f[p - (4 - n)] = Byte(Read(a), (a % 4) + p - (4 - n))
  <2>1. p - (4 - n) \in 0 .. n - 1 /\ (a % 4) + (p - (4 - n)) = (a % 4) + p - (4 - n)
    BY <1>4, Address
  <2> QED BY <1>1, <2>1
<1> QED BY <1>2, <1>3, <1>4

(* n bytes cut out of a word.                                              *)
LEMMA Extracted ==
  ASSUME NEW w \in Word, NEW n \in 1 .. 4, NEW o \in 0 .. 4 - n
  PROVE  LET v == Low(Shr(w, (4 - o - n) * BYTE), n * BYTE)
         IN  /\ v \in Word
             /\ \A p \in 0 .. 3 : Byte(v, p) =
                  IF p >= 4 - n THEN Byte(w, o + p - (4 - n)) ELSE {}
<1> DEFINE A == (4 - o - n) * BYTE
           N == n * BYTE
           v == Low(Shr(w, (4 - o - n) * BYTE), n * BYTE)
<1>1. v \in Word
  BY DEF Low, Shr, Word
<1>2. A \in Nat /\ N \in Nat /\ A + N \leq 4 * BYTE
  BY BYTEAssumption
<1>3. v = Low(Shr(w, A), N)
  OBVIOUS
<1>4. ASSUME NEW p \in 0 .. 3, p >= 4 - n
      PROVE  Byte(v, p) = Byte(w, o + p - (4 - n))
  <2> DEFINE P == (3 - p) * BYTE
             Q == (3 - (o + p - (4 - n))) * BYTE
  <2>1. o + p - (4 - n) \in 0 .. 3
    BY <1>4
  <2>2. P \in Nat /\ Q \in Nat /\ Q = P + A /\ P + BYTE \leq N
    BY <1>4, BYTEAssumption
  <2>3. \A i : i \in Byte(v, p) <=> i \in 0 .. BYTE - 1 /\ i + P \in v
    BY <1>1, InByte
  <2>4. \A i : i \in Byte(w, o + p - (4 - n)) <=> i \in 0 .. BYTE - 1 /\ i + Q \in w
    BY <2>1, InByte
  <2> HIDE DEF P, Q, A, N, v
  <2>5. ASSUME NEW i \in 0 .. BYTE - 1 PROVE i + P \in v <=> i + Q \in w
    BY <1>2, <1>3, <2>2, <2>5, BYTEAssumption DEF Shr, Low, Ones, Word, W
  <2> QED BY <2>3, <2>4, <2>5
<1>5. ASSUME NEW p \in 0 .. 3, ~ (p >= 4 - n)
      PROVE  Byte(v, p) = {}
  <2> DEFINE P == (3 - p) * BYTE
  <2>1. P \in Nat /\ P >= N
    BY <1>5, BYTEAssumption
  <2>2. \A i : i \in Byte(v, p) <=> i \in 0 .. BYTE - 1 /\ i + P \in v
    BY <1>1, InByte
  <2> HIDE DEF P, A, N, v
  <2>3. ASSUME NEW i \in 0 .. BYTE - 1 PROVE i + P \notin v
    BY <1>2, <1>3, <2>1, <2>3, BYTEAssumption DEF Low
  <2> QED BY <2>2, <2>3
<1> QED BY <1>1, <1>4, <1>5

(* What the byte and halfword loads cut out is what the bytes spell.       *)
LEMMA LoadedIs ==
  ASSUME TypeOK, NEW a \in Addr
  PROVE  /\ BM!Value(a, 1) = LoadedByte(a)
         /\ a % 2 = 0 => BM!Value(a, 2) = LoadedHalf(a)
         /\ a % 4 = 0 => BM!Value(a, 4) = Read(a)
<1> DEFINE o == a % 4
           w == Read(a)
           v(n) == Low(Shr(w, (4 - o - n) * BYTE), n * BYTE)
<1>1. o \in 0 .. 3 /\ w \in Word /\ a \in Nat
  BY Address, ReadIsWord
<1>2. ASSUME NEW n \in 1 .. 4, o + n \leq 4 PROVE BM!Value(a, n) = v(n)
  <2>1. o \in 0 .. 4 - n
    BY <1>1, <1>2
  <2>2. v(n) \in Word /\ \A p \in 0 .. 3 : Byte(v(n), p) =
          IF p >= 4 - n THEN Byte(w, o + p - (4 - n)) ELSE {}
    <3> HIDE DEF o, w
    <3> QED BY <1>1, <2>1, Extracted
  <2>3. /\ BM!Value(a, n) \in Word
        /\ \A p \in 0 .. 3 : Byte(BM!Value(a, n), p) =
             IF p >= 4 - n THEN Byte(w, o + p - (4 - n)) ELSE {}
    BY <1>2, ValueBytes
  <2> HIDE DEF v, o, w
  <2> QED BY <2>2, <2>3, SameBytes
<1>3. v(1) = LoadedByte(a)
  <2>1. (4 - o - 1) * BYTE = (3 - o) * BYTE /\ 1 * BYTE = BYTE
    BY <1>1, BYTEAssumption
  <2> QED BY <2>1 DEF LoadedByte, ByteShift
<1>4. a % 2 = 0 => o + 2 \leq 4 /\ v(2) = LoadedHalf(a)
  <2> SUFFICES ASSUME a % 2 = 0 PROVE o + 2 \leq 4 /\ v(2) = LoadedHalf(a)
    OBVIOUS
  <2>1. o = 0 \/ o = 2
    BY <1>1
  <2>2. (4 - o - 2) * BYTE = (1 - o \div 2) * (2 * BYTE)
    BY <2>1, BYTEAssumption
  <2> QED BY <2>1, <2>2 DEF LoadedHalf, HalfShift
<1>5. a % 4 = 0 => v(4) = w
  <2> SUFFICES ASSUME a % 4 = 0 PROVE v(4) = w
    OBVIOUS
  <2>1. (4 - o - 4) * BYTE = 0 /\ 4 * BYTE = W
    BY BYTEAssumption DEF W
  <2>2. Shr(w, 0) = w
    BY <1>1, NoShift
  <2>3. Low(w, W) = w
    <3>1. \A i \in Ones : i < W
      BY BYTEAssumption DEF Ones, W
    <3> HIDE DEF w
    <3> QED BY <1>1, <3>1 DEF Low, Word
  <2> QED BY <2>1, <2>2, <2>3
<1> HIDE DEF v, o, w
<1>6. /\ 1 \in 1 .. 4 /\ 2 \in 1 .. 4 /\ 4 \in 1 .. 4
      /\ o + 1 \leq 4 /\ (a % 4 = 0 => o + 4 \leq 4)
  BY <1>1 DEF o
<1> QED BY <1>2, <1>3, <1>4, <1>5, <1>6 DEF w

(* An instruction that only sets a register is a load.                     *)
LEMMA LoadIs ==
  ASSUME NEW rt \in Reg, NEW v, SetReg(rt, v)
  PROVE  BM!Load(rt, v)
<1>1. \A a : ByteAt(DM, a)' = ByteAt(DM, a)
  BY DEF SetReg, ByteAt
<1> QED BY <1>1 DEF SetReg, BM!Load

(* One that writes a word is a store of the bytes in which it differs.     *)
LEMMA StoreIs ==
  ASSUME TypeOK, NEW a \in Addr, NEW v \in Word, Write(a, v),
         NEW c \in Addr, c \div 4 = a \div 4,
         NEW n \in 1 .. 4, (c % 4) + n \leq 4, NEW x \in Word,
         \A p \in 0 .. 3 : Byte(v, p) = IF p \in c % 4 .. (c % 4) + n - 1
                                       THEN Byte(x, p - (c % 4) + 4 - n)
                                       ELSE Byte(Read(a), p)
  PROVE  BM!Store(c, n, x)
<1> DEFINE o == c % 4
           i == c \div 4
<1>1. c \in Nat /\ i \in 0 .. SIZE - 1 /\ o \in 0 .. 3 /\ c = 4 * i + o
  BY Address
<1>2. DM' = [DM EXCEPT ![i] = v] /\ RB' = RB
  BY DEF Write
<1>3. DM'[i] = v /\ \A k \in (0 .. SIZE - 1) \ {i} : DM'[k] = DM[k]
  <2> HIDE DEF i
  <2> QED BY <1>1, <1>2 DEF TypeOK
<1>4. ASSUME NEW b \in Addr
      PROVE  ByteAt(DM', b) = IF b \in c .. c + n - 1 THEN BM!ByteOf(x, n, b - c)
                              ELSE ByteAt(DM, b)
  <2> DEFINE k == b \div 4
             q == b % 4
  <2>1. b \in Nat /\ k \in 0 .. SIZE - 1 /\ q \in 0 .. 3 /\ b = 4 * k + q
    BY Address
  <2>2. ByteAt(DM', b) = Byte(DM'[k], q) /\ ByteAt(DM, b) = Byte(DM[k], q)
    BY ByteAtIs
  <2>3. CASE b \in c .. c + n - 1
    <3>1. k = i /\ q \in o .. o + n - 1 /\ b - c = q - o
      <4> HIDE DEF k, q, i, o
      <4> QED BY <1>1, <2>1, <2>3
    <3>2. Byte(v, q) = Byte(x, q - o + 4 - n)
      BY <2>1, <3>1
    <3>3. BM!ByteOf(x, n, b - c) = Low(Shr(x, (n - 1 - (b - c)) * BYTE), BYTE)
      BY SameBits DEF BM!ByteOf
    <3>4. n - 1 - (b - c) = 3 - (q - o + 4 - n)
      <4> HIDE DEF k, q, i, o
      <4> QED BY <1>1, <2>1, <3>1
    <3>5. BM!ByteOf(x, n, b - c) = Byte(x, q - o + 4 - n)
      BY <3>3, <3>4 DEF Byte
    <3> HIDE DEF k, q, i, o
    <3> QED BY <1>3, <2>2, <2>3, <3>1, <3>2, <3>5
  <2>4. CASE b \notin c .. c + n - 1
    <3>1. k = i => q \notin o .. o + n - 1
      <4> HIDE DEF k, q, i, o
      <4> QED BY <1>1, <2>1, <2>4
    <3>2. Read(a) = DM[i]
      BY DEF Read
    <3>3. k = i => Byte(v, q) = Byte(DM[i], q)
      BY <2>1, <3>1, <3>2
    <3> HIDE DEF k, q, i, o
    <3> QED BY <1>3, <2>1, <2>2, <2>4, <3>3
  <2> QED BY <2>3, <2>4
<1>5. [b \in Addr |-> ByteAt(DM', b)]
      = [b \in Addr |-> IF b \in c .. c + n - 1 THEN BM!ByteOf(x, n, b - c)
                       ELSE [d \in Addr |-> ByteAt(DM, d)][b]]
  BY <1>4
<1> QED BY <1>2, <1>5 DEF BM!Store

(* The bytes and halfwords that are loaded, and whole words.               *)
LEMMA PlainLoads ==
  ASSUME TypeOK, NEW rt \in Reg, NEW a \in Addr
  PROVE  /\ lb(rt, a)  => BM!LoadSigned(rt, a, 1)
         /\ lbu(rt, a) => BM!LoadUnsigned(rt, a, 1)
         /\ lh(rt, a)  => BM!LoadSigned(rt, a, 2)
         /\ lhu(rt, a) => BM!LoadUnsigned(rt, a, 2)
         /\ lw(rt, a)  => BM!LoadUnsigned(rt, a, 4)
<1>1. a % 1 = 0 /\ 1 * BYTE = BYTE
  BY Address, BYTEAssumption
<1> USE SameBits DEF BM!LoadSigned, BM!LoadUnsigned
<1>2. lb(rt, a) => BM!LoadSigned(rt, a, 1)
  BY <1>1, LoadedIs, LoadIs DEF lb
<1>3. lbu(rt, a) => BM!LoadUnsigned(rt, a, 1)
  BY <1>1, LoadedIs, LoadIs DEF lbu
<1>4. lh(rt, a) => BM!LoadSigned(rt, a, 2)
  BY LoadedIs, LoadIs DEF lh
<1>5. lhu(rt, a) => BM!LoadUnsigned(rt, a, 2)
  BY LoadedIs, LoadIs DEF lhu
<1>6. lw(rt, a) => BM!LoadUnsigned(rt, a, 4)
  BY LoadedIs, LoadIs DEF lw
<1> QED BY <1>2, <1>3, <1>4, <1>5, <1>6

(* The stores of the low byte, the low halfword and the whole register.    *)
LEMMA PlainStores ==
  ASSUME TypeOK, NEW rt \in Reg, NEW a \in Addr
  PROVE  /\ sb(rt, a) => BM!StoreLow(rt, a, 1)
         /\ sh(rt, a) => BM!StoreLow(rt, a, 2)
         /\ sw(rt, a) => BM!StoreLow(rt, a, 4)
<1> DEFINE o == a % 4
           w == Read(a)
           x == RB[rt]
<1>1. a \in Nat /\ o \in 0 .. 3 /\ w \in Word /\ x \in Word
  BY Address, ReadIsWord DEF TypeOK
<1>2. ASSUME NEW n \in 1 .. 3, o + n \leq 4,
             Write(a, Replace(w, (4 - o - n) * BYTE, n * BYTE, x))
      PROVE  BM!Store(a, n, x)
  <2> DEFINE v == Replace(w, (4 - o - n) * BYTE, n * BYTE, x)
  <2>1. o \in 0 .. 4 - n
    BY <1>1, <1>2
  <2>2. v \in Word /\ \A p \in 0 .. 3 :
          Byte(v, p) = IF p \in o .. o + n - 1 THEN Byte(x, p - o + 4 - n) ELSE Byte(w, p)
    <3> HIDE DEF o, w, x
    <3> QED BY <1>1, <2>1, Replaced
  <2>3. Write(a, v) /\ n \in 1 .. 4
    BY <1>2
  <2> HIDE DEF v, x
  <2> QED BY <1>1, <1>2, <2>2, <2>3, StoreIs
<1>3. sb(rt, a) => BM!StoreLow(rt, a, 1)
  <2> SUFFICES ASSUME sb(rt, a) PROVE BM!StoreLow(rt, a, 1)
    OBVIOUS
  <2>1. (4 - o - 1) * BYTE = ByteShift(a) /\ 1 * BYTE = BYTE
    BY <1>1, BYTEAssumption DEF ByteShift
  <2>2. Write(a, Replace(w, (4 - o - 1) * BYTE, 1 * BYTE, x))
    BY <2>1 DEF sb
  <2>3. BM!Store(a, 1, x)
    <3> HIDE DEF w, x
    <3> QED BY <1>1, <1>2, <2>2
  <2> QED BY <1>1, <2>3 DEF BM!StoreLow
<1>4. sh(rt, a) => BM!StoreLow(rt, a, 2)
  <2> SUFFICES ASSUME sh(rt, a) PROVE BM!StoreLow(rt, a, 2)
    OBVIOUS
  <2>1. a % 2 = 0 /\ (o = 0 \/ o = 2)
    BY <1>1 DEF sh
  <2>2. (4 - o - 2) * BYTE = HalfShift(a)
    BY <2>1, BYTEAssumption DEF HalfShift
  <2>3. Write(a, Replace(w, (4 - o - 2) * BYTE, 2 * BYTE, x))
    BY <2>2 DEF sh
  <2>4. BM!Store(a, 2, x)
    <3>1. o + 2 \leq 4
      BY <2>1
    <3> HIDE DEF o, w, x
    <3> QED BY <1>2, <2>3, <3>1
  <2> QED BY <2>1, <2>4 DEF BM!StoreLow
<1>5. sw(rt, a) => BM!StoreLow(rt, a, 4)
  <2> SUFFICES ASSUME sw(rt, a) PROVE BM!StoreLow(rt, a, 4)
    OBVIOUS
  <2>1. o = 0 /\ Write(a, x)
    BY DEF sw
  <2>2. \A p \in 0 .. 3 : p \in o .. o + 4 - 1 /\ p - o + 4 - 4 = p
    BY <2>1
  <2>3. BM!Store(a, 4, x)
    <3>1. 4 \in 1 .. 4 /\ o + 4 \leq 4
      BY <2>1
    <3> HIDE DEF w, x
    <3> QED BY <1>1, <2>1, <2>2, <3>1, StoreIs
  <2> QED BY <2>1, <2>3 DEF BM!StoreLow
<1> QED BY <1>3, <1>4, <1>5

(* The low n bytes of a register are replaced.                             *)
LowReplaced(x, y, n) == (x \ Low(x, n * BYTE)) \cup y

(* What they become, byte by byte.                                         *)
LEMMA LowBytes ==
  ASSUME NEW x \in Word, NEW y \in Word, NEW n \in 1 .. 3,
         \A p \in 0 .. 3 - n : Byte(y, p) = {}
  PROVE  /\ LowReplaced(x, y, n) \in Word
         /\ \A p \in 0 .. 3 : Byte(LowReplaced(x, y, n), p) =
              IF p >= 4 - n THEN Byte(y, p) ELSE Byte(x, p)
<1> DEFINE N == n * BYTE
           v == LowReplaced(x, y, n)
<1>1. v \in Word /\ v = (x \ Low(x, N)) \cup y
  BY DEF LowReplaced, Word
<1>2. ASSUME NEW p \in 0 .. 3, NEW i \in 0 .. BYTE - 1
      PROVE  i + (3 - p) * BYTE \in v <=>
               IF p >= 4 - n THEN i + (3 - p) * BYTE \in y ELSE i + (3 - p) * BYTE \in x
  <2> DEFINE P == (3 - p) * BYTE
  <2>1. /\ P \in Nat /\ N \in Nat
        /\ (p >= 4 - n => P + BYTE \leq N) /\ (~ (p >= 4 - n) => P >= N)
    BY BYTEAssumption
  <2>2. ~ (p >= 4 - n) => i + P \notin y
    <3> SUFFICES ASSUME ~ (p >= 4 - n) PROVE i + P \notin y
      OBVIOUS
    <3>1. p \in 0 .. 3 - n
      OBVIOUS
    <3>2. i \in Byte(y, p) <=> i \in 0 .. BYTE - 1 /\ i + P \in y
      BY InByte
    <3> HIDE DEF P
    <3> QED BY <3>1, <3>2
  <2> HIDE DEF P, N, v
  <2>3. i + P \in v <=> IF p >= 4 - n THEN i + P \in y ELSE i + P \in x
    BY <1>1, <2>1, <2>2, BYTEAssumption DEF Low
  <2> QED BY <2>3 DEF P
<1>3. ASSUME NEW p \in 0 .. 3
      PROVE  Byte(v, p) = IF p >= 4 - n THEN Byte(y, p) ELSE Byte(x, p)
  <2> DEFINE P == (3 - p) * BYTE
  <2>1. \A i : i \in Byte(v, p) <=> i \in 0 .. BYTE - 1 /\ i + P \in v
    BY <1>1, InByte
  <2>2. \A i : i \in Byte(y, p) <=> i \in 0 .. BYTE - 1 /\ i + P \in y
    BY InByte
  <2>3. \A i : i \in Byte(x, p) <=> i \in 0 .. BYTE - 1 /\ i + P \in x
    BY InByte
  <2>4. \A i \in 0 .. BYTE - 1 :
          i + P \in v <=> IF p >= 4 - n THEN i + P \in y ELSE i + P \in x
    BY <1>2
  <2> HIDE DEF P, v
  <2> QED BY <2>1, <2>2, <2>3, <2>4
<1> QED BY <1>1, <1>3

(* The part of an unaligned word that is loaded to the left of a register. *)
LEMMA LeftLoad ==
  ASSUME TypeOK, NEW rt \in Reg, NEW a \in Addr, lwl(rt, a)
  PROVE  BM!LoadLeft(rt, a)
<1> DEFINE w == Read(a)
           x == RB[rt]
           y == BM!Value(a, 4 - (a % 4))
<1>1. PICK o \in 0 .. 3 : o = a % 4
  BY Address
<1>2. w \in Word /\ x \in Word
  BY ReadIsWord DEF TypeOK
<1>3. y \in Word /\ \A p \in 0 .. 3 : Byte(y, p) = IF p >= o THEN Byte(w, p) ELSE {}
  <2>1. PICK n \in 1 .. 4 : n = 4 - o
    OBVIOUS
  <2>2. /\ BM!Value(a, n) \in Word
        /\ \A p \in 0 .. 3 : Byte(BM!Value(a, n), p) =
             IF p >= 4 - n THEN Byte(w, o + p - (4 - n)) ELSE {}
    <3>1. (a % 4) + n \leq 4
      BY <1>1, <2>1
    <3>2. /\ BM!Value(a, n) \in Word
          /\ \A p \in 0 .. 3 : Byte(BM!Value(a, n), p) =
               IF p >= 4 - n THEN Byte(w, (a % 4) + p - (4 - n)) ELSE {}
      BY <3>1, ValueBytes
    <3> HIDE DEF w
    <3> QED BY <1>1, <3>2
  <2>3. 4 - n = o /\ 4 - (a % 4) = n /\ \A p \in 0 .. 3 : o + p - o = p
    BY <1>1, <2>1
  <2> HIDE DEF w
  <2> QED BY <2>2, <2>3
<1>4. Lwl(a, w, x) = FillHigh(w, x, o)
  BY <1>1 DEF Lwl, Left, FillHigh
<1> HIDE DEF w, x, y
<1>5. FillHigh(w, x, o) = FillHigh(y, x, o)
  <2>1. /\ FillHigh(w, x, o) \in Word
        /\ \A p \in 0 .. 3 : Byte(FillHigh(w, x, o), p) =
             IF p + o \leq 3 THEN Byte(w, p + o) ELSE Byte(x, p)
    BY <1>2, HighFilled
  <2>2. /\ FillHigh(y, x, o) \in Word
        /\ \A p \in 0 .. 3 : Byte(FillHigh(y, x, o), p) =
             IF p + o \leq 3 THEN Byte(y, p + o) ELSE Byte(x, p)
    BY <1>2, <1>3, HighFilled
  <2>3. ASSUME NEW p \in 0 .. 3, p + o \leq 3 PROVE Byte(w, p + o) = Byte(y, p + o)
    <3>1. p + o \in 0 .. 3 /\ p + o >= o
      BY <2>3
    <3> QED BY <1>3, <3>1
  <2>4. \A p \in 0 .. 3 : Byte(FillHigh(w, x, o), p) = Byte(FillHigh(y, x, o), p)
    BY <2>1, <2>2, <2>3
  <2> QED BY <2>1, <2>2, <2>4, SameBytes
<1>6. BM!Load(rt, FillHigh(y, x, o))
  <2>1. SetReg(rt, FillHigh(w, x, o))
    BY <1>4 DEF lwl, w, x
  <2> QED BY <1>5, <2>1, LoadIs
<1> QED BY <1>1, <1>6, SameBits DEF BM!LoadLeft, FillHigh, y, x

(* The part that is loaded to the right; unspecified when it is the whole  *)
(* word.                                                                   *)
LEMMA RightLoad ==
  ASSUME TypeOK, NEW rt \in Reg, NEW a \in Addr, lwr(rt, a)
  PROVE  BM!LoadRight(rt, a)
<1> DEFINE w == Read(a)
           x == RB[rt]
           c == a - (a % 4)
<1>1. PICK o \in 0 .. 3 : o = a % 4
  BY Address
<1>2. w \in Word /\ x \in Word
  BY ReadIsWord DEF TypeOK
<1>3. PICK m \in HighMask(Right(a)) : SetReg(rt, Lwr(a, w, x, m))
  BY DEF lwr
<1>4. BM!Load(rt, Lwr(a, w, x, m))
  BY <1>3, LoadIs
<1>5. CASE o = 3
  <2>1. Lwr(a, w, x, m) \in BM!Word
    <3> HIDE DEF w, x
    <3>1. Lwr(a, w, x, m) \in Word
      BY <1>2 DEF Lwr, Shr, Word
    <3> QED BY <3>1, SameBits
  <2> HIDE DEF w, x
  <2> QED BY <1>1, <1>4, <1>5, <2>1 DEF BM!LoadRight
<1>6. CASE o # 3
  <2>1. PICK n \in 1 .. 3 : n = o + 1
    BY <1>6
  <2>2. PICK s \in 1 .. 3 : s = 3 - o
    BY <1>6
  <2>3. Lwr(a, w, x, m) = FillLow(w, x, s, m) /\ m \in HighMask(s * BYTE)
    BY <1>1, <2>2 DEF Lwr, Right, FillLow
  <2>4. c \in Addr /\ c % 4 = 0 /\ c \div 4 = a \div 4
    BY SIZEAssumption DEF Addr
  <2>5. Read(c) = w
    BY <2>4 DEF Read
  <2> DEFINE y == BM!Value(c, n)
  <2>6. y \in Word /\ \A p \in 0 .. 3 :
          Byte(y, p) = IF p >= 4 - n THEN Byte(w, p - (4 - n)) ELSE {}
    <3>1. /\ n \in 1 .. 4 /\ (c % 4) + n \leq 4
          /\ \A p \in 0 .. 3 : (c % 4) + p - (4 - n) = p - (4 - n)
      BY <2>4
    <3>2. /\ BM!Value(c, n) \in Word
          /\ \A p \in 0 .. 3 : Byte(BM!Value(c, n), p) =
               IF p >= 4 - n THEN Byte(Read(c), (c % 4) + p - (4 - n)) ELSE {}
      <4> HIDE DEF c
      <4> QED BY <2>4, <3>1, ValueBytes
    <3> HIDE DEF c, w
    <3> QED BY <2>5, <3>1, <3>2
  <2> HIDE DEF y, w, x, c
  <2>7. FillLow(w, x, s, m) = LowReplaced(x, y, n)
    <3>1. /\ FillLow(w, x, s, m) \in Word
          /\ \A p \in 0 .. 3 : Byte(FillLow(w, x, s, m), p) =
               IF p >= s THEN Byte(w, p - s) ELSE Byte(x, p)
      BY <1>2, <2>3, LowFilled
    <3>2. /\ LowReplaced(x, y, n) \in Word
          /\ \A p \in 0 .. 3 : Byte(LowReplaced(x, y, n), p) =
               IF p >= 4 - n THEN Byte(y, p) ELSE Byte(x, p)
      <4>1. \A p \in 0 .. 3 - n : p \in 0 .. 3 /\ ~ (p >= 4 - n)
        OBVIOUS
      <4>2. \A p \in 0 .. 3 - n : Byte(y, p) = {}
        BY <2>6, <4>1
      <4> QED BY <1>2, <2>6, <4>2, LowBytes
    <3>3. 4 - n = s
      BY <2>1, <2>2
    <3>4. \A p \in 0 .. 3 : Byte(FillLow(w, x, s, m), p) = Byte(LowReplaced(x, y, n), p)
      BY <2>6, <3>1, <3>2, <3>3
    <3> QED BY <3>1, <3>2, <3>4, SameBytes
  <2>8. BM!Load(rt, LowReplaced(x, y, n))
    BY <1>4, <2>3, <2>7
  <2>9. (a % 4) + 1 = n /\ n # 4
    BY <1>1, <2>1
  <2> QED BY <2>8, <2>9, SameBits DEF BM!LoadRight, LowReplaced, y, x, c
<1> QED BY <1>5, <1>6

(* A word shifted right, by bytes.                                         *)
LEMMA Shifted ==
  ASSUME NEW x \in Word, NEW s \in 0 .. 3
  PROVE  /\ Shr(x, s * BYTE) \in Word
         /\ \A p \in s .. 3 : Byte(Shr(x, s * BYTE), p) = Byte(x, p - s)
<1> DEFINE S == s * BYTE
           v == Shr(x, s * BYTE)
<1>1. v \in Word /\ v = Shr(x, S) /\ S \in Nat
  BY BYTEAssumption DEF Shr, Word
<1>2. ASSUME NEW p \in s .. 3
      PROVE  Byte(v, p) = Byte(x, p - s)
  <2> DEFINE P == (3 - p) * BYTE
             Q == (3 - (p - s)) * BYTE
  <2>1. p \in 0 .. 3 /\ p - s \in 0 .. 3
    OBVIOUS
  <2>2. P \in Nat /\ Q = P + S /\ P + BYTE \leq 4 * BYTE
    BY <2>1, BYTEAssumption
  <2>3. \A i : i \in Byte(v, p) <=> i \in 0 .. BYTE - 1 /\ i + P \in v
    BY <1>1, <2>1, InByte
  <2>4. \A i : i \in Byte(x, p - s) <=> i \in 0 .. BYTE - 1 /\ i + Q \in x
    BY <2>1, InByte
  <2> HIDE DEF P, Q, S, v
  <2>5. ASSUME NEW i \in 0 .. BYTE - 1 PROVE i + P \in v <=> i + Q \in x
    BY <1>1, <2>2, <2>5, BYTEAssumption DEF Shr, Ones, W
  <2> QED BY <2>3, <2>4, <2>5
<1> QED BY <1>1, <1>2

(* The part of a register that is stored to the right end of a word;       *)
(* unspecified when it is the whole register.                              *)
LEMMA LeftStore ==
  ASSUME TypeOK, NEW rt \in Reg, NEW a \in Addr, swl(rt, a)
  PROVE  BM!StoreLeft(rt, a)
<1> DEFINE w == Read(a)
           x == RB[rt]
<1>1. PICK o \in 0 .. 3 : o = a % 4
  BY Address
<1>2. w \in Word /\ x \in Word
  BY ReadIsWord DEF TypeOK
<1>3. PICK m \in HighMask(Left(a)) : Write(a, Swl(a, w, x, m))
  BY DEF swl
<1> DEFINE v == Swl(a, w, x, m)
<1>4. v \in Word
  <2> HIDE DEF w, x
  <2> QED BY <1>2 DEF Swl, Shr, Word
<1>5. CASE o = 0
  <2>1. \A p \in 0 .. 3 : p \in a % 4 .. (a % 4) + 4 - 1 /\ p - (a % 4) + 4 - 4 = p
    BY <1>1, <1>5
  <2>2. 4 \in 1 .. 4 /\ (a % 4) + 4 \leq 4
    BY <1>1, <1>5
  <2>3. Write(a, v)
    BY <1>3
  <2> HIDE DEF v
  <2>4. BM!Store(a, 4, v)
    BY <1>4, <2>1, <2>2, <2>3, StoreIs
  <2> QED BY <1>1, <1>4, <1>5, <2>4, SameBits DEF BM!StoreLeft
<1>6. CASE o # 0
  <2>1. o \in 1 .. 3
    BY <1>6
  <2>2. v = FillLow(x, w, o, m) /\ m \in HighMask(o * BYTE)
    BY <1>1 DEF Swl, Left, FillLow
  <2>3. Write(a, v)
    BY <1>3
  <2> HIDE DEF v, w, x
  <2>4. \A p \in 0 .. 3 : Byte(v, p) = IF p >= o THEN Byte(x, p - o) ELSE Byte(w, p)
    <3>1. \A p \in 0 .. 3 : Byte(FillLow(x, w, o, m), p) =
            IF p >= o THEN Byte(x, p - o) ELSE Byte(w, p)
      BY <1>2, <2>1, <2>2, LowFilled
    <3> QED BY <2>2, <3>1
  <2>5. PICK n \in 1 .. 4 : n = 4 - o
    BY <2>1
  <2> DEFINE y == Shr(x, o * BYTE)
  <2>6. y \in Word /\ \A p \in o .. 3 : Byte(y, p) = Byte(x, p - o)
    BY <1>2, Shifted
  <2> HIDE DEF y
  <2>7. \A p \in 0 .. 3 : Byte(v, p) = IF p \in a % 4 .. (a % 4) + n - 1
                                     THEN Byte(y, p - (a % 4) + 4 - n)
                                     ELSE Byte(Read(a), p)
    <3> SUFFICES ASSUME NEW p \in 0 .. 3
                 PROVE  Byte(v, p) = IF p \in a % 4 .. (a % 4) + n - 1
                                     THEN Byte(y, p - (a % 4) + 4 - n)
                                     ELSE Byte(Read(a), p)
      OBVIOUS
    <3>1. p \in a % 4 .. (a % 4) + n - 1 <=> p >= o
      BY <1>1, <2>5
    <3>2. p - (a % 4) + 4 - n = p
      BY <1>1, <2>5
    <3>3. p >= o => p \in o .. 3
      OBVIOUS
    <3> QED BY <2>4, <2>6, <3>1, <3>2, <3>3 DEF w
  <2>8. BM!Store(a, n, y)
    <3>1. (a % 4) + n \leq 4
      BY <1>1, <2>5
    <3> QED BY <1>4, <2>3, <2>6, <2>7, <3>1, StoreIs DEF v
  <2>9. a % 4 # 0 /\ 4 - (a % 4) = n /\ (a % 4) * BYTE = o * BYTE
    BY <1>1, <1>6, <2>5
  <2> QED BY <2>8, <2>9, SameBits DEF BM!StoreLeft, y, x
<1> QED BY <1>5, <1>6

(* The part of a register that is stored to the left end of a word.        *)
LEMMA RightStore ==
  ASSUME TypeOK, NEW rt \in Reg, NEW a \in Addr, swr(rt, a)
  PROVE  BM!StoreRight(rt, a)
<1> DEFINE w == Read(a)
           x == RB[rt]
           c == a - (a % 4)
           v == Swr(a, w, x)
<1>1. PICK o \in 0 .. 3 : o = a % 4
  BY Address
<1>2. PICK s \in 0 .. 3 : s = 3 - o
  OBVIOUS
<1>3. PICK n \in 1 .. 4 : n = o + 1
  OBVIOUS
<1>4. w \in Word /\ x \in Word
  BY ReadIsWord DEF TypeOK
<1>5. c \in Addr /\ c % 4 = 0 /\ c \div 4 = a \div 4
  BY SIZEAssumption DEF Addr
<1>6. v = FillHigh(x, w, s) /\ Write(a, v)
  BY <1>1, <1>2 DEF Swr, Right, FillHigh, swr
<1> HIDE DEF v, w, x, c
<1>7. v \in Word /\ \A p \in 0 .. 3 :
        Byte(v, p) = IF p + s \leq 3 THEN Byte(x, p + s) ELSE Byte(w, p)
  BY <1>4, <1>6, HighFilled
<1>8. \A p \in 0 .. 3 : Byte(v, p) = IF p \in c % 4 .. (c % 4) + n - 1
                                   THEN Byte(x, p - (c % 4) + 4 - n)
                                   ELSE Byte(Read(a), p)
  <2> SUFFICES ASSUME NEW p \in 0 .. 3
               PROVE  Byte(v, p) = IF p \in c % 4 .. (c % 4) + n - 1
                                   THEN Byte(x, p - (c % 4) + 4 - n)
                                   ELSE Byte(Read(a), p)
    OBVIOUS
  <2>1. p \in c % 4 .. (c % 4) + n - 1 <=> p + s \leq 3
    BY <1>2, <1>3, <1>5
  <2>2. p - (c % 4) + 4 - n = p + s
    BY <1>2, <1>3, <1>5
  <2> QED BY <1>7, <2>1, <2>2 DEF w
<1>9. BM!Store(c, n, x)
  <2>1. (c % 4) + n \leq 4
    BY <1>5
  <2> QED BY <1>4, <1>5, <1>6, <1>7, <1>8, <2>1, StoreIs
<1>10. (a % 4) + 1 = n
  BY <1>1, <1>3
<1> QED BY <1>9, <1>10 DEF BM!StoreRight, c, x

-----------------------------------------------------------------------------
(* Every load and store does to registers and bytes what the big-endian    *)
(* memory of bytes says of the operation it implements.                    *)
THEOREM MemoryOfBytes == Spec => ByteMemorySpec
<1>1. Init => BM!Init
  <2> SUFFICES ASSUME Init PROVE BM!Init
    OBVIOUS
  <2>1. ASSUME NEW a \in Addr PROVE ByteAt(DM, a) = {}
    <3>1. DM[a \div 4] = {}
      BY Address DEF Init
    <3> QED BY <3>1 DEF ByteAt, Low, Shr
  <2> QED BY <2>1, SameBits DEF Init, BM!Init
<1>2. TypeOK => \A rt \in Reg, a \in Addr :
    /\ lb(rt, a)  => BM!LoadSigned(rt, a, 1)
    /\ lbu(rt, a) => BM!LoadUnsigned(rt, a, 1)
    /\ lh(rt, a)  => BM!LoadSigned(rt, a, 2)
    /\ lhu(rt, a) => BM!LoadUnsigned(rt, a, 2)
    /\ lw(rt, a)  => BM!LoadUnsigned(rt, a, 4)
    /\ sb(rt, a)  => BM!StoreLow(rt, a, 1)
    /\ sh(rt, a)  => BM!StoreLow(rt, a, 2)
    /\ sw(rt, a)  => BM!StoreLow(rt, a, 4)
    /\ lwl(rt, a) => BM!LoadLeft(rt, a)
    /\ lwr(rt, a) => BM!LoadRight(rt, a)
    /\ swl(rt, a) => BM!StoreLeft(rt, a)
    /\ swr(rt, a) => BM!StoreRight(rt, a)
  BY PlainLoads, PlainStores, LeftLoad, RightLoad, LeftStore, RightStore
<1> QED BY <1>1, <1>2, Types, PTL DEF Spec, ByteMemorySpec

=============================================================================
