------------------------------ MODULE AluProofs ------------------------------
(***************************************************************************)
(* Proofs about the arithmetic instructions, for every width of a word.    *)
(*                                                                         *)
(* Each property is a fact about one instruction on two words.  What is    *)
(* needed of the powers of two, that a word has as many values below the   *)
(* sign bit as above, is a count of sets: 2 ^ n is the number of subsets   *)
(* of 1 .. n.                                                              *)
(***************************************************************************)
EXTENDS Alu, FiniteSetTheorems, TLAPS

-----------------------------------------------------------------------------
(* Powers of two.                                                          *)

(* 1 .. n has 2 ^ n subsets.                                               *)
LEMMA Subsets ==
  ASSUME NEW n \in Nat
  PROVE  /\ IsFiniteSet(SUBSET (1 .. n)) /\ Cardinality(SUBSET (1 .. n)) = 2 ^ n
         /\ 2 ^ n \in Nat \ {0}
<1>1. IsFiniteSet(1 .. n) /\ Cardinality(1 .. n) = n
  BY FS_Interval
<1>2. IsFiniteSet(SUBSET (1 .. n)) /\ Cardinality(SUBSET (1 .. n)) = 2 ^ n
  BY <1>1, FS_SUBSET
<1>3. 2 ^ n \in Nat
  BY <1>2, FS_CardinalityType
<1>4. SUBSET (1 .. n) # {}
  OBVIOUS
<1>5. Cardinality(SUBSET (1 .. n)) # 0
  BY <1>2, <1>4, FS_EmptySet
<1> QED BY <1>2, <1>3, <1>5

(* Half of the subsets of 1 .. n + 1 hold n + 1.                           *)
LEMMA Doubled ==
  ASSUME NEW n \in Nat
  PROVE  2 ^ (n + 1) = 2 * 2 ^ n
<1> DEFINE Less == SUBSET (1 .. n)
           All  == SUBSET (1 .. n + 1)
           More == All \ Less
           f    == [s \in Less |-> s \cup {n + 1}]
<1>1. f \in Bijection(Less, More)
  <2>1. f \in [Less -> More]
    OBVIOUS
  <2>2. \A s, t \in Less : f[s] = f[t] => s = t
    OBVIOUS
  <2>3. \A t \in More : \E s \in Less : f[s] = t
    <3> SUFFICES ASSUME NEW t \in More PROVE \E s \in Less : f[s] = t
      OBVIOUS
    <3>1. t \ {n + 1} \in Less /\ n + 1 \in t
      OBVIOUS
    <3>2. f[t \ {n + 1}] = t
      BY <3>1
    <3> QED BY <3>1, <3>2
  <2> HIDE DEF f, Less, More
  <2> QED BY <2>1, <2>2, <2>3 DEF Bijection, Injection, Surjection, IsInjective
<1>2. /\ IsFiniteSet(Less) /\ Cardinality(Less) = 2 ^ n /\ 2 ^ n \in Nat
      /\ IsFiniteSet(All) /\ Cardinality(All) = 2 ^ (n + 1) /\ 2 ^ (n + 1) \in Nat
  <2>1. \A m \in Nat : /\ IsFiniteSet(SUBSET (1 .. m))
                       /\ Cardinality(SUBSET (1 .. m)) = 2 ^ m
                       /\ 2 ^ m \in Nat
    BY Subsets
  <2>2. n + 1 \in Nat
    OBVIOUS
  <2> QED BY <2>1, <2>2
<1>3. Less \cap All = Less
  OBVIOUS
<1> HIDE DEF f, Less, All
<1>4. Cardinality(More) = Cardinality(Less)
  BY <1>1, <1>2, FS_Bijection DEF ExistsBijection
<1>5. Cardinality(More) = Cardinality(All) - Cardinality(Less)
  <2>1. Cardinality(All \ Less) = Cardinality(All) - Cardinality(All \cap Less)
    BY <1>2, FS_Difference
  <2>2. All \cap Less = Less
    BY <1>3
  <2> QED BY <2>1, <2>2
<1> QED BY <1>2, <1>4, <1>5

(* A smaller power is no greater.                                          *)
LEMMA Ordered ==
  ASSUME NEW m \in Nat, NEW n \in Nat, m \leq n
  PROVE  2 ^ m \leq 2 ^ n
<1>1. SUBSET (1 .. m) \in SUBSET (SUBSET (1 .. n))
  OBVIOUS
<1>2. /\ IsFiniteSet(SUBSET (1 .. n)) /\ Cardinality(SUBSET (1 .. n)) = 2 ^ n
      /\ Cardinality(SUBSET (1 .. m)) = 2 ^ m
  BY Subsets
<1>3. Cardinality(SUBSET (1 .. m)) \leq Cardinality(SUBSET (1 .. n))
  BY <1>1, <1>2, FS_Subset
<1> QED BY <1>2, <1>3

(* Half the words have the sign bit.                                       *)
LEMMA Halves == SignBit \in Nat \ {0} /\ Modulus = 2 * SignBit
<1>1. W \in Nat /\ W - 1 \in Nat /\ (W - 1) + 1 = W
  BY BYTEAssumption DEF W
<1>2. 2 ^ W = 2 * 2 ^ (W - 1)
  BY <1>1, Doubled
<1>3. 2 ^ (W - 1) \in Nat \ {0}
  BY <1>1, Subsets
<1> QED BY <1>2, <1>3 DEF Modulus, SignBit

(* An immediate is a word.                                                 *)
LEMMA ImmIsWord == Imm \subseteq Word
<1> DEFINE n == 2 * BYTE
           H == 2 ^ n
           K == 2 ^ (n - 1)
<1>1. n \in Nat /\ n - 1 \in Nat /\ W \in Nat /\ n \leq W /\ (n - 1) + 1 = n
  BY BYTEAssumption DEF W
<1>2. H \leq Modulus /\ H \in Nat /\ Modulus \in Nat /\ K \in Nat /\ H = 2 * K
  <2> HIDE DEF n
  <2> QED BY <1>1, Ordered, Subsets, Doubled DEF Modulus
<1>3. ASSUME NEW x \in 0 .. H - 1 PROVE SignExtend(x, n) \in Word
  <2>1. SignExtend(x, n) = IF x >= K THEN x + Modulus - H ELSE x
    BY DEF SignExtend
  <2> HIDE DEF H, K, n
  <2> QED BY <1>2, <1>3, <2>1 DEF Word
<1> QED BY <1>3 DEF Imm

-----------------------------------------------------------------------------
(* Division, remainder and products of integers.                           *)

(* The quotient and the remainder of a by a divisor, and no others.        *)
LEMMA Divided ==
  ASSUME NEW a \in Int, NEW b \in Nat \ {0}
  PROVE  /\ a \div b \in Int /\ a % b \in 0 .. b - 1
         /\ a = b * (a \div b) + (a % b)
OBVIOUS

(* Products grow with their factors.                                      *)
LEMMA Larger ==
  ASSUME NEW a \in Nat, NEW b \in Nat, NEW c \in Nat, NEW d \in Nat, a \leq b, c \leq d
  PROVE  a * c \in Nat /\ b * d \in Nat /\ a * c \leq b * d
<1>1. PICK e \in Nat : b = a + e
  <2>1. b - a \in Nat /\ b = a + (b - a)
    OBVIOUS
  <2> QED BY <2>1
<1>2. PICK f \in Nat : d = c + f
  <2>1. d - c \in Nat /\ d = c + (d - c)
    OBVIOUS
  <2> QED BY <2>1
<1>3. /\ a * c \in Nat /\ a * f \in Nat /\ e * c \in Nat /\ e * f \in Nat
      /\ b * d \in Nat
  OBVIOUS
<1>4. (a + e) * (c + f) = a * c + a * f + e * c + e * f
  OBVIOUS
<1>5. b * d = a * c + a * f + e * c + e * f
  BY <1>1, <1>2, <1>4
<1> QED BY <1>3, <1>5

(* What a divisor is to be multiplied by, and what then remains.            *)
LEMMA Remainder ==
  ASSUME NEW b \in Nat \ {0}, NEW q \in Int, NEW r \in 0 .. b - 1
  PROVE  (b * q + r) \div b = q /\ (b * q + r) % b = r
OBVIOUS

(* A word is stored as it is.                                              *)
LEMMA Kept == \A v \in Word : v % Modulus = v
BY Halves DEF Word

-----------------------------------------------------------------------------
(* Words read as signed numbers.                                           *)
Least == -SignBit
Most  == SignBit - 1

(* A word read as signed is a number of that range.                        *)
LEMMA SignedRange == \A x \in Word : Signed(x) \in Least .. Most
BY Halves DEF Word, Signed, Least, Most

(* A number in the range of a signed word comes back from the word it is   *)
(* stored in.                                                              *)
LEMMA Stored ==
  ASSUME NEW q \in Least .. Most
  PROVE  q % Modulus \in Word /\ Signed(q % Modulus) = q
<1> USE Halves DEF Least, Most
<1>1. CASE q >= 0
  <2>1. Modulus \in Nat \ {0} /\ q \in 0 .. Modulus - 1
    BY <1>1
  <2>2. q % Modulus = q
    BY <2>1, Remainder
  <2> QED BY <1>1, <2>1, <2>2 DEF Signed, Word
<1>2. CASE q < 0
  <2>1. /\ Modulus \in Nat \ {0} /\ q + Modulus \in 0 .. Modulus - 1
        /\ q = Modulus * (-1) + (q + Modulus)
    BY <1>2
  <2>2. (Modulus * (-1) + (q + Modulus)) % Modulus = q + Modulus
    BY <2>1, Remainder
  <2>3. q % Modulus = q + Modulus
    BY <2>1, <2>2
  <2> QED BY <1>2, <2>1, <2>3 DEF Signed, Word
<1> QED BY <1>1, <1>2

(* addi: the sign of the sum, stored in a word, shows whether it fits.      *)
LEMMA SumFits ==
  ASSUME NEW x \in Word, NEW y \in Word
  PROVE  LET v == (x + y) % Modulus
         IN  /\ Negative(x) = Negative(y)
             /\ Negative(y) # Negative(v)
             <=> Signed(x) + Signed(y) \notin -SignBit .. SignBit - 1
<1> DEFINE v == (x + y) % Modulus
<1>1. Modulus \in Nat \ {0} /\ Modulus = 2 * SignBit /\ SignBit \in Nat \ {0}
  BY Halves
<1>2. v = IF x + y < Modulus THEN x + y ELSE x + y - Modulus
  <2>1. CASE x + y < Modulus
    <3>1. x + y \in 0 .. Modulus - 1 /\ x + y = Modulus * 0 + (x + y)
      BY <1>1, <2>1 DEF Word
    <3>2. (Modulus * 0 + (x + y)) % Modulus = x + y
      BY <1>1, <3>1, Remainder
    <3> QED BY <2>1, <3>1, <3>2
  <2>2. CASE ~ (x + y < Modulus)
    <3>1. /\ x + y - Modulus \in 0 .. Modulus - 1
          /\ x + y = Modulus * 1 + (x + y - Modulus)
      BY <1>1, <2>2 DEF Word
    <3>2. Modulus \in Nat \ {0} /\ x + y - Modulus \in 0 .. Modulus - 1 /\ 1 \in Int
      BY <1>1, <3>1
    <3>3. \A q \in Int, r \in 0 .. Modulus - 1 : (Modulus * q + r) % Modulus = r
      BY <3>2, Remainder
    <3>4. (Modulus * 1 + (x + y - Modulus)) % Modulus = x + y - Modulus
      BY ONLY <3>2, <3>3
    <3>5. v = (Modulus * 1 + (x + y - Modulus)) % Modulus
      BY <3>1
    <3> QED BY <2>2, <3>4, <3>5
  <2> QED BY <2>1, <2>2
<1> HIDE DEF v
<1>3. /\ Negative(x) = Negative(y)
      /\ Negative(y) # Negative(v)
      <=> Signed(x) + Signed(y) \notin -SignBit .. SignBit - 1
  BY <1>1, <1>2 DEF Word, Negative, Signed
<1> QED BY <1>3 DEF v

(* mult: the upper half of a product of signed words is a signed word.     *)
LEMMA SignedProduct ==
  ASSUME NEW x \in Least .. Most, NEW y \in Least .. Most
  PROVE  (x * y) \div Modulus \in Least .. Most
<1> DEFINE S == SignBit
           d == x * y
           h == d \div Modulus
           l == d % Modulus
<1>1. S \in Nat \ {0} /\ Modulus = 2 * S /\ Modulus \in Nat \ {0} /\ S * S \in Nat \ {0}
  BY Halves
<1>2. Abs(x) \in Nat /\ Abs(x) \leq S /\ Abs(y) \in Nat /\ Abs(y) \leq S
  BY <1>1 DEF Abs, Least, Most
<1>3. Abs(x) * Abs(y) \leq S * S
  BY <1>1, <1>2, Larger
<1>4. d = Abs(x) * Abs(y) \/ d = -(Abs(x) * Abs(y))
  BY DEF Abs, Least, Most
<1>5. d \in Int /\ -(S * S) \leq d /\ d \leq S * S
  <2>1. Abs(x) * Abs(y) \in Nat
    BY <1>2
  <2> HIDE DEF d, S
  <2> QED BY <1>1, <1>3, <1>4, <2>1
<1>6. h \in Int /\ l \in 0 .. Modulus - 1 /\ d = Modulus * h + l
  BY <1>1, <1>5, Divided
<1> HIDE DEF d, h, l, S
<1>7. h < S
  <2> SUFFICES ASSUME h >= S PROVE FALSE
    BY <1>1, <1>6
  <2>1. Modulus \in Nat /\ S \in Nat /\ h \in Nat /\ S \leq h /\ Modulus \leq Modulus
    BY <1>1, <1>6
  <2>2. Modulus * S \leq Modulus * h
    BY <2>1, Larger
  <2>3. Modulus * S = S * S + S * S
    BY <1>1
  <2>4. Modulus * h \in Int
    BY <1>1, <1>6
  <2> QED BY <1>1, <1>5, <1>6, <2>2, <2>3, <2>4
<1>8. h >= -S
  <2> SUFFICES ASSUME h < -S PROVE FALSE
    BY <1>1, <1>6
  <2>1. Modulus \in Nat /\ S \in Nat /\ -(h + 1) \in Nat /\ S \leq -(h + 1)
    BY <1>1, <1>6
  <2>2. Modulus * S \leq Modulus * (-(h + 1))
    BY <2>1, Larger
  <2>3. Modulus * S = S * S + S * S /\ Modulus * (-(h + 1)) = -(Modulus * h) - Modulus
    BY <1>1, <1>6
  <2>4. Modulus * h \in Int
    BY <1>1, <1>6
  <2> QED BY <1>1, <1>5, <1>6, <2>2, <2>3, <2>4
<1> QED BY <1>1, <1>6, <1>7, <1>8 DEF h, d, S, Least, Most

(* multu: the upper half of a product of words is a word.                  *)
LEMMA UnsignedProduct ==
  ASSUME NEW x \in Word, NEW y \in Word
  PROVE  x * y \in Nat /\ (x * y) \div Modulus \in Word
<1> DEFINE M == Modulus
           d == x * y
           h == d \div M
           l == d % M
<1>1. M \in Nat \ {0}
  BY Halves
<1>2. x \in Nat /\ y \in Nat /\ x \leq M - 1 /\ y \leq M /\ M - 1 \in Nat
  BY <1>1 DEF Word
<1>3. d \in Nat /\ d \leq (M - 1) * M
  BY <1>1, <1>2, Larger
<1>4. h \in Int /\ l \in 0 .. M - 1 /\ d = M * h + l
  <2>1. d \in Int
    BY <1>3
  <2> HIDE DEF d, M
  <2> QED BY <1>1, <2>1, Divided
<1>5. (M - 1) * M = M * M - M
  BY <1>1
<1>6. M * h \in Int /\ M * M \in Nat
  BY <1>1, <1>4
<1> HIDE DEF d, h, l, M
<1>7. h < M
  <2> SUFFICES ASSUME h >= M PROVE FALSE
    BY <1>1, <1>4
  <2>1. M \in Nat /\ h \in Nat /\ M \leq h /\ M \leq M
    BY <1>1, <1>4
  <2>2. M * M \leq M * h
    BY <2>1, Larger
  <2> QED BY <1>1, <1>3, <1>4, <1>5, <1>6, <2>2
<1>8. h >= 0
  <2> SUFFICES ASSUME h < 0 PROVE FALSE
    BY <1>4
  <2>1. M \in Nat /\ 1 \in Nat /\ -h \in Nat /\ 1 \leq -h /\ M \leq M
    BY <1>1, <1>4
  <2>2. M * 1 \leq M * (-h)
    BY <2>1, Larger
  <2>3. M * 1 = M /\ M * (-h) = -(M * h)
    BY <1>1, <1>4
  <2> QED BY <1>1, <1>3, <1>4, <1>6, <2>2, <2>3
<1> QED BY <1>1, <1>3, <1>4, <1>7, <1>8 DEF Word, h, d, M

(* div: away from the two divisions that have no result, quotient and      *)
(* remainder are signed words and make up the dividend.                    *)
LEMMA Division ==
  ASSUME NEW x \in Least .. Most, NEW y \in Least .. Most, y # 0, ~ (x = Least /\ y = -1)
  PROVE  LET q == Quot(x, y)
             r == x - y * q
         IN  /\ q \in Least .. Most /\ r \in Least .. Most
             /\ x = q * y + r
             /\ Abs(r) < Abs(y)
             /\ r # 0 => (r < 0 <=> x < 0)
<1> DEFINE a == Abs(x)
           b == Abs(y)
           k == a \div b
           m == a % b
           q == Quot(x, y)
           r == x - y * q
<1>1. SignBit \in Nat \ {0} /\ x \in Int /\ y \in Int
  BY Halves DEF Least, Most
<1>2. /\ a \in Nat /\ a \leq SignBit /\ (x >= 0 => x = a /\ a < SignBit) /\ (x < 0 => x = -a)
      /\ b \in Nat \ {0} /\ b \leq SignBit /\ (y >= 0 => y = b) /\ (y < 0 => y = -b)
  BY <1>1 DEF Abs, Least, Most
<1>3. k \in Int /\ m \in 0 .. b - 1 /\ a = b * k + m
  <2>1. a \in Int
    BY <1>2
  <2> HIDE DEF a, b
  <2> QED BY <1>2, <2>1, Divided
<1>4. q = IF (x < 0) = (y < 0) THEN k ELSE -k
  BY DEF Quot
<1> HIDE DEF a, b, k, m, q, r
<1>5. k >= 0
  <2> SUFFICES ASSUME k < 0 PROVE FALSE
    BY <1>3
  <2>1. b \in Nat /\ 1 \in Nat /\ -k \in Nat /\ 1 \leq -k /\ b \leq b
    BY <1>2, <1>3
  <2>2. b * 1 \leq b * (-k)
    BY <2>1, Larger
  <2>3. b * 1 = b /\ b * (-k) = -(b * k) /\ b * k \in Int
    BY <1>2, <1>3
  <2> QED BY <1>2, <1>3, <2>2, <2>3
<1>6. k \leq a /\ (k = a /\ a # 0 => b = 1)
  <2>1. PICK c \in Nat : b = c + 1
    <3>1. b - 1 \in Nat /\ b = (b - 1) + 1
      BY <1>2
    <3> QED BY <3>1
  <2>2. b * k = c * k + k /\ c * k \in Nat
    BY <1>3, <1>5, <2>1
  <2>3. k \leq a
    BY <1>2, <1>3, <2>2
  <2>4. ASSUME k = a, a # 0 PROVE b = 1
    <3>1. c * k = 0
      BY <1>2, <1>3, <2>2, <2>4
    <3>2. k \in Nat /\ k # 0
      BY <1>2, <2>4
    <3>3. c = 0
      BY <3>1, <3>2
    <3> QED BY <2>1, <3>3
  <2> QED BY <2>3, <2>4
<1>7. q \in Least .. Most
  <2>1. k < SignBit \/ ((x < 0) # (y < 0))
    <3> SUFFICES ASSUME k >= SignBit, (x < 0) = (y < 0) PROVE FALSE
      BY <1>1, <1>3
    <3>1. k = a /\ a = SignBit
      BY <1>1, <1>2, <1>3, <1>6
    <3>2. b = 1
      BY <1>1, <1>6, <3>1
    <3>3. x = -SignBit /\ y < 0
      BY <1>1, <1>2, <3>1
    <3>4. y = -1
      BY <1>2, <3>2, <3>3
    <3> QED BY <3>3, <3>4 DEF Least
  <2> QED BY <1>1, <1>2, <1>3, <1>4, <1>5, <1>6, <2>1 DEF Least, Most
<1>8. y * q = IF x < 0 THEN -(b * k) ELSE b * k
  <2>1. b \in Int /\ k \in Int /\ (y = b \/ y = -b) /\ (q = k \/ q = -k)
    BY <1>2, <1>3, <1>4
  <2>2. b * (-k) = -(b * k) /\ (-b) * k = -(b * k) /\ (-b) * (-k) = b * k
    BY <2>1
  <2> QED BY <1>1, <1>2, <1>4, <2>1, <2>2
<1>9. r = IF x < 0 THEN -m ELSE m
  <2>1. b * k \in Int
    BY <1>2, <1>3
  <2>2. r = x - y * q
    BY DEF r
  <2> QED BY <1>1, <1>2, <1>3, <1>8, <2>1, <2>2
<1>10. r \in Least .. Most
  BY <1>1, <1>2, <1>3, <1>9 DEF Least, Most
<1>11. x = q * y + r
  <2>1. q \in Int /\ q * y = y * q /\ y * q \in Int
    BY <1>1, <1>7 DEF Least, Most
  <2> QED BY <1>1, <2>1 DEF r
<1>12. Abs(r) < Abs(y)
  <2>1. Abs(r) = m
    BY <1>3, <1>9, <1>2, <1>1 DEF Abs
  <2> QED BY <1>2, <1>3, <2>1 DEF b
<1>13. r # 0 => (r < 0 <=> x < 0)
  BY <1>1, <1>2, <1>3, <1>9
<1> QED BY <1>7, <1>10, <1>11, <1>12, <1>13 DEF q, r

(* The two divisions that have no result have none.                        *)
LEMMA NoQuotient ==
  ASSUME NEW x \in Least .. Most, NEW y \in Least .. Most, y = 0 \/ (x = Least /\ y = -1)
  PROVE  \A z \in -SignBit .. SignBit - 1 : Abs(x - z * y) >= Abs(y)
<1> SUFFICES ASSUME NEW z \in -SignBit .. SignBit - 1 PROVE Abs(x - z * y) >= Abs(y)
  OBVIOUS
<1>1. SignBit \in Nat \ {0} /\ x \in Int /\ y \in Int /\ z \in Int
  BY Halves DEF Least, Most
<1>2. CASE y = 0
  BY <1>1, <1>2 DEF Abs
<1>3. CASE x = Least /\ y = -1
  <2>1. z * y = -z
    BY <1>1, <1>3
  <2> QED BY <1>1, <1>3, <2>1 DEF Abs, Least
<1> QED BY <1>2, <1>3

-----------------------------------------------------------------------------
(* Runs.                                                                   *)

(* Until an instruction has run, the bank holds words and the simulation   *)
(* goes on.                                                                *)
Idle == last.op = "none" => RB \in [Reg -> Word] /\ ~ ended

(* The instructions the properties speak of.                               *)
Tested == {"none", "add", "addi", "mult", "multu", "div", "divu"}

(* One instruction runs, and after it none.                                *)
LEMMA OneRuns ==
  ASSUME Next
  PROVE  /\ last.op = "none"
         /\ \/ last'.op \notin Tested
            \/ \E rd \in Reg, rs, rt \in Source : add(rd, rs, rt)
            \/ \E rt \in Reg, rs \in Source, imm \in Imm : addi(rt, rs, imm)
            \/ \E rs, rt \in Source :
                 mult(rs, rt) \/ multu(rs, rt) \/ div(rs, rt) \/ divu(rs, rt)
<1> USE DEF Tested, Run, Put
<1>1. ASSUME NEW rd \in Reg, NEW rs \in Source, NEW rt \in Source, add(rd, rs, rt)
      PROVE  last.op = "none"
  BY <1>1 DEF add, PutChecked
<1>2. ASSUME NEW rt \in Reg, NEW rs \in Source, NEW imm \in Imm, addi(rt, rs, imm)
      PROVE  last.op = "none"
  BY <1>2 DEF addi, PutChecked
<1>3. ASSUME NEW rs \in Source, NEW rt \in Source,
             mult(rs, rt) \/ multu(rs, rt) \/ div(rs, rt) \/ divu(rs, rt)
      PROVE  last.op = "none"
  BY <1>3 DEF mult, multu, div, divu, PutHiLo, Crash
<1>4. ASSUME NEW rd \in Reg, NEW rs \in Source, NEW rt \in Source, Register(rd, rs, rt)
      PROVE  last.op = "none" /\ last'.op \notin Tested
  BY <1>4 DEF Register
<1>5. ASSUME NEW rd \in Reg, NEW rt \in Source, NEW n, Shift(rd, rt, n)
      PROVE  last.op = "none" /\ last'.op \notin Tested
  BY <1>5 DEF Shift
<1>6. ASSUME NEW rt \in Reg, NEW rs \in Source, NEW imm \in Imm, Immediate(rt, rs, imm)
      PROVE  last.op = "none" /\ last'.op \notin Tested
  BY <1>6 DEF Immediate
<1>7. ASSUME NEW rs \in Source, Move(rs)
      PROVE  last.op = "none" /\ last'.op \notin Tested
  BY <1>7 DEF Move, PutHiLo
<1> QED BY <1>1, <1>2, <1>3, <1>4, <1>5, <1>6, <1>7 DEF Next, ShiftVariable

(* What a step leaves of the tested instructions.                          *)
LEMMA AddStep ==
  ASSUME RB \in [Reg -> Word], ~ ended,
         NEW rd \in Reg, NEW rs \in Source, NEW rt \in Source, add(rd, rs, rt)
  PROVE  /\ last' = [op |-> "add", x |-> RB[rs], y |-> RB[rt], fresh |-> rd \notin {rs, rt}]
         /\ rd \notin {rs, rt} =>
              (ended' <=> LET v == (RB[rs] + RB[rt]) % Modulus
                          IN  /\ Negative(RB[rs]) = Negative(v)
                              /\ Negative(v) # Negative(RB[rt]))
BY RegAssumption DEF add, PutChecked, Run

(* ... and of addi, whose test reads the operands' signs before the sum's. *)
LEMMA AddiStep ==
  ASSUME RB \in [Reg -> Word], ~ ended,
         NEW rt \in Reg, NEW rs \in Source, NEW imm \in Imm, addi(rt, rs, imm)
  PROVE  /\ last' = [op |-> "addi", x |-> RB[rs], y |-> imm, fresh |-> rt # rs]
         /\ rt # rs =>
              (ended' <=> LET v == (RB[rs] + imm) % Modulus
                          IN  /\ Negative(RB[rs]) = Negative(imm)
                              /\ Negative(imm) # Negative(v))
         /\ rt = rs => ~ ended'
BY RegAssumption DEF addi, PutChecked, Run

(* mult leaves the two words of the signed product.                        *)
LEMMA MultStep ==
  ASSUME RB \in [Reg -> Word], ~ ended, NEW rs \in Source, NEW rt \in Source, mult(rs, rt)
  PROVE  /\ last'.op = "mult"
         /\ Signed(hi') * Modulus + lo' = Signed(last'.x) * Signed(last'.y)
<1> DEFINE x == Signed(RB[rs])
           y == Signed(RB[rt])
           d == x * y
<1>1. /\ last'.op = "mult" /\ last'.x = RB[rs] /\ last'.y = RB[rt]
      /\ hi' = (d \div Modulus) % Modulus /\ lo' = d % Modulus
  BY DEF mult, PutHiLo, Run
<1>2. x \in Least .. Most /\ y \in Least .. Most
  BY RegAssumption, SignedRange
<1>3. d \in Int /\ Modulus \in Nat \ {0}
  BY <1>2, Halves DEF Least, Most
<1>4. Signed(hi') = d \div Modulus
  <2> HIDE DEF x, y
  <2>1. d \div Modulus \in Least .. Most
    BY <1>2, SignedProduct
  <2> HIDE DEF d
  <2> QED BY <1>1, <2>1, Stored
<1> HIDE DEF d
<1>5. d = Modulus * (d \div Modulus) + (d % Modulus) /\ d \div Modulus \in Int
  BY <1>3, Divided
<1>6. Signed(hi') * Modulus + lo' = d
  BY <1>1, <1>3, <1>4, <1>5
<1> QED BY <1>1, <1>6 DEF d

(* multu leaves the two words of the unsigned product.                     *)
LEMMA MultuStep ==
  ASSUME RB \in [Reg -> Word], ~ ended, NEW rs \in Source, NEW rt \in Source, multu(rs, rt)
  PROVE  last'.op = "multu" /\ hi' * Modulus + lo' = last'.x * last'.y
<1> DEFINE x == RB[rs]
           y == RB[rt]
           d == x * y
<1>1. /\ last'.op = "multu" /\ last'.x = x /\ last'.y = y
      /\ hi' = (d \div Modulus) % Modulus /\ lo' = d % Modulus
  BY DEF multu, PutHiLo, Run
<1>2. x \in Word /\ y \in Word
  BY RegAssumption
<1> HIDE DEF x, y
<1>3. d \in Int /\ d \div Modulus \in Word /\ Modulus \in Nat \ {0}
  <2>1. d \in Nat /\ d \div Modulus \in Word
    BY <1>2, UnsignedProduct
  <2> HIDE DEF d
  <2> QED BY <2>1, Halves
<1> HIDE DEF d
<1>4. hi' = d \div Modulus
  <2> DEFINE h == d \div Modulus
  <2>1. h \in 0 .. Modulus - 1 /\ h = Modulus * 0 + h
    BY <1>3 DEF Word
  <2>2. \A r \in 0 .. Modulus - 1 : (Modulus * 0 + r) % Modulus = r
    BY <1>3, Remainder
  <2>3. hi' = h % Modulus
    BY <1>1
  <2> HIDE DEF h
  <2>4. hi' = h
    BY <2>1, <2>2, <2>3
  <2> QED BY <2>4 DEF h
<1>5. d = Modulus * (d \div Modulus) + (d % Modulus) /\ d \div Modulus \in Int
  BY <1>3, Divided
<1>6. hi' * Modulus + lo' = d
  BY <1>1, <1>3, <1>4, <1>5
<1> QED BY <1>1, <1>6 DEF d

(* div leaves what the property says of the last instruction.              *)
LEMMA DivStep ==
  ASSUME RB \in [Reg -> Word], ~ ended, NEW rs \in Source, NEW rt \in Source, div(rs, rt)
  PROVE  last'.op = "div" /\ WholeQuotient'
<1> DEFINE x == Signed(RB[rs])
           y == Signed(RB[rt])
           q == Quot(x, y)
           r == x - y * q
<1>1. last'.op = "div" /\ last'.x = RB[rs] /\ last'.y = RB[rt]
  BY DEF div, PutHiLo, Crash, Run
<1>2. x \in Least .. Most /\ y \in Least .. Most
  BY RegAssumption, SignedRange
<1>3. x = Least <=> RB[rs] = SignBit
  <2>1. RB[rs] \in Word
    BY RegAssumption
  <2> QED BY <2>1, Halves DEF Word, Signed, Least
<1>4. CASE y = 0 \/ (RB[rs] = SignBit /\ y = -1)
  <2>1. ended'
    BY <1>4 DEF div, Crash
  <2>2. \A z \in -SignBit .. SignBit - 1 : Abs(x - z * y) >= Abs(y)
    <3>1. y = 0 \/ (x = Least /\ y = -1)
      BY <1>3, <1>4
    <3> HIDE DEF x, y
    <3> QED BY <1>2, <3>1, NoQuotient
  <2> QED BY <1>1, <2>1, <2>2 DEF WholeQuotient
<1>5. CASE ~ (y = 0 \/ (RB[rs] = SignBit /\ y = -1))
  <2>1. ~ ended' /\ hi' = r % Modulus /\ lo' = q % Modulus
    BY <1>5 DEF div, PutHiLo
  <2>2. y # 0 /\ ~ (x = Least /\ y = -1)
    BY <1>3, <1>5
  <2>3. /\ q \in Least .. Most /\ r \in Least .. Most
        /\ x = q * y + r
        /\ Abs(r) < Abs(y)
        /\ r # 0 => (r < 0 <=> x < 0)
    <3> HIDE DEF x, y
    <3> QED BY <1>2, <2>2, Division
  <2>4. Signed(hi') = r /\ Signed(lo') = q
    <3> HIDE DEF q, r
    <3> QED BY <2>1, <2>3, Stored
  <2> HIDE DEF q, r
  <2> QED BY <1>1, <2>1, <2>3, <2>4 DEF WholeQuotient
<1> QED BY <1>4, <1>5

(* divu leaves what the property says of it.                               *)
LEMMA DivuStep ==
  ASSUME RB \in [Reg -> Word], ~ ended, NEW rs \in Source, NEW rt \in Source, divu(rs, rt)
  PROVE  last'.op = "divu" /\ WholeQuotient'
<1> DEFINE x == RB[rs]
           y == RB[rt]
           q == x \div y
           r == x % y
<1>1. last'.op = "divu" /\ last'.x = x /\ last'.y = y
  BY DEF divu, PutHiLo, Crash, Run
<1>2. x \in Word /\ y \in Word
  BY RegAssumption
<1>3. CASE y = 0
  <2>1. ended'
    BY <1>3 DEF divu, Crash
  <2> QED BY <1>1, <1>3, <2>1 DEF WholeQuotient
<1>4. CASE y # 0
  <2>1. ~ ended' /\ hi' = r % Modulus /\ lo' = q % Modulus
    BY <1>4 DEF divu, PutHiLo
  <2>2. x \in Nat /\ y \in Nat \ {0}
    BY <1>2, <1>4, Halves DEF Word
  <2>3. x = q * y + r /\ q \in Int /\ r \in 0 .. y - 1
    <3> HIDE DEF x, y
    <3> QED BY <2>2, Divided
  <2>4. q \in Word /\ r \in Word
    <3>1. q \in 0 .. x
      <4> HIDE DEF x, y
      <4> QED BY <2>2, <2>3
    <3> HIDE DEF x, y, q, r
    <3> QED BY <1>2, <2>3, <3>1, Halves DEF Word
  <2>5. hi' = r /\ lo' = q
    <3> HIDE DEF q, r
    <3> QED BY <2>1, <2>4, Kept
  <2> HIDE DEF x, y, q, r
  <2> QED BY <1>1, <1>4, <2>1, <2>3, <2>5 DEF WholeQuotient
<1> QED BY <1>3, <1>4

-----------------------------------------------------------------------------
(* What add's test does find: it compares the wrong signs (AddTestsOverflow *)
(* is refuted), and then ends the simulation only when nothing overflowed. *)
AddEndsWrongly == last.op = "add" /\ last.fresh /\ ended => ~ SumOverflows

(* When addi overwrites its operand (AddiTestsOverflow leaves that case    *)
(* open) it compares the sum with itself and never ends the simulation.    *)
AddiMissesOwn == last.op = "addi" /\ ~ last.fresh => ~ ended

IInv ==
  Idle /\ AddEndsWrongly /\ AddiTestsOverflow /\ AddiMissesOwn /\ WholeProduct /\ WholeQuotient

(* IInv holds at the start and after every instruction.                    *)
LEMMA Inductive == (Init => IInv) /\ (IInv /\ [Next]_vars => IInv')
<1> USE DEF IInv, Idle, AddEndsWrongly, AddiTestsOverflow, AddiMissesOwn, WholeProduct
<1>1. ASSUME Init PROVE IInv
  BY <1>1 DEF Init, WholeQuotient
<1>2. ASSUME IInv, UNCHANGED vars PROVE IInv'
  BY <1>2 DEF vars, WholeQuotient, SumOverflows
<1>3. ASSUME IInv, Next PROVE IInv'
  <2>1. RB \in [Reg -> Word] /\ ~ ended
    BY <1>3, OneRuns
  <2>2. CASE last'.op \notin Tested
    BY <2>2 DEF Tested, WholeQuotient
  <2>3. ASSUME NEW rd \in Reg, NEW rs \in Source, NEW rt \in Source, add(rd, rs, rt)
        PROVE  IInv'
    <3> DEFINE x == RB[rs]
               y == RB[rt]
               v == (x + y) % Modulus
    <3>1. /\ last' = [op |-> "add", x |-> x, y |-> y, fresh |-> rd \notin {rs, rt}]
          /\ rd \notin {rs, rt} =>
               (ended' <=> Negative(x) = Negative(v) /\ Negative(v) # Negative(y))
      BY <2>1, <2>3, AddStep
    <3>2. x \in Word /\ y \in Word
      BY <2>1, RegAssumption
    <3>3. Negative(x) # Negative(y) => Signed(x) + Signed(y) \in -SignBit .. SignBit - 1
      <4> HIDE DEF x, y
      <4> QED BY <3>2, Halves DEF Word, Negative, Signed
    <3> HIDE DEF x, y, v
    <3>4. AddEndsWrongly'
      BY <3>1, <3>3 DEF SumOverflows
    <3> QED BY <3>1, <3>4 DEF WholeQuotient
  <2>4. ASSUME NEW rt \in Reg, NEW rs \in Source, NEW imm \in Imm, addi(rt, rs, imm)
        PROVE  IInv'
    <3> DEFINE x == RB[rs]
               v == (x + imm) % Modulus
    <3>1. /\ last' = [op |-> "addi", x |-> x, y |-> imm, fresh |-> rt # rs]
          /\ rt # rs =>
               (ended' <=> Negative(x) = Negative(imm) /\ Negative(imm) # Negative(v))
          /\ rt = rs => ~ ended'
      BY <2>1, <2>4, AddiStep
    <3>2. x \in Word /\ imm \in Word
      BY <2>1, RegAssumption, ImmIsWord
    <3>3. /\ Negative(x) = Negative(imm)
          /\ Negative(imm) # Negative(v)
          <=> Signed(x) + Signed(imm) \notin -SignBit .. SignBit - 1
      <4> HIDE DEF x
      <4> QED BY <3>2, SumFits
    <3> HIDE DEF x, v
    <3>4. AddiTestsOverflow' /\ AddiMissesOwn'
      BY <3>1, <3>3 DEF SumOverflows
    <3> QED BY <3>1, <3>4 DEF WholeQuotient
  <2>5. ASSUME NEW rs \in Source, NEW rt \in Source, mult(rs, rt) PROVE IInv'
    BY <2>1, <2>5, MultStep DEF WholeQuotient
  <2>6. ASSUME NEW rs \in Source, NEW rt \in Source, multu(rs, rt) PROVE IInv'
    BY <2>1, <2>6, MultuStep DEF WholeQuotient
  <2>7. ASSUME NEW rs \in Source, NEW rt \in Source, div(rs, rt) PROVE IInv'
    BY <2>1, <2>7, DivStep
  <2>8. ASSUME NEW rs \in Source, NEW rt \in Source, divu(rs, rt) PROVE IInv'
    BY <2>1, <2>8, DivuStep
  <2> QED BY <1>3, <2>2, <2>3, <2>4, <2>5, <2>6, <2>7, <2>8, OneRuns
<1> QED BY <1>1, <1>2, <1>3

(* The invariant holds in every reachable state.                           *)
LEMMA Invariant == Spec => []IInv
BY Inductive, PTL DEF Spec

(* On words of any width, addi ends the simulation exactly when the signed *)
(* sum of its operands does not fit a word, when rt is not rs.             *)
THEOREM AddiTests == Spec => []AddiTestsOverflow
<1>1. IInv => AddiTestsOverflow
  BY DEF IInv
<1> QED BY <1>1, Invariant, PTL

(* When rt is rs, addi never ends the simulation, whatever the sum: its    *)
(* test reads RB[rs] after the sum has replaced it.                        *)
THEOREM AddiNeverCatches == Spec => []AddiMissesOwn
<1>1. IInv => AddiMissesOwn
  BY DEF IInv
<1> QED BY <1>1, Invariant, PTL

(* mult and multu leave the whole product of any two words in hi and lo.   *)
THEOREM ProductIsWhole == Spec => []WholeProduct
<1>1. IInv => WholeProduct
  BY DEF IInv
<1> QED BY <1>1, Invariant, PTL

(* div and divu leave the quotient and the remainder of C's division in lo *)
(* and hi, except where there is none: div in two cases, divu in one.      *)
THEOREM QuotientIsWhole == Spec => []WholeQuotient
<1>1. IInv => WholeQuotient
  BY DEF IInv
<1> QED BY <1>1, Invariant, PTL

(* Every time add ends the simulation without overwriting an operand, its  *)
(* sum fits a word: the overflows it tests for all pass.                   *)
THEOREM AddNeverCatches == Spec => []AddEndsWrongly
<1>1. IInv => AddEndsWrongly
  BY DEF IInv
<1> QED BY <1>1, Invariant, PTL

=============================================================================
