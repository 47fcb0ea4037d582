----------------------------- MODULE ByteMemory -----------------------------
(***************************************************************************)
(* What the load and store instructions promise: a big-endian memory of    *)
(* bytes.  A load of 1, 2 or 4 bytes extends them to a word, with or       *)
(* without sign; a store writes the low bytes of a register and no others. *)
(* The left and right forms move the part of an unaligned word that lies   *)
(* in one aligned word, to or from the left or the right of the register.  *)
(*                                                                         *)
(* Two cases are unspecified, those in which that part is the whole word   *)
(* and the code shifts by the width of a word: LoadRight at the last byte  *)
(* of a word and StoreLeft at the first.                                   *)
(***************************************************************************)
EXTENDS Bits

CONSTANTS Reg, Addr

VARIABLES bytes, reg

(* The bits of bytes a .. a + n - 1, the first byte the highest.           *)
Value(a, n) == UNION {Shl(bytes[a + k], (n - 1 - k) * BYTE) : k \in 0 .. n - 1}

(* Byte k of the low n bytes of x, the highest first.                      *)
ByteOf(x, n, k) == Low(Shr(x, (n - 1 - k) * BYTE), BYTE)

Init == bytes = [a \in Addr |-> {}] /\ reg \in [Reg -> Word]

Load(r, v) == reg' = [reg EXCEPT ![r] = v] /\ UNCHANGED bytes

(* Bytes a .. a + n - 1 become the low n bytes of x.                       *)
Store(a, n, x) ==
  /\ bytes' = [b \in Addr |->
                 IF b \in a .. a + n - 1 THEN ByteOf(x, n, b - a) ELSE bytes[b]]
  /\ UNCHANGED reg

LoadUnsigned(r, a, n) == a % n = 0 /\ Load(r, Value(a, n))
LoadSigned(r, a, n)   == a % n = 0 /\ Load(r, SignExtend(Value(a, n), n * BYTE))
StoreLow(r, a, n)     == a % n = 0 /\ Store(a, n, reg[r])

(* The bytes from a to the end of its word, to the left of the register.   *)
LoadLeft(r, a) ==
  LET rest == (a % 4) * BYTE
  IN  Load(r, Shl(Value(a, 4 - (a % 4)), rest) \cup Low(reg[r], rest))

(* The bytes from the start of its word to a, to the right of the register.  *)
LoadRight(r, a) ==
  LET n == (a % 4) + 1
  IN  IF n = 4 THEN \E v \in Word : Load(r, v)
      ELSE Load(r, (reg[r] \ Low(reg[r], n * BYTE)) \cup Value(a - (a % 4), n))

StoreLeft(r, a) ==
  IF a % 4 = 0 THEN \E v \in Word : Store(a, 4, v)
  ELSE Store(a, 4 - (a % 4), Shr(reg[r], (a % 4) * BYTE))

StoreRight(r, a) == Store(a - (a % 4), (a % 4) + 1, reg[r])

=============================================================================
