-------------------------------- MODULE Bits --------------------------------
(***************************************************************************)
(* The words that the load and store instructions take apart, as sets of   *)
(* bits: a word is the set of the places, 0 the lowest, at which its bits  *)
(* are 1.  (x & y is then their intersection, x | y their union, and a     *)
(* mask the set of the places it keeps.)  A byte has BYTE bits: 8 in the   *)
(* code, fewer in the instances.                                           *)
(***************************************************************************)
EXTENDS Integers

CONSTANT BYTE            \* bits in a byte

ASSUME BYTEAssumption == BYTE \in Nat \ {0}

W    == 4 * BYTE
Ones == 0 .. W - 1       \* 0xFFFFFFFF
Word == SUBSET Ones

(* The low n bits of x.                                                    *)
Low(x, n) == {i \in x : i < n}

(* x << n and x >> n on an unsigned word.                                  *)
Shl(x, n) == {i \in Ones : i - n \in x}
Shr(x, n) == {i \in Ones : i + n \in x}

(* A value of n bits, read as signed and extended to a word (the           *)
(* conversions from char and short to ac_Sword).                           *)
SignExtend(x, n) == IF n - 1 \in x THEN x \cup (n .. W - 1) ELSE x

=============================================================================
