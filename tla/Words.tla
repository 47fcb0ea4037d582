-------------------------------- MODULE Words --------------------------------
(***************************************************************************)
(* The words of the processor model, with every width a multiple of BYTE:  *)
(* 8 bits in the code (ac_wordsize 32 in mips.ac, imm:16 in mips_isa.ac),  *)
(* fewer in the instances, so that all words can be enumerated.  A word is *)
(* the natural number its bits spell.                                      *)
(***************************************************************************)
EXTENDS Integers, FiniteSetsExt

CONSTANT BYTE            \* bits in a byte

ASSUME BYTEAssumption == BYTE \in Nat \ {0}

W       == 4 * BYTE
Modulus == 2 ^ W
Word    == 0 .. Modulus - 1
Ones    == Modulus - 1   \* 0xFFFFFFFF
SignBit == 2 ^ (W - 1)   \* 0x80000000

(* The low n bits of x.                                                    *)
Low(x, n) == x % 2 ^ n

(* A value of n bits, read as signed and extended to a word (`%imm:16:s`,  *)
(* and the conversions from char and short to ac_Sword).                   *)
SignExtend(x, n) == IF x >= 2 ^ (n - 1) THEN x + Modulus - 2 ^ n ELSE x

(* (ac_Sword) x *)
Signed(x) == IF x >= SignBit THEN x - Modulus ELSE x

(* The places at which the bits of x are set, and the number that has its  *)
(* bits set there.                                                         *)
Places(x)  == {n \in 0 .. W - 1 : (x \div 2 ^ n) % 2 = 1}
Spelt(set) == MapThenSumSet(LAMBDA n : 2 ^ n, set)

x & y  == Spelt(Places(x) \cap Places(y))
x | y  == Spelt(Places(x) \cup Places(y))
x ^^ y == Spelt((Places(x) \cup Places(y)) \ (Places(x) \cap Places(y)))

(* x << n and x >> n on an unsigned word.                                  *)
Shl(x, n) == (x * 2 ^ n) % Modulus
Shr(x, n) == x \div 2 ^ n

=============================================================================
