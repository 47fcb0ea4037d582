------------------------------ MODULE LoadStore ------------------------------
(***************************************************************************)
(* The load and store instructions of the processor model (mips_isa.cpp)   *)
(* on a RAM of words (memory.cpp).  The bus carries whole aligned words,   *)
(* so a byte or a halfword is cut out of the word read, and stored by      *)
(* reading the word, replacing a field and writing it back; both transfers *)
(* belong to one instruction, in which no other processor runs.            *)
(*                                                                         *)
(* a is the address RB[rs] + imm.  Halfwords and words are accessed at     *)
(* their own alignment, as the compiler does; bytes and the left and right *)
(* forms at any address.                                                   *)
(***************************************************************************)
EXTENDS Bits

CONSTANTS
  Reg,                   \* registers that hold data
  SIZE                   \* words of RAM (8 MB in main.cpp)

ASSUME SIZEAssumption == SIZE \in Nat \ {0}

VARIABLES
  DM,                    \* RAM
  RB                     \* the register bank

vars == <<DM, RB>>

Addr == 0 .. 4 * SIZE - 1

Init ==
  /\ DM = [i \in 0 .. SIZE - 1 |-> {}]
  /\ RB \in [Reg -> Word]

(* DM.read(address & ~3), and the two ways an instruction ends.            *)
Read(a) == DM[a \div 4]

SetReg(rt, v) == RB' = [RB EXCEPT ![rt] = v] /\ UNCHANGED DM

Write(a, v) == DM' = [DM EXCEPT ![a \div 4] = v] /\ UNCHANGED RB

-----------------------------------------------------------------------------
(* The shift that brings byte a, or halfword a, to the right end.          *)
ByteShift(a) == (3 - (a % 4)) * BYTE
HalfShift(a) == (1 - (a % 4) \div 2) * (2 * BYTE)

LoadedByte(a) == Low(Shr(Read(a), ByteShift(a)), BYTE)
LoadedHalf(a) == Low(Shr(Read(a), HalfShift(a)), 2 * BYTE)

lb(rt, a)  == SetReg(rt, SignExtend(LoadedByte(a), BYTE))
lbu(rt, a) == SetReg(rt, LoadedByte(a))
lh(rt, a)  == a % 2 = 0 /\ SetReg(rt, SignExtend(LoadedHalf(a), 2 * BYTE))
lhu(rt, a) == a % 2 = 0 /\ SetReg(rt, LoadedHalf(a))
lw(rt, a)  == a % 4 = 0 /\ SetReg(rt, Read(a))

(* word & ~(field of n bits << at) | (low n bits of x << at)               *)
Replace(word, at, n, x) ==
  (word \ Shl(Low(Ones, n), at)) \cup Shl(Low(x, n), at)

(* Mutant: the shift of a little-endian memory.                            *)
sbLittle(rt, a) == Write(a, Replace(Read(a), (a % 4) * BYTE, BYTE, RB[rt]))

sb(rt, a) == Write(a, Replace(Read(a), ByteShift(a), BYTE, RB[rt]))
sh(rt, a) == a % 2 = 0 /\ Write(a, Replace(Read(a), HalfShift(a), 2 * BYTE, RB[rt]))
sw(rt, a) == a % 4 = 0 /\ Write(a, RB[rt])

-----------------------------------------------------------------------------
(* 0xFFFFFFFF << (32 - offset).  For offset 0 the shift is as wide as the  *)
(* word, which C leaves undefined: the processors the simulator runs on    *)
(* mask the count and give all ones, a compiler may also give 0.           *)
HighMask(offset) == IF offset = 0 THEN {{}, Ones} ELSE {Shl(Ones, W - offset)}

(* What the four instructions compute from the register x, the word of     *)
(* memory and the mask m.                                                  *)
Left(a)  == (a % 4) * BYTE
Right(a) == (3 - (a % 4)) * BYTE

Lwl(a, word, x)    == Shl(word, Left(a)) \cup Low(x, Left(a))

(* Mutant: the offset of lwl.                                              *)
LwrLeft(a, word, x, m) == Shr(word, Left(a)) \cup (x \cap m)

Lwr(a, word, x, m) == Shr(word, Right(a)) \cup (x \cap m)
Swl(a, word, x, m) == Shr(x, Left(a)) \cup (word \cap m)

(* Mutant: the bytes to the right are not cut out of the word.             *)
SwrUncut(a, word, x) == Shl(x, Right(a)) \cup word

Swr(a, word, x)    == Shl(x, Right(a)) \cup Low(word, Right(a))

lwl(rt, a) == SetReg(rt, Lwl(a, Read(a), RB[rt]))
lwr(rt, a) == \E m \in HighMask(Right(a)) : SetReg(rt, Lwr(a, Read(a), RB[rt], m))
swl(rt, a) == \E m \in HighMask(Left(a)) : Write(a, Swl(a, Read(a), RB[rt], m))
swr(rt, a) == Write(a, Swr(a, Read(a), RB[rt]))

Next == \E rt \in Reg, a \in Addr :
  \/ lb(rt, a) \/ lbu(rt, a) \/ lh(rt, a) \/ lhu(rt, a) \/ lw(rt, a)
  \/ sb(rt, a) \/ sh(rt, a) \/ sw(rt, a)
  \/ lwl(rt, a) \/ lwr(rt, a) \/ swl(rt, a) \/ swr(rt, a)

Spec == Init /\ [][Next]_vars

-----------------------------------------------------------------------------
(* The byte at address a, and the big-endian word at any address.          *)
ByteAt(mem, a) == Low(Shr(mem[a \div 4], ByteShift(a)), BYTE)

WordAt(mem, a) == UNION {Shl(ByteAt(mem, a + k), (3 - k) * BYTE) : k \in 0 .. 3}

BM == INSTANCE ByteMemory WITH bytes <- [a \in Addr |-> ByteAt(DM, a)], reg <- RB

(* Cutting fields out of words and putting them back is a big-endian       *)
(* memory of bytes: each instruction, by the name of its operation there,  *)
(* moves the bytes at its address and disturbs no other.                   *)
ByteMemorySpec ==
  BM!Init /\ [][\A rt \in Reg, a \in Addr :
    /\ lb(rt, a)  => BM!LoadSigned(rt, a, 1)
    /\ lbu(rt, a) => BM!LoadUnsigned(rt, a, 1)
    /\ lh(rt, a)  => BM!LoadSigned(rt, a, 2)
    /\ lhu(rt, a) => BM!LoadUnsigned(rt, a, 2)
    /\ lw(rt, a)  => BM!LoadUnsigned(rt, a, 4)
    /\ sb(rt, a)  => BM!StoreLow(rt, a, 1)
    /\ sh(rt, a)  => BM!StoreLow(rt, a, 2)
    /\ sw(rt, a)  => BM!StoreLow(rt, a, 4)
    /\ lwl(rt, a) => BM!LoadLeft(rt, a)
    /\ lwr(rt, a) => BM!LoadRight(rt, a)
    /\ swl(rt, a) => BM!StoreLeft(rt, a)
    /\ swr(rt, a) => BM!StoreRight(rt, a)]_vars

(* An unaligned word is loaded by lwl at its first byte and lwr at its     *)
(* last, in either order.  Both shifts that C leaves undefined occur when  *)
(* the word happens to be aligned; the other half of the pair repairs what *)
(* they leave behind, whatever it is.                                      *)
UnalignedLoad ==
  \A rt \in Reg, a \in 0 .. 4 * SIZE - 4 : \A m \in HighMask(Right(a + 3)) :
    LET z == a + 3 IN
    /\ Lwr(z, Read(z), Lwl(a, Read(a), RB[rt]), m) = WordAt(DM, a)
    /\ Lwl(a, Read(a), Lwr(z, Read(z), RB[rt], m)) = WordAt(DM, a)

(* An unaligned word is stored by swl and swr in the same way, and no byte *)
(* outside it changes.                                                     *)
UnalignedStore ==
  \A rt \in Reg, a \in 0 .. 4 * SIZE - 4 : \A m \in HighMask(Left(a)) :
    LET z == a + 3
        Put(mem, b, v) == [mem EXCEPT ![b \div 4] = v]
        L(mem) == Put(mem, a, Swl(a, mem[a \div 4], RB[rt], m))
        R(mem) == Put(mem, z, Swr(z, mem[z \div 4], RB[rt]))
    IN  \A mem \in {L(R(DM)), R(L(DM))} :
          /\ WordAt(mem, a) = RB[rt]
          /\ \A b \in Addr \ (a .. z) : ByteAt(mem, b) = ByteAt(DM, b)

=============================================================================
