--------------------------------- MODULE Alu ---------------------------------
(***************************************************************************)
(* The arithmetic, logic and shift instructions of the processor model     *)
(* (mips_isa.cpp): one instruction on any contents of two registers, its   *)
(* destination one of them or a third.                                     *)
(*                                                                         *)
(* add and addi write their result before they test for overflow, and the  *)
(* test reads the registers: it sees what the write has left in them.  An  *)
(* overflow ends the simulation (exit(EXIT_FAILURE)), and so does a        *)
(* division the simulator's own processor cannot do.                       *)
(***************************************************************************)
EXTENDS Words

CONSTANTS
  Source,                \* the registers an instruction reads
  Reg                    \* all registers used

ASSUME RegAssumption == Source \subseteq Reg

VARIABLES
  RB,                    \* the register bank
  hi, lo,                \* the results of multiplications and divisions
  ended,                 \* the simulation has ended
  last                   \* history: the instruction that ran and its operands

vars == <<RB, hi, lo, ended, last>>

(* imm:16:s, as a word.                                                    *)
Imm == {SignExtend(x, 2 * BYTE) : x \in 0 .. 2 ^ (2 * BYTE) - 1}

Init ==
  /\ RB \in [Reg -> Word]
  /\ \A r \in Reg \ Source : RB[r] = 0
  /\ hi = 0
  /\ lo = 0
  /\ ended = FALSE
  /\ last = [op |-> "none", x |-> 0, y |-> 0, fresh |-> TRUE]

(* op runs on the values x and y; fresh when it overwrites no operand.     *)
Run(op, x, y, fresh) ==
  /\ last.op = "none"
  /\ last' = [op |-> op, x |-> x, y |-> y, fresh |-> fresh]

Put(op, rd, rs, y, v) ==
  /\ Run(op, RB[rs], y, rd # rs)
  /\ RB' = [RB EXCEPT ![rd] = v % Modulus]
  /\ UNCHANGED <<hi, lo, ended>>

(* Put, and the test for overflow on the bank after the write.             *)
PutChecked(op, rd, rs, y, fresh, v, Overflow(_)) ==
  /\ Run(op, RB[rs], y, fresh)
  /\ RB' = [RB EXCEPT ![rd] = v % Modulus]
  /\ ended' = Overflow(RB')
  /\ UNCHANGED <<hi, lo>>

PutHiLo(op, rs, rt, h, l) ==
  /\ Run(op, RB[rs], RB[rt], TRUE)
  /\ hi' = h % Modulus
  /\ lo' = l % Modulus
  /\ UNCHANGED <<RB, ended>>

Crash(op, rs, rt) ==
  /\ Run(op, RB[rs], RB[rt], TRUE)
  /\ ended' = TRUE
  /\ UNCHANGED <<RB, hi, lo>>

-----------------------------------------------------------------------------
(* Additions that test for overflow.                                       *)
Negative(x) == x >= SignBit

add(rd, rs, rt) ==
  LET Overflow(R) == /\ Negative(R[rs]) = Negative(R[rd])
                     /\ Negative(R[rd]) # Negative(R[rt])
  IN  PutChecked("add", rd, rs, RB[rt], rd \notin {rs, rt}, RB[rs] + RB[rt], Overflow)

(* Mutant: the test of add.                                                *)
addiLikeAdd(rt, rs, imm) ==
  LET Overflow(R) == /\ Negative(R[rs]) = Negative(R[rt])
                     /\ Negative(R[rt]) # Negative(imm)
  IN  PutChecked("addi", rt, rs, imm, rt # rs, RB[rs] + imm, Overflow)

addi(rt, rs, imm) ==
  LET Overflow(R) == /\ Negative(R[rs]) = Negative(imm)
                     /\ Negative(imm) # Negative(R[rt])
  IN  PutChecked("addi", rt, rs, imm, rt # rs, RB[rs] + imm, Overflow)

-----------------------------------------------------------------------------
Bit(b) == IF b THEN 1 ELSE 0

(* The other instructions with an immediate operand.                       *)
Immediate(rt, rs, imm) ==
  \/ Put("addiu", rt, rs, imm, RB[rs] + imm)
  \/ Put("slti",  rt, rs, imm, Bit(Signed(RB[rs]) < Signed(imm)))
  \/ Put("sltiu", rt, rs, imm, Bit(RB[rs] < imm))
  \/ Put("andi",  rt, rs, imm, RB[rs] & Low(imm, 2 * BYTE))
  \/ Put("ori",   rt, rs, imm, RB[rs] | Low(imm, 2 * BYTE))
  \/ Put("xori",  rt, rs, imm, RB[rs] ^^ Low(imm, 2 * BYTE))
  \/ Put("lui",   rt, rs, imm, Shl(imm, 2 * BYTE))

(* The other instructions with two register operands.                      *)
Register(rd, rs, rt) ==
  \/ Put("addu", rd, rs, RB[rt], RB[rs] + RB[rt])
  \/ Put("sub",  rd, rs, RB[rt], RB[rs] - RB[rt])
  \/ Put("subu", rd, rs, RB[rt], RB[rs] - RB[rt])
  \/ Put("slt",  rd, rs, RB[rt], Bit(Signed(RB[rs]) < Signed(RB[rt])))
  \/ Put("sltu", rd, rs, RB[rt], Bit(RB[rs] < RB[rt]))
  \/ Put("and",  rd, rs, RB[rt], RB[rs] & RB[rt])
  \/ Put("or",   rd, rs, RB[rt], RB[rs] | RB[rt])
  \/ Put("xor",  rd, rs, RB[rt], RB[rs] ^^ RB[rt])
  \/ Put("nor",  rd, rs, RB[rt], Ones - (RB[rs] | RB[rt]))

(* Shifts by a constant, and by the bits of RB[rs] that number those of a  *)
(* word (& 0x1F); (ac_Sword) x >> n keeps the sign.                        *)
Shift(rd, rt, n) ==
  \/ Put("sll", rd, rt, n, Shl(RB[rt], n))
  \/ Put("srl", rd, rt, n, Shr(RB[rt], n))
  \/ Put("sra", rd, rt, n, Signed(RB[rt]) \div 2 ^ n)

ShiftVariable(rd, rt, rs) == Shift(rd, rt, RB[rs] % W)

-----------------------------------------------------------------------------
(* Mutant: the upper half of the unsigned product.                         *)
multUnsigned(rs, rt) ==
  PutHiLo("mult", rs, rt, (RB[rs] * RB[rt]) \div Modulus, RB[rs] * RB[rt])

mult(rs, rt) ==
  LET result == Signed(RB[rs]) * Signed(RB[rt])
  IN  PutHiLo("mult", rs, rt, result \div Modulus, result)

multu(rs, rt) ==
  LET result == RB[rs] * RB[rt]
  IN  PutHiLo("multu", rs, rt, result \div Modulus, result)

(* Mutant: division towards minus infinity.                                *)
QuotFloor(x, y) == IF y > 0 THEN x \div y ELSE (-x) \div (-y)

(* C divides towards zero.                                                 *)
Abs(x)     == IF x < 0 THEN -x ELSE x
Quot(x, y) == IF (x < 0) = (y < 0) THEN Abs(x) \div Abs(y) ELSE -(Abs(x) \div Abs(y))

(* Dividing by 0, or the least number by -1, has no result in C and raises *)
(* a fatal signal on the processors the simulator runs on.                 *)
div(rs, rt) ==
  LET x == Signed(RB[rs])
      y == Signed(RB[rt])
  IN  IF y = 0 \/ (RB[rs] = SignBit /\ y = -1) THEN Crash("div", rs, rt)
      ELSE PutHiLo("div", rs, rt, x - y * Quot(x, y), Quot(x, y))

divu(rs, rt) ==
  IF RB[rt] = 0 THEN Crash("divu", rs, rt)
  ELSE PutHiLo("divu", rs, rt, RB[rs] % RB[rt], RB[rs] \div RB[rt])

(* mfhi, mflo, mthi and mtlo.                                              *)
Move(r) ==
  \/ Put("mfhi", r, r, 0, hi)
  \/ Put("mflo", r, r, 0, lo)
  \/ PutHiLo("mthi", r, r, RB[r], lo)
  \/ PutHiLo("mtlo", r, r, hi, RB[r])

-----------------------------------------------------------------------------
Next ==
  \/ \E rd \in Reg, rs, rt \in Source :
       add(rd, rs, rt) \/ Register(rd, rs, rt) \/ ShiftVariable(rd, rt, rs)
  \/ \E rt \in Reg, rs \in Source, imm \in Imm : addi(rt, rs, imm) \/ Immediate(rt, rs, imm)
  \/ \E rd \in Reg, rt \in Source, shamt \in 0 .. W - 1 : Shift(rd, rt, shamt)
  \/ \E rs, rt \in Source :
       mult(rs, rt) \/ multu(rs, rt) \/ div(rs, rt) \/ divu(rs, rt) \/ Move(rs)

Spec == Init /\ [][Next]_vars

-----------------------------------------------------------------------------
(* The signed sum of the operands does not fit a word.                     *)
SumOverflows == Signed(last.x) + Signed(last.y) \notin -SignBit .. SignBit - 1

(* "Test overflow": add ends the simulation exactly when the sum of its    *)
(* operands overflows, when it overwrites neither of them.                 *)
AddTestsOverflow == last.op = "add" /\ last.fresh => (ended <=> SumOverflows)

(* addi does, when rt is not rs.  When it is, the test reads the sum in    *)
(* place of the operand and never ends the simulation (AddiNeverCatches in *)
(* AluProofs).                                                             *)
AddiTestsOverflow == last.op = "addi" /\ last.fresh => (ended <=> SumOverflows)

(* hi and lo together hold the whole product, with or without sign.        *)
WholeProduct ==
  /\ last.op = "mult" => Signed(hi) * Modulus + lo = Signed(last.x) * Signed(last.y)
  /\ last.op = "multu" => hi * Modulus + lo = last.x * last.y

(* Quotient and remainder make up the dividend, the remainder is smaller   *)
(* than the divisor and has the dividend's sign; a division that has no    *)
(* result never leaves one in hi and lo, and every other does: of divu's   *)
(* only those by zero have none, while div has one more.                   *)
WholeQuotient ==
  /\ last.op = "divu" =>
       IF last.y = 0 THEN ended
       ELSE ~ended /\ last.x = lo * last.y + hi /\ hi \in 0 .. last.y - 1
  /\ last.op = "div" =>
       LET x == Signed(last.x)
           y == Signed(last.y)
           q == Signed(lo)
           r == Signed(hi)
       IN  \/ /\ ~ended
              /\ x = q * y + r
              /\ Abs(r) < Abs(y)
              /\ r # 0 => (r < 0 <=> x < 0)
           \/ /\ ended
              /\ \A z \in -SignBit .. SignBit - 1 : Abs(x - z * y) >= Abs(y)

=============================================================================
