-------------------------------- MODULE Isa --------------------------------
(***************************************************************************)
(* What the integer and M instructions of RV32 promise, in the arithmetic  *)
(* of the integers: the reference the translated blocks are checked        *)
(* against.  A register holds a word of XLEN bits, read as a natural       *)
(* number; Half is the weight of its sign bit.  The widths of the fields   *)
(* of an instruction are parameters, so that a small instance has every    *)
(* field narrower than a register.                                         *)
(***************************************************************************)
EXTENDS Integers

CONSTANTS
    XLEN,         \* bits of a register (32)
    Half,         \* 2^(XLEN - 1)
    NReg,         \* registers, x0 among them (32)
    ImmBits,      \* bits of the immediate of an I type instruction (12)
    SraBit,       \* the bit of it that tells srai from srli (10)
    BranchBits,   \* bits of a branch offset, which counts halfwords (12)
    JumpBits,     \* bits of the offset of jal, which counts halfwords (20)
    UpperShift    \* the shift of the immediate of lui and auipc (12)

ASSUME WidthAssumption ==
    /\ XLEN \in Nat \ {0}
    /\ Half \in Nat \ {0}
    /\ 2 * Half = 2^XLEN

\* What ^ means, which the proofs take from here: TLC evaluates it.
ASSUME PowerAssumption ==
    /\ 2^0 = 1
    /\ \A k \in 0 .. XLEN - 1 : 2^k \in Nat /\ 2^(k + 1) = 2 * 2^k

ASSUME FieldAssumption ==
    /\ NReg \in Nat \ {0}
    /\ ImmBits \in 1 .. XLEN
    /\ SraBit \in 0 .. ImmBits - 1
    /\ XLEN <= 2^SraBit
    /\ \E s \in 0 .. SraBit : XLEN = 2^s
    /\ BranchBits \in 1 .. XLEN - 1
    /\ JumpBits \in 1 .. XLEN - 1
    /\ UpperShift \in 0 .. XLEN - 1

Modulus == 2 * Half

Words == 0 .. Modulus - 1

Regs == 0 .. NReg - 1

\* The integer a word stands for in two's complement, and back.
Signed(w) == IF w < Half THEN w ELSE w - Modulus

Word(n) == n % Modulus

\* The integer that a field of so many bits stands for in two's complement.
SignedField(f, bits) == IF f < 2^(bits - 1) THEN f ELSE f - 2^bits

Bit(w, k) == (w \div 2^k) % 2

\* The word whose k-th bit is the function of the k-th bits of a and b.
Bitwise(F(_, _), a, b) ==
    CHOOSE w \in Words : \A k \in 0 .. XLEN - 1 :
                             Bit(w, k) = F(Bit(a, k), Bit(b, k))

And(x, y) == x * y
Or(x, y)  == x + y - x * y
Xor(x, y) == (x + y) % 2

-----------------------------------------------------------------------------
(* Instructions: the fields of each encoding type, as numbers.             *)

Funct3 == 0 .. 7

Funct7 == {0, 1, 2, 32}

Instr ==
         [fmt : {"R"}, f3 : Funct3, f7 : Funct7, rd : Regs, rs1 : Regs, rs2 : Regs]
    \cup [fmt : {"I"}, f3 : Funct3, rd : Regs, rs1 : Regs, imm : 0 .. 2^ImmBits - 1]
    \cup [fmt : {"B"}, f3 : Funct3, rs1 : Regs, rs2 : Regs,
          imm : 0 .. 2^BranchBits - 1]
    \cup [fmt : {"jalr"}, rd : Regs, rs1 : Regs, imm : 0 .. 2^ImmBits - 1]
    \cup [fmt : {"jal"}, rd : Regs, imm : 0 .. 2^JumpBits - 1]
    \cup [fmt : {"lui", "auipc"}, rd : Regs, imm : 0 .. 2^(XLEN - UpperShift) - 1]

BaseOp == <<"add", "sll", "slt", "sltu", "xor", "srl", "or", "and">>

MulDivOp == <<"mul", "mulh", "mulhsu", "mulhu", "div", "divu", "rem", "remu">>

BranchOp == <<"beq", "bne", "reserved", "reserved", "blt", "bge", "bltu", "bgeu">>

\* The operation the architecture gives to an encoding of type R or B.
RegisterOp(f3, f7) ==
    CASE f7 = 0             -> BaseOp[f3 + 1]
      [] f7 = 1             -> MulDivOp[f3 + 1]
      [] f7 = 32 /\ f3 = 0  -> "sub"
      [] f7 = 32 /\ f3 = 5  -> "sra"
      [] OTHER              -> "reserved"

\* Of type I: only the shifts leave encodings reserved.
ImmediateOp(f3, imm) ==
    CASE f3 \notin {1, 5}                       -> BaseOp[f3 + 1]
      [] f3 \in {1, 5} /\ imm < XLEN            -> BaseOp[f3 + 1]
      [] f3 = 5 /\ imm - 2^SraBit \in 0 .. XLEN - 1 -> "sra"
      [] OTHER                                  -> "reserved"

Op(i) == CASE i.fmt = "R" -> RegisterOp(i.f3, i.f7)
           [] i.fmt = "I" -> ImmediateOp(i.f3, i.imm)
           [] i.fmt = "B" -> BranchOp[i.f3 + 1]
           [] OTHER       -> i.fmt

-----------------------------------------------------------------------------
(* Results.                                                                *)

Abs(n) == IF n < 0 THEN -n ELSE n

\* The quotient rounded towards zero, and its remainder.
Quotient(n, d) == IF (n < 0 <=> d < 0) THEN Abs(n) \div Abs(d)
                                      ELSE -(Abs(n) \div Abs(d))

Remainder(n, d) == n - d * Quotient(n, d)

\* Division by zero and the one overflow, -2^(XLEN-1) / -1, have results.
Result(op, a, b) ==
    LET shamt == b % XLEN IN
    CASE op = "add"    -> Word(a + b)
      [] op = "sub"    -> Word(a - b)
      [] op = "and"    -> Bitwise(And, a, b)
      [] op = "or"     -> Bitwise(Or, a, b)
      [] op = "xor"    -> Bitwise(Xor, a, b)
      [] op = "slt"    -> IF Signed(a) < Signed(b) THEN 1 ELSE 0
      [] op = "sltu"   -> IF a < b THEN 1 ELSE 0
      [] op = "sll"    -> Word(a * 2^shamt)
      [] op = "srl"    -> a \div 2^shamt
      [] op = "sra"    -> Word(Signed(a) \div 2^shamt)
      [] op = "mul"    -> Word(a * b)
      [] op = "mulh"   -> Word((Signed(a) * Signed(b)) \div Modulus)
      [] op = "mulhsu" -> Word((Signed(a) * b) \div Modulus)
      [] op = "mulhu"  -> (a * b) \div Modulus
      [] op = "div"    -> IF b = 0 THEN Modulus - 1
                                   ELSE Word(Quotient(Signed(a), Signed(b)))
      [] op = "divu"   -> IF b = 0 THEN Modulus - 1 ELSE a \div b
      [] op = "rem"    -> IF b = 0 THEN a
                                   ELSE Word(Remainder(Signed(a), Signed(b)))
      [] op = "remu"   -> IF b = 0 THEN a ELSE a % b

Taken(op, a, b) ==
    CASE op = "beq"  -> a = b
      [] op = "bne"  -> a # b
      [] op = "blt"  -> Signed(a) < Signed(b)
      [] op = "bge"  -> Signed(a) >= Signed(b)
      [] op = "bltu" -> a < b
      [] op = "bgeu" -> a >= b

-----------------------------------------------------------------------------
(* One instruction at address p with the registers r: x0 reads as zero and *)
(* is never written.                                                       *)

Read(r, x) == IF x = 0 THEN 0 ELSE r[x]

Write(r, x, v) == IF x = 0 THEN r ELSE [r EXCEPT ![x] = v]

\* The second operand: a register, or an immediate extended to a word.
Operand(i, r) == IF i.fmt = "R" THEN Read(r, i.rs2)
                                ELSE Word(SignedField(i.imm, ImmBits))

RegsAfter(i, r, p) ==
    CASE i.fmt \in {"R", "I"} ->
             Write(r, i.rd, Result(Op(i), Read(r, i.rs1), Operand(i, r)))
      [] i.fmt = "lui"   -> Write(r, i.rd, i.imm * 2^UpperShift)
      [] i.fmt = "auipc" -> Write(r, i.rd, Word(p + i.imm * 2^UpperShift))
      [] i.fmt \in {"jal", "jalr"} -> Write(r, i.rd, Word(p + 4))
      [] i.fmt = "B"     -> r

PcAfter(i, r, p) ==
    LET sum == Word(Read(r, i.rs1) + SignedField(i.imm, ImmBits)) IN
    CASE i.fmt = "jalr" -> sum - (sum % 2)
      [] i.fmt = "jal"  -> Word(p + 2 * SignedField(i.imm, JumpBits))
      [] i.fmt = "B" /\ Taken(Op(i), Read(r, i.rs1), Read(r, i.rs2)) ->
             Word(p + 2 * SignedField(i.imm, BranchBits))
      [] OTHER -> Word(p + 4)
=============================================================================
