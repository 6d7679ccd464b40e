-------------------------- MODULE TranslatedBlocks --------------------------
(***************************************************************************)
(* What the host instructions of a translated block do to the guest's      *)
(* registers and pc, for the blocks that neither access memory nor call    *)
(* back into the emulator: the arithmetic, immediate, M, branch, jump and  *)
(* upper immediate instructions.  A block is executed at the address it    *)
(* was translated for (TranslationCache is about that), and the guest may  *)
(* execute any instruction next.                                           *)
(*                                                                         *)
(* The operators named after x86 instructions are external: they say what  *)
(* the processor of the host does with 32 bit registers, in terms of bits, *)
(* carries and flags, where Isa speaks of integers.                        *)
(***************************************************************************)
EXTENDS Isa

VARIABLES
    regs,     \* hart->registers, which r15 points to
    pc,       \* hart->pc, which r14 points to
    stopped   \* why the emulator is no more, or "no"

vars == <<regs, pc, stopped>>

-----------------------------------------------------------------------------
(* The host.                                                               *)

\* The bits that are set in a word, and the word with those bits.
Bits(w) == {k \in 0 .. XLEN - 1 : Bit(w, k) = 1}

WordWith == [S \in SUBSET (0 .. XLEN - 1) |-> CHOOSE w \in Words : Bits(w) = S]

OfBits(S) == WordWith[S]

addl(a, b) == IF a + b >= Modulus THEN a + b - Modulus ELSE a + b

subl(a, b) == IF a >= b THEN a - b ELSE a - b + Modulus

andl(a, b) == OfBits(Bits(a) \cap Bits(b))
orl(a, b)  == OfBits(Bits(a) \cup Bits(b))
xorl(a, b) == OfBits((Bits(a) \ Bits(b)) \cup (Bits(b) \ Bits(a)))

shl(a, n) == OfBits({k \in 0 .. XLEN - 1 : k - n \in Bits(a)})
shr(a, n) == OfBits({k \in 0 .. XLEN - 1 : k + n \in Bits(a)})
sar(a, n) == OfBits({k \in 0 .. XLEN - 1 :
                        (IF k + n < XLEN THEN k + n ELSE XLEN - 1) \in Bits(a)})

btr0(a) == OfBits(Bits(a) \ {0})

\* The flags after cmpl: of the word a - b.
ZF(a, b) == a = b
CF(a, b) == a < b
SF(a, b) == subl(a, b) >= Half
OF(a, b) == /\ ~ (a >= Half <=> b >= Half)
            /\ ~ (a >= Half <=> subl(a, b) >= Half)

\* The conditions that setl, jge and jl, and setb, jae and jb, test.
less(a, b) == ~ (SF(a, b) <=> OF(a, b))

below(a, b) == CF(a, b)

\* A product fills edx:eax.
LowHigh(n) == LET d == n % (Modulus * Modulus)
              IN  [eax |-> d % Modulus, edx |-> d \div Modulus]

imul(a, b) == LowHigh(Signed(a) * Signed(b))
mul(a, b)  == LowHigh(a * b)

\* idiv and div fault when the divisor is zero or the quotient does not fit.
idivFaults(a, b) ==
    b = 0 \/ Quotient(Signed(a), Signed(b)) \notin -Half .. Half - 1

idiv(a, b) == [eax |-> Word(Quotient(Signed(a), Signed(b))),
               edx |-> Word(Remainder(Signed(a), Signed(b)))]

divFaults(a, b) == b = 0

div(a, b) == [eax |-> a \div b, edx |-> a % b]

-----------------------------------------------------------------------------
(* Decoding, when the block is translated.                                 *)

\* Every bit from the sign bit up gets the value of the sign bit.
sign_extend32(data, bit) ==
    OfBits(Bits(data) \cup (IF bit \in Bits(data) THEN bit .. XLEN - 1 ELSE {}))

\* funct3 0 and 5: funct7 must be 0 or 0x20.
riscv_add_sub_translator(f7) ==
    IF f7 = 32 THEN "sub" ELSE IF f7 = 0 THEN "add" ELSE "assert"

riscv_srl_sra_translator(f7) ==
    IF f7 = 32 THEN "sra" ELSE IF f7 = 0 THEN "srl" ELSE "assert"

\* The other handlers of the class do not look at funct7.
arithmetic_handlers(f3, f7) ==
    CASE f3 = 0 -> riscv_add_sub_translator(f7)
      [] f3 = 1 -> "sll"
      [] f3 = 2 -> "slt"
      [] f3 = 3 -> "sltu"
      [] f3 = 4 -> "xor"
      [] f3 = 5 -> riscv_srl_sra_translator(f7)
      [] f3 = 6 -> "or"
      [] f3 = 7 -> "and"

mul_div_handlers(f3) ==
    CASE f3 = 0 -> "mul"
      [] f3 = 1 -> "mulh"
      [] f3 = 2 -> "mulhsu"
      [] f3 = 3 -> "mulhu"
      [] f3 = 4 -> "div"
      [] f3 = 5 -> "divu"
      [] f3 = 6 -> "rem"
      [] f3 = 7 -> "remu"

riscv_arithmetic_instructions_translation_entry(f3, f7) ==
    CASE f7 % 4 = 0 -> arithmetic_handlers(f3, f7)
      [] f7 % 4 = 1 -> mul_div_handlers(f3)
      [] OTHER      -> "assert"

riscv_right_shift_translator(imm) == IF Bit(imm, SraBit) = 0 THEN "srl" ELSE "sra"

immediate_handlers(f3, imm) ==
    IF f3 = 5 THEN riscv_right_shift_translator(imm) ELSE arithmetic_handlers(f3, 0)

branch_handlers(f3) ==
    CASE f3 = 0 -> "beq"
      [] f3 = 1 -> "bne"
      [] f3 = 4 -> "blt"
      [] f3 = 5 -> "bge"
      [] f3 = 6 -> "bltu"
      [] f3 = 7 -> "bgeu"
      [] OTHER  -> "assert"

-----------------------------------------------------------------------------
(* The blocks.                                                             *)

\* (A block that leaves what it wrote to x0.)
KeepsZeroRegister(r) == r

RESET_ZERO_REGISTER(r) == [r EXCEPT ![0] = 0]

PROCEED_TO_NEXT_INSTRUCTION(p) == addl(p, 4 % Modulus)

\* A block that leaves v in rd and falls through.
WriteRd(i, v) ==
    [regs |-> RESET_ZERO_REGISTER([regs EXCEPT ![i.rd] = v]),
     pc |-> PROCEED_TO_NEXT_INSTRUCTION(pc), stopped |-> "no"]

\* The emulator is gone: SIGFPE has no handler, and ASSERT exits.
Stop(why) == [regs |-> regs, pc |-> pc, stopped |-> why]

slt_block(a, b) == IF less(a, b) THEN 1 ELSE 0

sltu_block(a, b) == IF below(a, b) THEN 1 ELSE 0

\* The count is masked before the shift.
shift_count(b) == andl(b, XLEN - 1)

\* rs1 is sign extended to 64 bits and multiplied by rs2 zero extended.
mulhsu_block(a, b) == LowHigh(Signed(a) * b).edx

\* (A division without the test of the divisor.)
DivUntested(i, a, b) ==
    IF idivFaults(a, b) THEN Stop("SIGFPE") ELSE WriteRd(i, idiv(a, b).eax)

\* div and divu test the divisor before they divide, rem and remu do not.
div_block(i, a, b) ==
    CASE b = 0                        -> WriteRd(i, Modulus - 1)
      [] b # 0 /\ idivFaults(a, b)    -> Stop("SIGFPE")
      [] b # 0 /\ ~ idivFaults(a, b)  -> WriteRd(i, idiv(a, b).eax)

divu_block(i, a, b) ==
    IF b = 0 THEN WriteRd(i, Modulus - 1) ELSE WriteRd(i, div(a, b).eax)

rem_block(i, a, b) ==
    IF idivFaults(a, b) THEN Stop("SIGFPE") ELSE WriteRd(i, idiv(a, b).edx)

remu_block(i, a, b) ==
    IF divFaults(a, b) THEN Stop("SIGFPE") ELSE WriteRd(i, div(a, b).edx)

\* The arithmetic blocks and their immediate forms, on the operands loaded.
arithmetic_block(op, i, a, b) ==
    CASE op = "add"  -> WriteRd(i, addl(a, b))
      [] op = "sub"  -> WriteRd(i, subl(a, b))
      [] op = "and"  -> WriteRd(i, andl(a, b))
      [] op = "or"   -> WriteRd(i, orl(a, b))
      [] op = "xor"  -> WriteRd(i, xorl(a, b))
      [] op = "slt"  -> WriteRd(i, slt_block(a, b))
      [] op = "sltu" -> WriteRd(i, sltu_block(a, b))
      [] op = "sll"  -> WriteRd(i, shl(a, shift_count(b)))
      [] op = "srl"  -> WriteRd(i, shr(a, shift_count(b)))
      [] op = "sra"  -> WriteRd(i, sar(a, shift_count(b)))
      [] op = "assert" -> Stop("assert")

mul_div_block(op, i, a, b) ==
    CASE op = "mul"    -> WriteRd(i, imul(b, a).eax)
      [] op = "mulh"   -> WriteRd(i, imul(b, a).edx)
      [] op = "mulhu"  -> WriteRd(i, mul(b, a).edx)
      [] op = "mulhsu" -> WriteRd(i, mulhsu_block(a, b))
      [] op = "div"    -> div_block(i, a, b)
      [] op = "divu"   -> divu_block(i, a, b)
      [] op = "rem"    -> rem_block(i, a, b)
      [] op = "remu"   -> remu_block(i, a, b)

riscv_arithmetic_block(i) ==
    LET op == riscv_arithmetic_instructions_translation_entry(i.f3, i.f7)
        a  == regs[i.rs1]
        b  == regs[i.rs2]
    IN  IF i.f7 % 4 = 1 THEN mul_div_block(op, i, a, b)
                        ELSE arithmetic_block(op, i, a, b)

\* The shifts take the field as it is, the others its sign extension.
riscv_immediate_block(i) ==
    LET imm == IF i.f3 \in {1, 5} THEN i.imm ELSE sign_extend32(i.imm, ImmBits - 1)
    IN  arithmetic_block(immediate_handlers(i.f3, i.imm), i, regs[i.rs1], imm)

\* The condition under which the host's jcc is not taken over the target.
branch_taken(op, a, b) ==
    CASE op = "beq"  -> ZF(b, a)
      [] op = "bne"  -> ~ ZF(b, a)
      [] op = "blt"  -> less(a, b)
      [] op = "bltu" -> below(a, b)
      [] op = "bge"  -> ~ less(a, b)
      [] op = "bgeu" -> ~ below(a, b)

\* The target is a parameter of the block, the fall through address is not.
riscv_branch_block(i) ==
    LET op == branch_handlers(i.f3)
        target == addl(pc, sign_extend32(2 * i.imm, BranchBits))
    IN  IF op = "assert"
          THEN Stop("assert")
          ELSE [regs |-> regs, stopped |-> "no",
                pc |-> IF branch_taken(op, regs[i.rs1], regs[i.rs2])
                         THEN target ELSE PROCEED_TO_NEXT_INSTRUCTION(pc)]

\* rd, then x0, then the pc; jalr has computed its target from rs1 before.
Link(i, target) ==
    [regs |-> RESET_ZERO_REGISTER([regs EXCEPT ![i.rd] = addl(pc, 4 % Modulus)]),
     pc |-> target, stopped |-> "no"]

riscv_jal_block(i) == Link(i, addl(pc, sign_extend32(2 * i.imm, JumpBits)))

\* (rd is written before the target is computed from rs1.)
JalrLinksFirst(i) ==
    LET linked == [regs EXCEPT ![i.rd] = addl(pc, 4 % Modulus)]
    IN  Link(i, btr0(addl(linked[i.rs1], sign_extend32(i.imm, ImmBits - 1))))

riscv_jalr_block(i) ==
    Link(i, btr0(addl(regs[i.rs1], sign_extend32(i.imm, ImmBits - 1))))

riscv_lui_block(i) == WriteRd(i, shl(i.imm, UpperShift))

riscv_auipc_block(i) == WriteRd(i, addl(shl(i.imm, UpperShift), pc))

Block(i) == CASE i.fmt = "R"     -> riscv_arithmetic_block(i)
              [] i.fmt = "I"     -> riscv_immediate_block(i)
              [] i.fmt = "B"     -> riscv_branch_block(i)
              [] i.fmt = "jal"   -> riscv_jal_block(i)
              [] i.fmt = "jalr"  -> riscv_jalr_block(i)
              [] i.fmt = "lui"   -> riscv_lui_block(i)
              [] i.fmt = "auipc" -> riscv_auipc_block(i)

-----------------------------------------------------------------------------
Init == /\ regs = [x \in Regs |-> 0]
        /\ pc = 0
        /\ stopped = "no"

Execute(i) == /\ stopped = "no"
              /\ \E b \in {Block(i)} : /\ regs' = b.regs
                                      /\ pc' = b.pc
                                      /\ stopped' = b.stopped

Next == \E i \in Instr : Execute(i)

Spec == Init /\ [][Next]_vars

-----------------------------------------------------------------------------
(* Properties.                                                             *)

\* Type invariant: the registers and the pc stay words, the pc even, and the
\* memory of x0, which every block may write, holds zero between blocks.
TypeOK == /\ regs \in [Regs -> Words]
          /\ regs[0] = 0
          /\ pc \in Words
          /\ pc % 2 = 0
          /\ stopped \in {"no", "SIGFPE", "assert"}

\* Unless it stops the emulator, a block leaves the registers and the pc that
\* the architecture asks for, whatever the instruction, its registers (equal
\* to each other or to x0) and its immediate: the sequences of host
\* instructions of every translator, the sign extensions and the shifts of
\* the offsets, the order of reads and writes and the reset of x0.
BlocksMatchIsa ==
    stopped = "no" =>
    \A i \in Instr :
        LET b == Block(i) IN
        (Op(i) # "reserved" /\ b.stopped = "no") =>
            /\ b.regs = RegsAfter(i, regs, pc)
            /\ b.pc = PcAfter(i, regs, pc)

\* The instructions of the architecture that take the emulator down are these
\* and no others: rem and remu by zero, which nothing tests for, and the one
\* overflow of div and rem.
StopsExactly ==
    stopped = "no" =>
    \A i \in Instr :
        Op(i) # "reserved" =>
            (Block(i).stopped # "no" <=>
                /\ i.fmt = "R"
                /\ LET a == regs[i.rs1]  b == regs[i.rs2] IN
                   \/ Op(i) \in {"rem", "remu"} /\ b = 0
                   \/ /\ Op(i) \in {"div", "rem"}
                      /\ a = Half /\ b = Modulus - 1)
=============================================================================
