---------------------------- MODULE AtomicMemory ----------------------------
(***************************************************************************)
(* What the atomic instructions of RV32A promise to the programs of one    *)
(* hart, as far as this emulator keeps the promise: an amo reads and       *)
(* writes in one step; a reservation is a ticket that load-reserved issues *)
(* for an address and one store-conditional to that address uses up; and   *)
(* an instruction that faults has done nothing.                            *)
(*                                                                         *)
(* Two licences go beyond the architecture, which knows one reservation    *)
(* that any store-conditional ends: there are as many tickets as the       *)
(* emulator has room for, and a store-conditional that faults may already  *)
(* have written its result register.                                       *)
(***************************************************************************)
EXTENDS Integers

CONSTANTS
    XLEN,         \* bits of a register (32)
    NReg,         \* registers, x0 among them (32)
    WordBytes,    \* bytes of a word, by which an address must be aligned (4)
    Frames,       \* the words of physical memory
    NoFrame,      \* no word: the address is not mapped
    Maps,         \* the mappings the guest installs
    Contexts,     \* the register files the guest loads
    Instrs,       \* the instructions of the guest, records [f, rd, rs1, rs2]
    Tickets       \* reservations there may be at a time

Words == 0 .. 2^XLEN - 1

Regs == 0 .. NReg - 1

VARIABLES
    instr,    \* the instruction that was executed last
    regs,     \* the registers
    mem,      \* physical memory
    map,      \* where each address leads
    held,     \* address -> tickets outstanding for it
    free,     \* tickets that can still be issued
    stopped   \* the emulator gave up

vars == <<instr, regs, mem, map, held, free, stopped>>

----------------------------------------------------------------------------
(* Words *)

Bits(w) == {k \in 0 .. XLEN - 1 : (w \div 2^k) % 2 = 1}

WordOf(S) == CHOOSE w \in Words : Bits(w) = S

Plus(a, b)   == (a + b) % 2^XLEN
BitXor(a, b) == WordOf((Bits(a) \ Bits(b)) \cup (Bits(b) \ Bits(a)))
BitOr(a, b)  == WordOf(Bits(a) \cup Bits(b))
BitAnd(a, b) == WordOf(Bits(a) \cap Bits(b))

\* The amos, by funct5, and what each stores, given the word that was there and rs2.
AMO == {0, 1, 4, 8, 12}

Result(f, old, v) ==
    CASE f = 0  -> Plus(old, v)
      [] f = 1  -> v
      [] f = 4  -> BitXor(old, v)
      [] f = 8  -> BitOr(old, v)
      [] f = 12 -> BitAnd(old, v)

LR == 2
SC == 3

----------------------------------------------------------------------------
Reaches(a) == a % WordBytes = 0 /\ map[a] # NoFrame

\* The registers with v in rd, unless that is x0.
With(rd, v) == [regs EXCEPT ![rd] = IF rd = 0 THEN 0 ELSE v]

Init ==
    /\ instr \in Instrs
    /\ regs \in Contexts
    /\ mem \in [Frames -> Words]
    /\ map \in Maps
    /\ held = [a \in Words |-> 0]
    /\ free = Tickets
    /\ stopped = FALSE

Amo(f, rd, a, v) ==
    /\ f \in AMO
    /\ Reaches(a)
    /\ regs' = With(rd, mem[map[a]])
    /\ mem' = [mem EXCEPT ![map[a]] = Result(f, mem[map[a]], v)]
    /\ UNCHANGED <<map, held, free, stopped>>

\* A new ticket, in the place of another one if none is free.
LoadReserved(rd, a) ==
    /\ Reaches(a)
    /\ regs' = With(rd, mem[map[a]])
    /\ \/ /\ free > 0
          /\ free' = free - 1
          /\ held' = [held EXCEPT ![a] = held[a] + 1]
       \/ /\ free = 0
          /\ UNCHANGED free
          /\ \E b \in Words :
                /\ held[b] > 0
                /\ held' = [c \in Words |-> held[c] + (IF c = a THEN 1 ELSE 0)
                                                    - (IF c = b THEN 1 ELSE 0)]
    /\ UNCHANGED <<mem, map, stopped>>

StoreConditional(rd, a, v) ==
    /\ \/ /\ held[a] = 0
          /\ regs' = With(rd, 1)
          /\ UNCHANGED <<mem, held, free>>
       \/ /\ held[a] > 0
          /\ Reaches(a)
          /\ regs' = With(rd, 0)
          /\ mem' = [mem EXCEPT ![map[a]] = v]
          /\ held' = [held EXCEPT ![a] = held[a] - 1]
          /\ free' = free + 1
    /\ UNCHANGED <<map, stopped>>

Trap(f, rd, a) ==
    /\ f \in AMO \cup {LR, SC}
    /\ ~Reaches(a)
    /\ \/ UNCHANGED regs
       \/ f = SC /\ held[a] > 0 /\ regs' = With(rd, 0)
    /\ UNCHANGED <<mem, map, held, free, stopped>>

\* An instruction that the emulator does not have.
Stop(f) ==
    /\ f \notin AMO \cup {LR, SC}
    /\ stopped' = TRUE
    /\ UNCHANGED <<regs, mem, map, held, free>>

\* Instruction i with the operands it finds in its registers.
Execute(i) ==
    LET a == regs[i.rs1]
        v == regs[i.rs2]
    IN  /\ instr' = i
        /\ \/ Amo(i.f, i.rd, a, v)
           \/ i.f = LR /\ LoadReserved(i.rd, a)
           \/ i.f = SC /\ StoreConditional(i.rd, a, v)
           \/ Trap(i.f, i.rd, a)
           \/ Stop(i.f)

\* The guest goes on with other registers, or under another mapping.
LoadContext(r) == regs' = r /\ UNCHANGED <<instr, mem, map, held, free, stopped>>

Remap(m) == map' = m /\ UNCHANGED <<instr, regs, mem, held, free, stopped>>

Next ==
    /\ ~stopped
    /\ \/ \E i \in Instrs : Execute(i)
       \/ \E r \in Contexts : LoadContext(r)
       \/ \E m \in Maps : Remap(m)

Spec == Init /\ [][Next]_vars
=============================================================================
