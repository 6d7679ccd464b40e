------------------------------ MODULE Atomics ------------------------------
(***************************************************************************)
(* The atomic instructions (translate_amo.c): the block of one calls       *)
(* amo_instruction_slowpath, which works on the registers in hart->        *)
(* registers and on memory through the MMU.  Reservations are kept in a    *)
(* table of MAX_RESERVATION_ITEMS items, by virtual address.               *)
(*                                                                         *)
(* An access that faults does not return: raise_exception leaves for the   *)
(* guest's handler, and what the function had written stays written.  The  *)
(* guest may go on with any instruction, in particular with the one that   *)
(* trapped; its kernel may load the registers of another program and map   *)
(* or unmap addresses, and otherwise keeps the registers.                  *)
(*                                                                         *)
(* Memory is word by word, and map is what the MMU makes of an address     *)
(* (module Mmu): an aligned word lies in one page.  The instructions of    *)
(* one hart are not interleaved with anything inside.                      *)
(***************************************************************************)
EXTENDS Integers, FiniteSets

CONSTANTS
    XLEN, NReg, WordBytes, Frames, NoFrame, Maps, Contexts, Instrs,  \* see AtomicMemory
    MAX_RESERVATION_ITEMS,   \* 16
    hart_id                  \* hart->hart_id

VARIABLES
    instr, regs, mem, map, stopped,   \* see AtomicMemory
    reservations,              \* the table
    next_pointer,              \* the item lr takes when all are valid
    reserved,   \* history: the address the architecture holds reserved, or NoAddr
    last_sc     \* history: how the last instruction fared if it was an sc

table_vars == <<reservations, next_pointer>>
vars == <<instr, regs, mem, map, stopped, table_vars, reserved, last_sc>>

Slots == 0 .. MAX_RESERVATION_ITEMS - 1

NoAddr == -1

\* The items of the table that hold a reservation of address a.
ItemsFor(a) == {i \in Slots : reservations[i].valid /\ reservations[i].addr = a}

\* The tickets of the abstract memory: the valid items of the table.
Arch == INSTANCE AtomicMemory WITH
    Tickets <- MAX_RESERVATION_ITEMS,
    held <- [a \in 0 .. 2^XLEN - 1 |-> Cardinality(ItemsFor(a))],
    free <- Cardinality({i \in Slots : ~reservations[i].valid})

ASSUME WidthAssumption == XLEN \in Nat \ {0} /\ NReg \in Nat \ {0} /\ WordBytes \in Nat \ {0}

\* What ^ means, which the proofs take from here: TLC evaluates it.
ASSUME PowerAssumption ==
    /\ 2^0 = 1
    /\ \A k \in 0 .. XLEN - 1 : 2^k \in Nat /\ 2^(k + 1) = 2 * 2^k

ASSUME GuestAssumption ==
    /\ Instrs \subseteq [f : 0 .. 31, rd : Arch!Regs, rs1 : Arch!Regs, rs2 : Arch!Regs]
    /\ Contexts \subseteq {r \in [Arch!Regs -> Arch!Words] : r[0] = 0}
    /\ Maps \subseteq [Arch!Words -> Frames \cup {NoFrame}]
    /\ NoFrame \notin Frames

ASSUME TableAssumption == MAX_RESERVATION_ITEMS \in Nat \ {0}

----------------------------------------------------------------------------
(* Registers and memory *)

\* (A call after which x0 is not cleared.)
KeepZero(r) == r

\* RESET_ZERO_REGISTER, when the call returns.
reset_zero(r) == [r EXCEPT ![0] = 0]

\* mmu_read32_aligned and mmu_write32_aligned fault on the same addresses: the
\* code checks no permissions.
Faults(a) == a % WordBytes # 0 \/ map[a] = NoFrame

Load(a) == mem[map[a]]

\* raise_exception: r is what the function has made of the registers.
raise_exception(r) ==
    /\ regs' = r
    /\ last_sc' = "none"
    /\ UNCHANGED <<mem, map, stopped, table_vars, reserved>>

----------------------------------------------------------------------------
(* The slow paths *)

\* What is stored, by funct5.
amo_value(f, rd, rs2) ==
    CASE f = 0  -> Arch!Plus(rd, rs2)
      [] f = 1  -> rs2
      [] f = 4  -> Arch!BitXor(rd, rs2)
      [] f = 8  -> Arch!BitOr(rd, rs2)
      [] f = 12 -> Arch!BitAnd(rd, rs2)

\* (An amo that reads rs2 again after it has written rd.)
AmoWithoutCopy(f, rd, rs1, rs2) ==
    LET a == regs[rs1]
        r == [regs EXCEPT ![rd] = Load(a)]
    IN  \/ /\ Faults(a)
           /\ raise_exception(regs)
        \/ /\ ~Faults(a)
           /\ regs' = reset_zero(r)
           /\ mem' = [mem EXCEPT ![map[a]] = amo_value(f, r[rd], r[rs2])]
           /\ last_sc' = "none"
           /\ UNCHANGED <<map, stopped, table_vars, reserved>>

\* amoadd, amoswap, amoxor, amoor and amoand: rs1 and rs2 are copied, rd gets the
\* word, and what is stored is computed from rd.  The store finds the
\* translation that the load has just used.
amo_slowpath(f, rd, rs1, rs2) ==
    LET a == regs[rs1]
        v == regs[rs2]
        r == [regs EXCEPT ![rd] = Load(a)]
    IN  \/ /\ Faults(a)
           /\ raise_exception(regs)
        \/ /\ ~Faults(a)
           /\ regs' = reset_zero(r)
           /\ mem' = [mem EXCEPT ![map[a]] = amo_value(f, r[rd], v)]
           /\ last_sc' = "none"
           /\ UNCHANGED <<map, stopped, table_vars, reserved>>

Invalid == {i \in Slots : ~reservations[i].valid}

\* (A table used as a ring, whatever is free.)
NextInRing == next_pointer

\* The first item that is not valid, or else the one next_pointer is at.
ReservationSlot ==
    IF Invalid = {} THEN next_pointer
                    ELSE CHOOSE i \in Invalid : \A j \in Invalid : i <= j

\* (A full table that takes no further reservation.)
MakeReservationIfRoom(a) ==
    /\ reservations' = IF Invalid = {} THEN reservations
                       ELSE [reservations EXCEPT ![ReservationSlot] =
                               [addr |-> a, valid |-> TRUE, hartid |-> hart_id]]
    /\ next_pointer' = (ReservationSlot + 1) % MAX_RESERVATION_ITEMS

MakeReservation(a) ==
    /\ reservations' = [reservations EXCEPT ![ReservationSlot] =
                           [addr |-> a, valid |-> TRUE, hartid |-> hart_id]]
    /\ next_pointer' = (ReservationSlot + 1) % MAX_RESERVATION_ITEMS

lr_slowpath(rd, rs1) ==
    LET a == regs[rs1] IN
    \/ /\ Faults(a)
       /\ raise_exception(regs)
    \/ /\ ~Faults(a)
       /\ regs' = reset_zero([regs EXCEPT ![rd] = Load(a)])
       /\ MakeReservation(a)
       /\ reserved' = a
       /\ last_sc' = "none"
       /\ UNCHANGED <<mem, map, stopped>>

\* The items that the loop of sc would stop at.
Matching(a) ==
    {i \in Slots : /\ reservations[i].valid
                   /\ reservations[i].addr = a
                   /\ reservations[i].hartid = hart_id}

FirstMatching(a) == CHOOSE i \in Matching(a) : \A j \in Matching(a) : i <= j

\* rd is 0 before the store, which may fault, and the item is cleared after it.
sc_slowpath(rd, rs1, rs2) ==
    LET a == regs[rs1]
        v == regs[rs2]
        r == [regs EXCEPT ![rd] = 0]
    IN  \/ /\ Matching(a) # {}
           /\ Faults(a)
           /\ raise_exception(r)
        \/ /\ Matching(a) # {}
           /\ ~Faults(a)
           /\ regs' = reset_zero(r)
           /\ mem' = [mem EXCEPT ![map[a]] = v]
           /\ reservations' = [reservations EXCEPT ![FirstMatching(a)].valid = FALSE]
           /\ reserved' = NoAddr
           /\ last_sc' = IF reserved = a THEN "paired" ELSE "unpaired"
           /\ UNCHANGED <<map, stopped, next_pointer>>
        \/ /\ Matching(a) = {}
           /\ regs' = reset_zero([regs EXCEPT ![rd] = 1])
           /\ reserved' = NoAddr
           /\ last_sc' = "failed"
           /\ UNCHANGED <<mem, map, stopped, table_vars>>

\* per_funct5_handlers and amo_instruction_slowpath; ASSERT ends the emulator on a
\* funct5 without a handler.
amo_instruction(i) ==
    /\ ~stopped
    /\ instr' = i
    /\ \/ i.f \in {0, 1, 4, 8, 12} /\ amo_slowpath(i.f, i.rd, i.rs1, i.rs2)
       \/ i.f = 2 /\ lr_slowpath(i.rd, i.rs1)
       \/ i.f = 3 /\ sc_slowpath(i.rd, i.rs1, i.rs2)
       \/ /\ i.f \notin {0, 1, 2, 3, 4, 8, 12}
          /\ stopped' = TRUE
          /\ UNCHANGED <<regs, mem, map, table_vars, reserved, last_sc>>

----------------------------------------------------------------------------
(* The guest's kernel (external) *)

LoadContext(r) ==
    /\ ~stopped
    /\ regs' = r
    /\ last_sc' = "none"
    /\ UNCHANGED <<instr, mem, map, stopped, table_vars, reserved>>

Remap(m) ==
    /\ ~stopped
    /\ map' = m
    /\ UNCHANGED <<instr, regs, mem, stopped, table_vars, reserved, last_sc>>

Stopped == stopped /\ UNCHANGED vars

----------------------------------------------------------------------------
NoItem == [addr |-> 0, valid |-> FALSE, hartid |-> 0]

Init ==
    /\ instr \in Instrs
    /\ regs \in Contexts
    /\ mem \in [Frames -> Arch!Words]
    /\ map \in Maps
    /\ stopped = FALSE
    /\ reservations = [i \in Slots |-> NoItem]
    /\ next_pointer = 0
    /\ reserved = NoAddr
    /\ last_sc = "none"

Next ==
    \/ \E i \in Instrs : amo_instruction(i)
    \/ \E r \in Contexts : LoadContext(r)
    \/ \E m \in Maps : Remap(m)
    \/ Stopped

Spec == Init /\ [][Next]_vars

----------------------------------------------------------------------------
(* Properties *)

Item == [addr : Arch!Words, valid : BOOLEAN, hartid : {0, hart_id}]

\* The state keeps its types; x0 is zero between instructions, although the slow
\* paths use its place like any other.
TypeOK ==
    /\ instr \in Instrs
    /\ regs \in [Arch!Regs -> Arch!Words] /\ regs[0] = 0
    /\ mem \in [Frames -> Arch!Words]
    /\ map \in [Arch!Words -> Frames \cup {NoFrame}]
    /\ stopped \in BOOLEAN
    /\ reservations \in [Slots -> Item]
    /\ next_pointer \in Slots
    /\ reserved \in Arch!Words \cup {NoAddr}
    /\ last_sc \in {"none", "paired", "unpaired", "failed"}

\* The slow paths implement the abstract atomic memory: whatever registers
\* coincide, each instruction reads its operands before it writes; a reservation
\* serves one sc, and an lr displaces one only when the table is full.
ImplementsAtomicMemory == Arch!Spec

\* An lr keeps its reservation until an sc or another lr: a loop of lr and sc that
\* is left alone succeeds, however many stale reservations fill the table.
FreshReservationHolds == reserved # NoAddr => Matching(reserved) # {}

\* SC.W as the architecture has it: it succeeds only as the counterpart of the
\* last lr, with no other sc in between.
ScIsPaired == last_sc # "unpaired"
=============================================================================
