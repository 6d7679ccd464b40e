--------------------------- MODULE AtomicsProofs ----------------------------
(***************************************************************************)
(* Proofs about the atomic instructions, for tables of any size, registers *)
(* of any width and any programs, mappings and memories.                   *)
(*                                                                         *)
(* FreshReservationHolds needs no more than the shape of the table.  That  *)
(* the slow paths implement AtomicMemory needs the types of registers and  *)
(* memory, and so that the bitwise amos store words: every set of bits is  *)
(* that of a number (BitsExist), by induction on the width.  It needs that *)
(* every valid item was made by this hart, for AtomicMemory counts the     *)
(* items of an address and sc looks for its own.                           *)
(***************************************************************************)
EXTENDS Atomics, FiniteSetTheorems, WellFoundedInduction, TLAPS

----------------------------------------------------------------------------
(* Numbers and their bits *)

\* The bit k of a number.
BitOf(w, k) == (w \div 2^k) % 2

\* Induction, from the least number that would not be in the set.
LEMMA Induct ==
    ASSUME NEW T, 0 \in T, \A n \in Nat : n \in T => n + 1 \in T PROVE Nat \subseteq T
<1> SUFFICES ASSUME NEW x \in Nat, x \notin T PROVE FALSE
  OBVIOUS
<1> DEFINE Out == {n \in Nat : n \notin T}
<1>1. IsWellFoundedOn(OpToRel(<, Nat), Nat)
  BY NatLessThanWellFounded
<1>2. PICK m \in Out : \A y \in Out : ~(<<y, m>> \in OpToRel(<, Nat))
  BY <1>1, WFMin
<1>3. m \in Nat /\ m \notin T
  BY <1>2
<1>4. m - 1 \in Nat /\ m - 1 < m /\ (m - 1) + 1 = m
  BY <1>3
<1>5. m - 1 \notin T
  BY <1>3, <1>4
<1>6. <<m - 1, m>> \in OpToRel(<, Nat)
  BY <1>3, <1>4 DEF OpToRel
<1> QED BY <1>2, <1>4, <1>5, <1>6

\* The powers of two up to the weight of a word are positive.
LEMMA Powers ==
    ASSUME NEW k \in 0 .. XLEN PROVE 2^k \in Nat \ {0}
<1> DEFINE T == {n \in Nat : n <= XLEN => 2^n \in Nat \ {0}}
<1>1. 0 \in T
  BY PowerAssumption
<1>2. ASSUME NEW n \in Nat, n \in T PROVE n + 1 \in T
  <2>1. CASE n + 1 <= XLEN
    <3>1. n \in 0 .. XLEN - 1 /\ 2^n \in Nat \ {0}
      BY <1>2, <2>1, WidthAssumption
    <3>2. 2^(n + 1) = 2 * 2^n
      BY <3>1, PowerAssumption
    <3> QED BY <3>1, <3>2
  <2> QED BY <2>1
<1> HIDE DEF T
<1>3. k \in T
  BY <1>1, <1>2, Induct, WidthAssumption
<1> QED BY <1>3 DEF T

\* A quotient and a remainder are known from any decomposition.
LEMMA Halves ==
    ASSUME NEW h \in Nat \ {0}, NEW q \in Nat, NEW r \in 0 .. h - 1
    PROVE  /\ q * h + r \in Nat
           /\ (q * h + r) \div h = q
           /\ (q * h + r) % h = r
<1>1. q * h \in Nat
  OBVIOUS
<1> DEFINE x == q * h + r
<1>2. x \in Nat /\ x \div h \in Nat /\ x % h \in 0 .. h - 1
  BY <1>1
<1>3. x = h * (x \div h) + (x % h)
  BY <1>2
<1> QED BY <1>1, <1>2, <1>3

\* Every number decomposes into a quotient and a remainder.
LEMMA Divided ==
    ASSUME NEW h \in Nat \ {0}, NEW x \in Nat
    PROVE  /\ x \div h \in Nat /\ x % h \in 0 .. h - 1
           /\ x = (x \div h) * h + (x % h)
  OBVIOUS

\* Doubling the divisor drops the lowest bit of the dividend.
LEMMA HalfOfBoth ==
    ASSUME NEW w \in Nat, NEW b \in {0, 1}, NEW m \in Nat \ {0}
    PROVE  (2 * w + b) \div (2 * m) = w \div m
<1>1. PICK q \in Nat, r \in 0 .. m - 1 : q = w \div m /\ w = q * m + r
  BY Divided
<1>2. 2 * m \in Nat \ {0} /\ 2 * r + b \in 0 .. (2 * m) - 1
  BY <1>1
<1>3. 2 * w + b = q * (2 * m) + (2 * r + b)
  <2>1. q * (2 * m) = 2 * (q * m) /\ q * m \in Nat
    BY <1>1
  <2> QED BY <1>1, <2>1
<1>4. (q * (2 * m) + (2 * r + b)) \div (2 * m) = q
  BY <1>1, <1>2, Halves
<1> QED BY <1>1, <1>3, <1>4

\* A bit appended below moves every other bit up.
LEMMA BitAbove ==
    ASSUME NEW w \in Nat, NEW b \in {0, 1}, NEW k \in 0 .. XLEN - 1
    PROVE  BitOf(2 * w + b, k + 1) = BitOf(w, k)
<1>1. PICK m \in Nat \ {0} : m = 2^k /\ 2^(k + 1) = 2 * m
  BY Powers, PowerAssumption, WidthAssumption
<1>2. (2 * w + b) \div (2 * m) = w \div m
  BY HalfOfBoth
<1>3. (2 * w + b) \div 2^(k + 1) = w \div 2^k
  BY <1>1, <1>2
<1> QED BY <1>3 DEF BitOf

\* The bit 0 is the parity.
LEMMA BitZero ==
    ASSUME NEW w \in Nat PROVE BitOf(w, 0) = w % 2
<1>1. w \div 1 = w
  OBVIOUS
<1> QED BY <1>1, PowerAssumption DEF BitOf

\* What a bit appended below does to the parity and the half.
LEMMA EvenOdd ==
    ASSUME NEW w \in Nat, NEW b \in {0, 1}
    PROVE  (2 * w + b) % 2 = b /\ (2 * w + b) \div 2 = w
  OBVIOUS

\* Every number is another with a bit appended.
LEMMA Binary == ASSUME NEW x \in Nat PROVE \E c \in Nat, b \in {0, 1} : x = 2 * c + b
<1>1. x \div 2 \in Nat /\ x % 2 \in {0, 1} /\ x = 2 * (x \div 2) + (x % 2)
  OBVIOUS
<1> QED BY <1>1

\* A bit is 0 or 1.
LEMMA BitIsBit == ASSUME NEW w \in Nat, NEW k \in 0 .. XLEN PROVE BitOf(w, k) \in {0, 1}
<1>1. PICK m \in Nat \ {0} : m = 2^k
  BY Powers
<1>2. w \div m \in Nat
  BY Divided
<1>3. \A q \in Nat : q % 2 \in {0, 1}
  OBVIOUS
<1> QED BY <1>1, <1>2, <1>3 DEF BitOf

\* Every set of bits is that of a number.
LEMMA BitsExist ==
    ASSUME NEW n \in 0 .. XLEN, NEW S \in SUBSET (0 .. n - 1)
    PROVE  \E w \in 0 .. 2^n - 1 : \A k \in 0 .. XLEN - 1 : BitOf(w, k) = 1 <=> k \in S
<1> DEFINE Is(w, R) == \A k \in 0 .. XLEN - 1 : BitOf(w, k) = 1 <=> k \in R
           T == {m \in Nat : m <= XLEN =>
                     \A R \in SUBSET (0 .. m - 1) : \E w \in 0 .. 2^m - 1 : Is(w, R)}
<1>1. 0 \in T
  <2>1. 0 \in 0 .. 2^0 - 1
    BY PowerAssumption
  <2>2. \A k \in 0 .. XLEN - 1 : BitOf(0, k) = 0
    <3> SUFFICES ASSUME NEW k \in 0 .. XLEN - 1 PROVE BitOf(0, k) = 0
      OBVIOUS
    <3>1. PICK m \in Nat \ {0} : m = 2^k
      BY Powers, WidthAssumption
    <3>2. 0 \div m = 0 /\ 0 % 2 = 0
      OBVIOUS
    <3> QED BY <3>1, <3>2 DEF BitOf
  <2>3. \A R \in SUBSET (0 .. 0 - 1) : R = {}
    OBVIOUS
  <2> QED BY <2>1, <2>2, <2>3
<1>2. ASSUME NEW m \in Nat, m \in T PROVE m + 1 \in T
  <2> SUFFICES ASSUME m + 1 <= XLEN, NEW R \in SUBSET (0 .. (m + 1) - 1)
               PROVE  \E w \in 0 .. 2^(m + 1) - 1 : Is(w, R)
    OBVIOUS
  <2>1. m \in 0 .. XLEN - 1 /\ m <= XLEN
    BY WidthAssumption
  <2> DEFINE Q == {k \in 0 .. m - 1 : k + 1 \in R}
             b == IF 0 \in R THEN 1 ELSE 0
  <2>2. PICK v \in 0 .. 2^m - 1 : Is(v, Q)
    <3>1. Q \in SUBSET (0 .. m - 1)
      OBVIOUS
    <3> QED BY <1>2, <2>1, <3>1
  <2>3. 2^m \in Nat \ {0} /\ 2^(m + 1) = 2 * 2^m
    BY <2>1, Powers, PowerAssumption
  <2>4. b \in {0, 1} /\ v \in Nat /\ 2 * v + b \in 0 .. 2^(m + 1) - 1
    BY <2>2, <2>3
  <2>5. ASSUME NEW k \in 0 .. XLEN - 1 PROVE BitOf(2 * v + b, k) = 1 <=> k \in R
    <3>1. CASE k = 0
      <4>1. BitOf(2 * v + b, 0) = b
        BY <2>4, BitZero, EvenOdd
      <4> QED BY <3>1, <4>1
    <3>2. CASE k # 0
      <4>1. k - 1 \in 0 .. XLEN - 1 /\ (k - 1) + 1 = k
        BY <3>2, WidthAssumption
      <4>2. BitOf(2 * v + b, k) = BitOf(v, k - 1)
        <5>1. PICK j \in 0 .. XLEN - 1, c \in {0, 1} : j = k - 1 /\ j + 1 = k /\ c = b
          BY <2>4, <4>1
        <5>2. BitOf(2 * v + c, j + 1) = BitOf(v, j)
          BY <2>4, BitAbove
        <5> QED BY <5>1, <5>2
      <4>3. k - 1 \in Q <=> k \in R
        BY <3>2, <4>1, <2>1
      <4>4. BitOf(v, k - 1) = 1 <=> k - 1 \in Q
        BY <2>2, <4>1
      <4> QED BY <4>2, <4>3, <4>4
    <3> QED BY <3>1, <3>2
  <2> QED BY <2>4, <2>5
<1> HIDE DEF T
<1>3. n \in T
  BY <1>1, <1>2, Induct
<1> QED BY <1>3, WidthAssumption DEF T

\* The word with a set of bits is a word.
LEMMA WordOfIsWord ==
    ASSUME NEW S \in SUBSET (0 .. XLEN - 1)
    PROVE  Arch!WordOf(S) \in Arch!Words
<1>1. PICK n \in 0 .. XLEN : n = XLEN
  BY WidthAssumption
<1>2. PICK w \in 0 .. 2^n - 1 : \A k \in 0 .. XLEN - 1 : BitOf(w, k) = 1 <=> k \in S
  BY <1>1, BitsExist
<1>3. w \in Arch!Words /\ Arch!Bits(w) = S
  BY <1>1, <1>2 DEF Arch!Words, Arch!Bits, BitOf
<1> QED BY <1>3 DEF Arch!WordOf

\* What an amo stores is a word, the one the architecture asks for.
LEMMA AmoValue ==
    ASSUME NEW f \in Arch!AMO, NEW x \in Arch!Words, NEW y \in Arch!Words
    PROVE  amo_value(f, x, y) \in Arch!Words /\ Arch!Result(f, x, y) = amo_value(f, x, y)
<1>3. Arch!Plus(x, y) \in Arch!Words
  <2>1. PICK m \in Nat \ {0} : m = 2^XLEN
    BY Powers, WidthAssumption
  <2>2. x + y \in Nat
    BY <2>1 DEF Arch!Words
  <2>3. (x + y) % m \in 0 .. m - 1
    BY <2>2, Divided
  <2> QED BY <2>1, <2>3 DEF Arch!Plus, Arch!Words
<1>4. Arch!Bits(x) \in SUBSET (0 .. XLEN - 1) /\ Arch!Bits(y) \in SUBSET (0 .. XLEN - 1)
  BY DEF Arch!Bits
<1>5. /\ (Arch!Bits(x) \ Arch!Bits(y)) \cup (Arch!Bits(y) \ Arch!Bits(x)) \in SUBSET (0 .. XLEN - 1)
      /\ Arch!Bits(x) \cup Arch!Bits(y) \in SUBSET (0 .. XLEN - 1)
      /\ Arch!Bits(x) \cap Arch!Bits(y) \in SUBSET (0 .. XLEN - 1)
  BY <1>4
<1>6. /\ Arch!BitXor(x, y) \in Arch!Words /\ Arch!BitOr(x, y) \in Arch!Words
      /\ Arch!BitAnd(x, y) \in Arch!Words
  BY <1>5, WordOfIsWord DEF Arch!BitXor, Arch!BitOr, Arch!BitAnd
<1>7. amo_value(f, x, y) \in Arch!Words
  BY <1>3, <1>6 DEF amo_value, Arch!AMO
<1>8. Arch!Result(f, x, y) = amo_value(f, x, y)
  BY DEF amo_value, Arch!Result
<1> QED BY <1>7, <1>8

----------------------------------------------------------------------------
(* The reservation table *)

\* The table has its slots, and next_pointer points to one of them.
TableIsWellFormed ==
    /\ DOMAIN reservations = Slots
    /\ reservations = [i \in Slots |-> reservations[i]]
    /\ next_pointer \in Slots

ReservationInv == TableIsWellFormed /\ FreshReservationHolds

----------------------------------------------------------------------------
\* A non-empty set of slots has a first one.
LEMMA FirstSlot ==
    ASSUME NEW S \in SUBSET Slots, S # {}
    PROVE  \E i \in S : \A j \in S : i <= j
<1> DEFINE R == {ss \in Nat \X Nat : ss[1] < ss[2]}
<1>1. S \in SUBSET Nat
  BY TableAssumption DEF Slots
<1>2. \A x, y \in Nat : y < x => <<y, x>> \in R
  OBVIOUS
<1>3. IsWellFoundedOn(R, Nat)
  BY NatLessThanWellFounded DEF OpToRel
<1> HIDE DEF R
<1>4. PICK i \in S : \A j \in S : ~ (<<j, i>> \in R)
  BY <1>1, <1>3, WFMin
<1>5. \A j \in S : ~ (j < i)
  BY <1>1, <1>2, <1>4
<1> QED BY <1>1, <1>4, <1>5

\* The slot that lr takes is one of the table, whether the search found one that
\* is free or fell back on next_pointer.
LEMMA SlotExists ==
    ASSUME TableIsWellFormed
    PROVE  ReservationSlot \in Slots
<1>1. CASE Invalid = {}
  BY <1>1 DEF ReservationSlot, TableIsWellFormed
<1>2. CASE Invalid # {}
  <2>1. Invalid \in SUBSET Slots
    BY DEF Invalid
  <2>2. \E i \in Invalid : \A j \in Invalid : i <= j
    BY <1>2, <2>1, FirstSlot
  <2> QED BY <1>2, <2>1, <2>2 DEF ReservationSlot
<1> QED BY <1>1, <1>2

\* After lr the table has a reservation of its address, full or not.
LEMMA ReservationIsMade ==
    ASSUME TableIsWellFormed, NEW a, MakeReservation(a)
    PROVE  TableIsWellFormed' /\ Matching(a)' # {}
<1> DEFINE s == ReservationSlot
           item == [addr |-> a, valid |-> TRUE, hartid |-> hart_id]
<1>1. s \in Slots
  BY SlotExists
<1>2. /\ reservations' = [reservations EXCEPT ![s] = item]
      /\ next_pointer' = (s + 1) % MAX_RESERVATION_ITEMS
  BY DEF MakeReservation
<1> HIDE DEF s
<1>3. reservations' = [i \in Slots |-> IF i = s THEN item ELSE reservations[i]]
  BY <1>1, <1>2 DEF TableIsWellFormed
<1>4. TableIsWellFormed'
  <2>1. next_pointer' \in Slots
    BY <1>1, <1>2, TableAssumption DEF Slots
  <2> QED BY <1>3, <2>1 DEF TableIsWellFormed
<1>5. reservations'[s] = item
  BY <1>1, <1>3
<1>6. s \in Matching(a)'
  BY <1>1, <1>5 DEF Matching
<1> QED BY <1>4, <1>6

\* What leaves table and reservation alone leaves the invariant alone.
LEMMA TableUntouched ==
    ASSUME ReservationInv, UNCHANGED <<table_vars, reserved>>
    PROVE  ReservationInv'
BY DEF ReservationInv, TableIsWellFormed, FreshReservationHolds, Matching, table_vars

----------------------------------------------------------------------------
\* The empty table is well formed.
LEMMA ReservationInit == Init => ReservationInv
<1> SUFFICES ASSUME Init PROVE ReservationInv
  OBVIOUS
<1>1. TableIsWellFormed
  BY TableAssumption DEF Init, TableIsWellFormed, Slots, NoItem
<1>2. FreshReservationHolds
  BY DEF Init, FreshReservationHolds
<1> QED BY <1>1, <1>2 DEF ReservationInv

\* lr leaves the reservation it made.
LEMMA LrKeepsInv ==
    ASSUME ReservationInv, NEW rd, NEW rs1, lr_slowpath(rd, rs1)
    PROVE  ReservationInv'
<1>1. CASE raise_exception(regs)
  BY <1>1, TableUntouched DEF raise_exception
<1>2. CASE MakeReservation(regs[rs1]) /\ reserved' = regs[rs1]
  <2>0. PICK a : a = regs[rs1]
    OBVIOUS
  <2>1. TableIsWellFormed' /\ Matching(a)' # {}
    <3>1. MakeReservation(a)
      BY <1>2, <2>0
    <3> QED BY <3>1, ReservationIsMade DEF ReservationInv
  <2>2. Matching(reserved)' # {}
    BY <1>2, <2>0, <2>1 DEF Matching
  <2> QED BY <2>1, <2>2 DEF ReservationInv, FreshReservationHolds
<1> QED BY <1>1, <1>2 DEF lr_slowpath

\* sc leaves no reservation to be kept.
LEMMA ScKeepsInv ==
    ASSUME ReservationInv, NEW rd, NEW rs1, NEW rs2, sc_slowpath(rd, rs1, rs2)
    PROVE  ReservationInv'
<1> DEFINE a == regs[rs1]
<1>1. CASE raise_exception([regs EXCEPT ![rd] = 0])
  BY <1>1, TableUntouched DEF raise_exception
<1>2. CASE /\ Matching(a) # {}
           /\ reservations' = [reservations EXCEPT ![FirstMatching(a)].valid = FALSE]
           /\ reserved' = NoAddr
           /\ UNCHANGED next_pointer
  <2>1. Matching(a) \in SUBSET Slots
    BY DEF Matching
  <2>2. FirstMatching(a) \in Slots
    BY <1>2, <2>1, FirstSlot DEF FirstMatching
  <2>3. TableIsWellFormed'
    BY <1>2, <2>2 DEF ReservationInv, TableIsWellFormed
  <2> QED BY <1>2, <2>3 DEF ReservationInv, FreshReservationHolds
<1>3. CASE reserved' = NoAddr /\ UNCHANGED table_vars
  BY <1>3 DEF ReservationInv, TableIsWellFormed, FreshReservationHolds, table_vars
<1> QED BY <1>1, <1>2, <1>3 DEF sc_slowpath

\* Every step keeps the reservation of the last lr.
LEMMA ReservationStep == ReservationInv /\ [Next]_vars => ReservationInv'
<1> SUFFICES ASSUME ReservationInv, [Next]_vars PROVE ReservationInv'
  OBVIOUS
<1>1. ASSUME NEW i \in Instrs, amo_instruction(i) PROVE ReservationInv'
  <2>1. CASE amo_slowpath(i.f, i.rd, i.rs1, i.rs2)
    BY <2>1, TableUntouched, Zenon DEF amo_slowpath, raise_exception
  <2>2. CASE lr_slowpath(i.rd, i.rs1)
    BY <2>2, LrKeepsInv
  <2>3. CASE sc_slowpath(i.rd, i.rs1, i.rs2)
    BY <2>3, ScKeepsInv
  <2>4. CASE UNCHANGED <<regs, mem, map, table_vars, reserved, last_sc>>
    BY <2>4, TableUntouched
  <2> QED BY <1>1, <2>1, <2>2, <2>3, <2>4 DEF amo_instruction
<1>2. ASSUME NEW r \in Contexts, LoadContext(r) PROVE ReservationInv'
  BY <1>2, TableUntouched DEF LoadContext
<1>3. ASSUME NEW m \in Maps, Remap(m) PROVE ReservationInv'
  BY <1>3, TableUntouched DEF Remap
<1>4. CASE UNCHANGED vars
  BY <1>4, TableUntouched DEF vars
<1> QED BY <1>1, <1>2, <1>3, <1>4 DEF Next, Stopped

----------------------------------------------------------------------------
\* For a table of any size: lr_slowpath leaves a reservation that sc_slowpath will
\* find, and nothing but an sc or a later lr takes it away.
THEOREM FreshTheorem == Spec => []FreshReservationHolds
<1>1. ReservationInv => FreshReservationHolds
  BY DEF ReservationInv
<1> QED BY <1>1, ReservationInit, ReservationStep, PTL DEF Spec

----------------------------------------------------------------------------
(* Types *)

\* Items are made by this hart only.
ItemsAreOwn == \A i \in Slots : reservations[i].valid => reservations[i].hartid = hart_id

AtomicInv == TypeOK /\ ItemsAreOwn

\* What TypeOK gives at once.
LEMMA Typed ==
    ASSUME TypeOK
    PROVE  TableIsWellFormed /\ 0 \in Arch!Regs /\ 0 \in Arch!Words /\ 1 \in Arch!Words
<1>1. TableIsWellFormed
  BY DEF TypeOK, TableIsWellFormed
<1>2. 0 \in Arch!Regs
  BY WidthAssumption DEF Arch!Regs
<1>3. PICK n \in 0 .. XLEN - 1 : n + 1 = XLEN
  BY WidthAssumption
<1>4. 2^n \in Nat \ {0} /\ 2^XLEN = 2 * 2^n
  BY <1>3, Powers, PowerAssumption
<1> QED BY <1>1, <1>2, <1>4 DEF Arch!Words

\* The registers after a call returns, and after it did not.
LEMMA RegistersWritten ==
    ASSUME TypeOK, NEW rd \in Arch!Regs, NEW v \in Arch!Words
    PROVE  /\ reset_zero([regs EXCEPT ![rd] = v]) = Arch!With(rd, v)
           /\ [regs EXCEPT ![rd] = 0] = Arch!With(rd, 0)
           /\ Arch!With(rd, v) \in [Arch!Regs -> Arch!Words] /\ Arch!With(rd, v)[0] = 0
           /\ Arch!With(rd, 0) \in [Arch!Regs -> Arch!Words] /\ Arch!With(rd, 0)[0] = 0
<1>1. /\ regs \in [Arch!Regs -> Arch!Words] /\ regs[0] = 0
      /\ 0 \in Arch!Regs /\ 0 \in Arch!Words
  BY Typed DEF TypeOK
<1>2. Arch!With(rd, v) = [x \in Arch!Regs |-> IF x = 0 THEN 0 ELSE IF x = rd THEN v ELSE regs[x]]
  BY <1>1 DEF Arch!With
<1>3. reset_zero([regs EXCEPT ![rd] = v]) =
         [x \in Arch!Regs |-> IF x = 0 THEN 0 ELSE IF x = rd THEN v ELSE regs[x]]
  BY <1>1 DEF reset_zero
<1>4. [regs EXCEPT ![rd] = 0] = Arch!With(rd, 0)
  BY <1>1 DEF Arch!With
<1>5. Arch!With(rd, v) \in [Arch!Regs -> Arch!Words] /\ Arch!With(rd, v)[0] = 0
  BY <1>1, <1>2
<1>6. Arch!With(rd, 0) \in [Arch!Regs -> Arch!Words] /\ Arch!With(rd, 0)[0] = 0
  BY <1>1 DEF Arch!With
<1> QED BY <1>2, <1>3, <1>4, <1>5, <1>6

\* A mapped address leads to a word of memory.
LEMMA Mapped ==
    ASSUME TypeOK, NEW a \in Arch!Words
    PROVE  /\ Faults(a) <=> ~Arch!Reaches(a)
           /\ ~Faults(a) => map[a] \in Frames /\ Load(a) \in Arch!Words
  BY DEF TypeOK, Faults, Arch!Reaches, Load

\* The table after lr.
LEMMA TableAfterLr ==
    ASSUME AtomicInv, NEW a \in Arch!Words, MakeReservation(a)
    PROVE  /\ reservations' \in [Slots -> Item] /\ next_pointer' \in Slots
           /\ ItemsAreOwn'
<1>1. ReservationSlot \in Slots
  BY Typed, SlotExists DEF AtomicInv
<1>2. PICK s \in Slots : s = ReservationSlot
  BY <1>1
<1>3. PICK item \in Item : item = [addr |-> a, valid |-> TRUE, hartid |-> hart_id]
  BY DEF Item
<1>4. reservations' = [reservations EXCEPT ![s] = item] /\ reservations \in [Slots -> Item]
  BY <1>2, <1>3 DEF MakeReservation, AtomicInv, TypeOK
<1>5. next_pointer' \in Slots
  BY <1>2, TableAssumption DEF MakeReservation, Slots
<1>6. ItemsAreOwn'
  BY <1>3, <1>4 DEF AtomicInv, ItemsAreOwn
<1> QED BY <1>4, <1>5, <1>6

\* An item that sc clears is still an item.
LEMMA TableAfterSc ==
    ASSUME AtomicInv, NEW s \in Slots, reservations' = [reservations EXCEPT ![s].valid = FALSE]
    PROVE  reservations' \in [Slots -> Item] /\ ItemsAreOwn'
<1>1. reservations \in [Slots -> Item]
  BY DEF AtomicInv, TypeOK
<1>2. PICK item \in Item : item = [reservations[s] EXCEPT !.valid = FALSE]
  BY <1>1 DEF Item
<1>3. reservations' = [reservations EXCEPT ![s] = item] /\ ~item.valid
  BY <1>1, <1>2 DEF Item
<1> QED BY <1>1, <1>3 DEF AtomicInv, ItemsAreOwn

\* The table is empty at first.
LEMMA AtomicInit == Init => AtomicInv
<1> SUFFICES ASSUME Init PROVE AtomicInv
  OBVIOUS
<1>1. 0 \in Arch!Words
  <2>1. 2^XLEN \in Nat \ {0}
    BY Powers, WidthAssumption
  <2> QED BY <2>1 DEF Arch!Words
<1>2. NoItem \in Item /\ ~NoItem.valid
  BY <1>1 DEF NoItem, Item
<1>3. 0 \in Slots
  BY TableAssumption DEF Slots
<1>4. TypeOK
  BY <1>2, <1>3, GuestAssumption DEF Init, TypeOK
<1>5. ItemsAreOwn
  BY <1>2 DEF Init, ItemsAreOwn
<1> QED BY <1>4, <1>5 DEF AtomicInv

\* Every step keeps the types and makes own items only.
LEMMA AtomicStep ==
    ASSUME AtomicInv, [Next]_vars PROVE AtomicInv'
<1>1. TypeOK /\ ItemsAreOwn /\ TableIsWellFormed
  BY Typed DEF AtomicInv
<1>2. ASSUME NEW i \in Instrs, amo_instruction(i) PROVE AtomicInv'
  <2>1. i.rd \in Arch!Regs /\ i.rs1 \in Arch!Regs /\ i.rs2 \in Arch!Regs /\ i \in Instrs
    BY GuestAssumption
  <2>2. PICK a \in Arch!Words, v \in Arch!Words : a = regs[i.rs1] /\ v = regs[i.rs2]
    BY <1>1, <2>1 DEF TypeOK
  <2>3. /\ \A w \in Arch!Words :
                /\ reset_zero([regs EXCEPT ![i.rd] = w]) \in [Arch!Regs -> Arch!Words]
                /\ reset_zero([regs EXCEPT ![i.rd] = w])[0] = 0
         /\ [regs EXCEPT ![i.rd] = 0] \in [Arch!Regs -> Arch!Words]
         /\ [regs EXCEPT ![i.rd] = 0][0] = 0
    <3>1. PICK d \in Arch!Regs : d = i.rd
      BY <2>1
    <3>2. ASSUME NEW w \in Arch!Words
          PROVE  /\ reset_zero([regs EXCEPT ![d] = w]) \in [Arch!Regs -> Arch!Words]
                 /\ reset_zero([regs EXCEPT ![d] = w])[0] = 0
                 /\ [regs EXCEPT ![d] = 0] \in [Arch!Regs -> Arch!Words]
                 /\ [regs EXCEPT ![d] = 0][0] = 0
      <4>1. /\ reset_zero([regs EXCEPT ![d] = w]) = Arch!With(d, w)
            /\ [regs EXCEPT ![d] = 0] = Arch!With(d, 0)
            /\ Arch!With(d, w) \in [Arch!Regs -> Arch!Words] /\ Arch!With(d, w)[0] = 0
            /\ Arch!With(d, 0) \in [Arch!Regs -> Arch!Words] /\ Arch!With(d, 0)[0] = 0
        BY <1>1, RegistersWritten
      <4> QED BY <4>1
    <3>3. 0 \in Arch!Words
      BY <1>1, Typed
    <3> QED BY <3>1, <3>2, <3>3
  <2>4. instr' = i /\ ~stopped
    BY <1>2 DEF amo_instruction
  <2>5. ASSUME NEW r \in [Arch!Regs -> Arch!Words], r[0] = 0, raise_exception(r)
        PROVE  AtomicInv'
    BY <1>1, <2>1, <2>4, <2>5
       DEF raise_exception, table_vars, AtomicInv, TypeOK, ItemsAreOwn
  <2>6. regs \in [Arch!Regs -> Arch!Words] /\ regs[0] = 0
    BY <1>1 DEF TypeOK
  <2>7. CASE i.f \in Arch!AMO /\ amo_slowpath(i.f, i.rd, i.rs1, i.rs2)
    <3>1. CASE Faults(a)
      BY <2>2, <2>5, <2>6, <2>7, <3>1 DEF amo_slowpath
    <3>2. CASE ~Faults(a)
      <4>1. PICK l \in Arch!Words : l = Load(a) /\ map[a] \in Frames
        BY <1>1, <3>2, Mapped
      <4>2. /\ regs' = reset_zero([regs EXCEPT ![i.rd] = l])
            /\ mem' = [mem EXCEPT ![map[a]] = amo_value(i.f, l, v)]
            /\ last_sc' = "none"
            /\ UNCHANGED <<map, stopped, table_vars, reserved>>
        BY <2>1, <2>2, <2>6, <2>7, <3>2, <4>1 DEF amo_slowpath
      <4>3. amo_value(i.f, l, v) \in Arch!Words
        BY <2>7, AmoValue
      <4>4. regs' \in [Arch!Regs -> Arch!Words] /\ regs'[0] = 0
        BY <2>3, <4>2
      <4>5. mem' \in [Frames -> Arch!Words]
        BY <1>1, <4>1, <4>2, <4>3 DEF TypeOK
      <4> QED BY <1>1, <2>1, <2>4, <4>2, <4>4, <4>5
              DEF table_vars, AtomicInv, TypeOK, ItemsAreOwn
    <3> QED BY <3>1, <3>2
  <2>8. CASE i.f = 2 /\ lr_slowpath(i.rd, i.rs1)
    <3>1. CASE Faults(a)
      BY <2>2, <2>5, <2>6, <2>8, <3>1 DEF lr_slowpath
    <3>2. CASE ~Faults(a)
      <4>1. PICK l \in Arch!Words : l = Load(a)
        BY <1>1, <3>2, Mapped
      <4>2. /\ regs' = reset_zero([regs EXCEPT ![i.rd] = l])
            /\ MakeReservation(a)
            /\ reserved' = a /\ last_sc' = "none"
            /\ UNCHANGED <<mem, map, stopped>>
        BY <2>2, <2>8, <3>2, <4>1 DEF lr_slowpath
      <4>3. /\ reservations' \in [Slots -> Item] /\ next_pointer' \in Slots
            /\ ItemsAreOwn'
        BY <4>2, TableAfterLr
      <4>4. regs' \in [Arch!Regs -> Arch!Words] /\ regs'[0] = 0
        BY <2>3, <4>2
      <4> QED BY <1>1, <2>1, <2>4, <4>2, <4>3, <4>4 DEF AtomicInv, TypeOK
    <3> QED BY <3>1, <3>2
  <2>9. CASE i.f = 3 /\ sc_slowpath(i.rd, i.rs1, i.rs2)
    <3>1. 0 \in Arch!Words /\ 1 \in Arch!Words
      BY <1>1, Typed
    <3>2. CASE Matching(a) # {} /\ Faults(a)
      <4>1. raise_exception([regs EXCEPT ![i.rd] = 0])
        BY <2>2, <2>9, <3>2 DEF sc_slowpath
      <4>2. [regs EXCEPT ![i.rd] = 0] \in [Arch!Regs -> Arch!Words]
            /\ [regs EXCEPT ![i.rd] = 0][0] = 0
        BY <2>3
      <4> QED BY <2>5, <4>1, <4>2
    <3>3. CASE Matching(a) # {} /\ ~Faults(a)
      <4>1. /\ regs' = reset_zero([regs EXCEPT ![i.rd] = 0])
            /\ mem' = [mem EXCEPT ![map[a]] = v]
            /\ reservations' = [reservations EXCEPT ![FirstMatching(a)].valid = FALSE]
            /\ reserved' = NoAddr
            /\ last_sc' \in {"paired", "unpaired"}
            /\ UNCHANGED <<map, stopped, next_pointer>>
        BY <2>2, <2>9, <3>3 DEF sc_slowpath
      <4>2. Matching(a) \in SUBSET Slots
        BY DEF Matching
      <4>3. PICK s \in Slots : s = FirstMatching(a)
        BY <3>3, <4>2, FirstSlot DEF FirstMatching
      <4>4. reservations' \in [Slots -> Item] /\ ItemsAreOwn'
        BY <4>1, <4>3, TableAfterSc
      <4>5. regs' \in [Arch!Regs -> Arch!Words] /\ regs'[0] = 0
        BY <2>3, <3>1, <4>1
      <4>6. mem' \in [Frames -> Arch!Words]
        BY <1>1, <3>3, <4>1, Mapped DEF TypeOK
      <4> QED BY <1>1, <2>1, <2>4, <4>1, <4>4, <4>5, <4>6 DEF AtomicInv, TypeOK
    <3>4. CASE Matching(a) = {}
      <4>1. /\ regs' = reset_zero([regs EXCEPT ![i.rd] = 1])
            /\ reserved' = NoAddr /\ last_sc' = "failed"
            /\ UNCHANGED <<mem, map, stopped, table_vars>>
        BY <2>2, <2>9, <3>4 DEF sc_slowpath
      <4>2. regs' \in [Arch!Regs -> Arch!Words] /\ regs'[0] = 0
        BY <2>3, <3>1, <4>1
      <4> QED BY <1>1, <2>1, <2>4, <4>1, <4>2
              DEF table_vars, AtomicInv, TypeOK, ItemsAreOwn
    <3> QED BY <3>2, <3>3, <3>4
  <2>10. CASE stopped' = TRUE /\ UNCHANGED <<regs, mem, map, table_vars, reserved, last_sc>>
    BY <1>1, <2>1, <2>4, <2>10 DEF table_vars, AtomicInv, TypeOK, ItemsAreOwn
  <2> QED BY <1>2, <2>7, <2>8, <2>9, <2>10 DEF amo_instruction, Arch!AMO
<1>3. ASSUME NEW r \in Contexts, LoadContext(r) PROVE AtomicInv'
  <2>1. r \in [Arch!Regs -> Arch!Words] /\ r[0] = 0
    BY GuestAssumption
  <2> QED BY <1>1, <1>3, <2>1 DEF LoadContext, table_vars, AtomicInv, TypeOK, ItemsAreOwn
<1>4. ASSUME NEW m \in Maps, Remap(m) PROVE AtomicInv'
  <2>1. m \in [Arch!Words -> Frames \cup {NoFrame}]
    BY GuestAssumption
  <2> QED BY <1>1, <1>4, <2>1 DEF Remap, table_vars, AtomicInv, TypeOK, ItemsAreOwn
<1>5. CASE UNCHANGED vars
  BY <1>1, <1>5 DEF vars, table_vars, AtomicInv, TypeOK, ItemsAreOwn
<1> QED BY <1>2, <1>3, <1>4, <1>5 DEF Next, Stopped

----------------------------------------------------------------------------
(* Refinement *)

\* The tickets that the table stands for.
HeldItems == [a \in Arch!Words |-> Cardinality(ItemsFor(a))]
FreeItems == Cardinality(Invalid)

\* Sets of slots are finite, and grow and shrink by one.
LEMMA SlotSets ==
    ASSUME NEW S \in SUBSET Slots
    PROVE  /\ Cardinality(S) \in Nat
           /\ Cardinality(S) = 0 <=> S = {}
           /\ \A s \in Slots : s \notin S => Cardinality(S \cup {s}) = Cardinality(S) + 1
           /\ \A s \in S : Cardinality(S \ {s}) = Cardinality(S) - 1
<1>1. IsFiniteSet(Slots)
  BY FS_Interval, TableAssumption DEF Slots
<1>2. IsFiniteSet(S)
  BY <1>1, FS_Subset
<1>3. Cardinality(S) \in Nat /\ (Cardinality(S) = 0 <=> S = {})
  BY <1>2, FS_CardinalityType, FS_EmptySet
<1>4. \A s \in Slots : s \notin S => Cardinality(S \cup {s}) = Cardinality(S) + 1
  BY <1>2, FS_AddElement
<1>5. \A s \in S : Cardinality(S \ {s}) = Cardinality(S) - 1
  BY <1>2, FS_RemoveElement
<1> QED BY <1>3, <1>4, <1>5

\* The reservations that sc looks for are those for its address.
LEMMA MatchingItems ==
    ASSUME AtomicInv, NEW a
    PROVE  Matching(a) = ItemsFor(a)
  BY DEF AtomicInv, ItemsAreOwn, Matching, ItemsFor

\* The tickets are counted by numbers, zero where there is no item.
LEMMA Tickets ==
    ASSUME AtomicInv
    PROVE  /\ FreeItems \in Nat /\ (FreeItems = 0 <=> Invalid = {})
           /\ HeldItems \in [Arch!Words -> Nat]
           /\ \A a \in Arch!Words : HeldItems[a] = 0 <=> ItemsFor(a) = {}
           /\ \A a \in Arch!Words : HeldItems[a] = Cardinality(ItemsFor(a))
<1>1. Invalid \in SUBSET Slots
  BY DEF Invalid
<1>2. \A a \in Arch!Words : ItemsFor(a) \in SUBSET Slots
  BY DEF ItemsFor
<1>3. FreeItems \in Nat /\ (FreeItems = 0 <=> Invalid = {})
  BY <1>1, SlotSets DEF FreeItems
<1>4. \A a \in Arch!Words : /\ Cardinality(ItemsFor(a)) \in Nat
                            /\ Cardinality(ItemsFor(a)) = 0 <=> ItemsFor(a) = {}
  BY <1>2, SlotSets
<1> QED BY <1>3, <1>4 DEF HeldItems

\* An item is written: what becomes of the sets of items.
LEMMA ItemWritten ==
    ASSUME AtomicInv, NEW s \in Slots, NEW item \in Item,
           reservations' = [reservations EXCEPT ![s] = item]
    PROVE  /\ Invalid' = IF item.valid THEN Invalid \ {s} ELSE Invalid \cup {s}
           /\ \A c : ItemsFor(c)' = IF item.valid /\ item.addr = c
                                      THEN ItemsFor(c) \cup {s} ELSE ItemsFor(c) \ {s}
           /\ s \in Invalid <=> ~reservations[s].valid
           /\ \A c : s \in ItemsFor(c) <=> reservations[s].valid /\ reservations[s].addr = c
<1>1. reservations' = [i \in Slots |-> IF i = s THEN item ELSE reservations[i]]
  BY DEF AtomicInv, TypeOK
<1>2. Invalid' = {i \in Slots : ~reservations'[i].valid}
  BY DEF Invalid
<1>3. \A c : ItemsFor(c)' = {i \in Slots : reservations'[i].valid /\ reservations'[i].addr = c}
  BY DEF ItemsFor
<1>4. \A i \in Slots : reservations'[i] = IF i = s THEN item ELSE reservations[i]
  BY <1>1
<1>5. Invalid' = IF item.valid THEN Invalid \ {s} ELSE Invalid \cup {s}
  BY <1>2, <1>4 DEF Invalid
<1>6. ASSUME NEW c
      PROVE  ItemsFor(c)' = IF item.valid /\ item.addr = c
                              THEN ItemsFor(c) \cup {s} ELSE ItemsFor(c) \ {s}
  BY <1>3, <1>4 DEF ItemsFor
<1>7. /\ s \in Invalid <=> ~reservations[s].valid
      /\ \A c : s \in ItemsFor(c) <=> reservations[s].valid /\ reservations[s].addr = c
  BY DEF Invalid, ItemsFor
<1> QED BY <1>5, <1>6, <1>7

\* lr issues a ticket, in the place of another when there is none.
LEMMA LrIssues ==
    ASSUME AtomicInv, NEW a \in Arch!Words, MakeReservation(a)
    PROVE  \/ /\ FreeItems > 0
              /\ FreeItems' = FreeItems - 1
              /\ HeldItems' = [HeldItems EXCEPT ![a] = HeldItems[a] + 1]
           \/ /\ FreeItems = 0
              /\ FreeItems' = FreeItems
              /\ \E b \in Arch!Words :
                    /\ HeldItems[b] > 0
                    /\ HeldItems' = [c \in Arch!Words |->
                                        HeldItems[c] + (IF c = a THEN 1 ELSE 0)
                                                     - (IF c = b THEN 1 ELSE 0)]
<1>1. ReservationSlot \in Slots
  BY Typed, SlotExists DEF AtomicInv
<1>2. PICK s \in Slots : s = ReservationSlot
  BY <1>1
<1>3. PICK item \in Item : item = [addr |-> a, valid |-> TRUE, hartid |-> hart_id]
  BY DEF Item
<1>4. reservations' = [reservations EXCEPT ![s] = item] /\ item.valid /\ item.addr = a
  BY <1>2, <1>3 DEF MakeReservation
<1>5. /\ Invalid' = Invalid \ {s}
      /\ \A c : ItemsFor(c)' = IF a = c THEN ItemsFor(c) \cup {s} ELSE ItemsFor(c) \ {s}
      /\ s \in Invalid <=> ~reservations[s].valid
      /\ \A c : s \in ItemsFor(c) <=> reservations[s].valid /\ reservations[s].addr = c
  BY <1>4, ItemWritten
<1>6. /\ Invalid \in SUBSET Slots /\ \A c : ItemsFor(c) \in SUBSET Slots
  BY DEF Invalid, ItemsFor
<1>7. FreeItems' = Cardinality(Invalid \ {s})
  BY <1>5 DEF FreeItems
<1>8. HeldItems' = [c \in Arch!Words |-> Cardinality(ItemsFor(c)')]
  BY DEF HeldItems
<1>9. /\ FreeItems \in Nat /\ (FreeItems = 0 <=> Invalid = {})
      /\ HeldItems \in [Arch!Words -> Nat]
      /\ \A c \in Arch!Words : HeldItems[c] = 0 <=> ItemsFor(c) = {}
      /\ \A c \in Arch!Words : HeldItems[c] = Cardinality(ItemsFor(c))
  BY Tickets
<1>10. CASE Invalid # {}
  <2>1. s \in Invalid
    BY <1>2, <1>6, <1>10, FirstSlot DEF ReservationSlot
  <2>2. FreeItems' = FreeItems - 1
    BY <1>6, <1>7, <2>1, SlotSets DEF FreeItems
  <2>3. \A c : s \notin ItemsFor(c)
    BY <1>5, <2>1
  <2>4. \A c \in Arch!Words : Cardinality(ItemsFor(c)') =
                                 IF c = a THEN HeldItems[c] + 1 ELSE HeldItems[c]
    <3> SUFFICES ASSUME NEW c \in Arch!Words
                 PROVE  Cardinality(ItemsFor(c)') =
                           IF c = a THEN HeldItems[c] + 1 ELSE HeldItems[c]
      OBVIOUS
    <3>1. CASE c = a
      <4>1. ItemsFor(c)' = ItemsFor(c) \cup {s}
        BY <1>5, <3>1
      <4> QED BY <1>6, <1>9, <2>3, <3>1, <4>1, SlotSets
    <3>2. CASE c # a
      <4>1. ItemsFor(c)' = ItemsFor(c)
        BY <1>5, <2>3, <3>2
      <4> QED BY <1>9, <3>2, <4>1
    <3> QED BY <3>1, <3>2
  <2>5. HeldItems' = [HeldItems EXCEPT ![a] = HeldItems[a] + 1]
    BY <1>8, <1>9, <2>4
  <2> QED BY <1>9, <1>10, <2>2, <2>5
<1>11. CASE Invalid = {}
  <2>1. PICK b \in Arch!Words : b = reservations[s].addr /\ reservations[s].valid
    BY <1>5, <1>11 DEF AtomicInv, TypeOK, Item
  <2>2. \A c : s \in ItemsFor(c) <=> b = c
    BY <1>5, <2>1
  <2>3. FreeItems' = FreeItems /\ FreeItems = 0
    <3>1. Invalid \ {s} = Invalid
      BY <1>11
    <3> QED BY <1>7, <1>9, <1>11, <3>1 DEF FreeItems
  <2>4. HeldItems[b] > 0
    BY <1>9, <2>2
  <2>5. \A c \in Arch!Words : Cardinality(ItemsFor(c)') =
            HeldItems[c] + (IF c = a THEN 1 ELSE 0) - (IF c = b THEN 1 ELSE 0)
    <3> SUFFICES ASSUME NEW c \in Arch!Words
                 PROVE  Cardinality(ItemsFor(c)') =
                           HeldItems[c] + (IF c = a THEN 1 ELSE 0) - (IF c = b THEN 1 ELSE 0)
      OBVIOUS
    <3>0. HeldItems[c] \in Int /\ HeldItems[c] = Cardinality(ItemsFor(c))
      BY <1>9
    <3>1. CASE c = a /\ c = b
      <4>1. ItemsFor(c)' = ItemsFor(c)
        BY <1>5, <2>2, <3>1
      <4> QED BY <3>0, <3>1, <4>1
    <3>2. CASE c = a /\ c # b
      <4>1. ItemsFor(c)' = ItemsFor(c) \cup {s} /\ s \notin ItemsFor(c)
        BY <1>5, <2>2, <3>2
      <4>2. Cardinality(ItemsFor(c) \cup {s}) = Cardinality(ItemsFor(c)) + 1
        BY <1>6, <4>1, SlotSets
      <4> QED BY <3>0, <3>2, <4>1, <4>2
    <3>3. CASE c # a /\ c = b
      <4>1. ItemsFor(c)' = ItemsFor(c) \ {s} /\ s \in ItemsFor(c)
        BY <1>5, <2>2, <3>3
      <4>2. Cardinality(ItemsFor(c) \ {s}) = Cardinality(ItemsFor(c)) - 1
        BY <1>6, <4>1, SlotSets
      <4> QED BY <3>0, <3>3, <4>1, <4>2
    <3>4. CASE c # a /\ c # b
      <4>1. ItemsFor(c)' = ItemsFor(c)
        BY <1>5, <2>2, <3>4
      <4> QED BY <3>0, <3>4, <4>1
    <3> QED BY <3>1, <3>2, <3>3, <3>4
  <2> QED BY <1>8, <2>3, <2>4, <2>5
<1> QED BY <1>10, <1>11

\* sc uses one up.
LEMMA ScUses ==
    ASSUME AtomicInv, NEW a \in Arch!Words, Matching(a) # {},
           reservations' = [reservations EXCEPT ![FirstMatching(a)].valid = FALSE]
    PROVE  /\ HeldItems[a] > 0
           /\ FreeItems' = FreeItems + 1
           /\ HeldItems' = [HeldItems EXCEPT ![a] = HeldItems[a] - 1]
<1>1. Matching(a) = ItemsFor(a) /\ ItemsFor(a) \in SUBSET Slots /\ Invalid \in SUBSET Slots
  BY MatchingItems DEF ItemsFor, Invalid
<1>2. PICK s \in ItemsFor(a) : s = FirstMatching(a) /\ s \in Slots
  BY <1>1, FirstSlot DEF FirstMatching
<1>3. reservations \in [Slots -> Item]
  BY DEF AtomicInv, TypeOK
<1>4. PICK item \in Item : item = [reservations[s] EXCEPT !.valid = FALSE]
  BY <1>2, <1>3 DEF Item
<1>5. reservations' = [reservations EXCEPT ![s] = item] /\ ~item.valid
  BY <1>2, <1>3, <1>4 DEF Item
<1>6. /\ Invalid' = Invalid \cup {s}
      /\ \A c : ItemsFor(c)' = ItemsFor(c) \ {s}
      /\ s \in Invalid <=> ~reservations[s].valid
      /\ \A c : s \in ItemsFor(c) <=> reservations[s].valid /\ reservations[s].addr = c
  BY <1>2, <1>5, ItemWritten
<1>7. s \notin Invalid /\ \A c : s \in ItemsFor(c) <=> c = a
  BY <1>2, <1>6
<1>8. /\ FreeItems \in Nat
      /\ HeldItems \in [Arch!Words -> Nat]
      /\ \A c \in Arch!Words : HeldItems[c] = 0 <=> ItemsFor(c) = {}
      /\ \A c \in Arch!Words : HeldItems[c] = Cardinality(ItemsFor(c))
  BY Tickets
<1>9. FreeItems' = FreeItems + 1
  BY <1>1, <1>2, <1>6, <1>7, SlotSets DEF FreeItems
<1>10. HeldItems' = [c \in Arch!Words |-> Cardinality(ItemsFor(c)')]
  BY DEF HeldItems
<1>11. \A c \in Arch!Words : Cardinality(ItemsFor(c)') =
                                IF c = a THEN HeldItems[c] - 1 ELSE HeldItems[c]
  <2> SUFFICES ASSUME NEW c \in Arch!Words
               PROVE  Cardinality(ItemsFor(c)') =
                         IF c = a THEN HeldItems[c] - 1 ELSE HeldItems[c]
    OBVIOUS
  <2>1. CASE c = a
    <3>1. Cardinality(ItemsFor(a) \ {s}) = Cardinality(ItemsFor(a)) - 1
      BY <1>1, <1>2, SlotSets
    <3> QED BY <1>6, <1>8, <2>1, <3>1
  <2>2. CASE c # a
    <3>1. ItemsFor(c)' = ItemsFor(c)
      BY <1>6, <1>7, <2>2
    <3> QED BY <1>8, <2>2, <3>1
  <2> QED BY <2>1, <2>2
<1>12. HeldItems' = [HeldItems EXCEPT ![a] = HeldItems[a] - 1]
  BY <1>8, <1>10, <1>11
<1>13. HeldItems[a] > 0
  BY <1>2, <1>8
<1> QED BY <1>9, <1>12, <1>13

\* What leaves the table alone leaves the tickets alone.
LEMMA TicketsUntouched ==
    ASSUME UNCHANGED reservations
    PROVE  HeldItems' = HeldItems /\ FreeItems' = FreeItems
<1>1. Invalid' = Invalid /\ \A c : ItemsFor(c)' = ItemsFor(c)
  BY DEF Invalid, ItemsFor
<1> QED BY <1>1 DEF HeldItems, FreeItems

\* An amo is a step of the abstract memory.
LEMMA AmoRefines ==
    ASSUME AtomicInv, NEW i \in Instrs, i.f \in Arch!AMO, instr' = i,
           amo_slowpath(i.f, i.rd, i.rs1, i.rs2)
    PROVE  Arch!Execute(i)
<1>1. TypeOK /\ i.rd \in Arch!Regs /\ i.rs1 \in Arch!Regs /\ i.rs2 \in Arch!Regs
  BY GuestAssumption DEF AtomicInv
<1>2. PICK a \in Arch!Words, v \in Arch!Words, d \in Arch!Regs, f \in Arch!AMO :
         a = regs[i.rs1] /\ v = regs[i.rs2] /\ d = i.rd /\ f = i.f
  BY <1>1 DEF TypeOK
<1>3. (Faults(a) <=> ~Arch!Reaches(a)) /\ (~Faults(a) => Load(a) \in Arch!Words)
  BY <1>1, Mapped
<1>4. CASE Faults(a)
  <2>1. raise_exception(regs)
    BY <1>2, <1>4 DEF amo_slowpath
  <2>2. HeldItems' = HeldItems /\ FreeItems' = FreeItems
    BY <2>1, TicketsUntouched DEF raise_exception, table_vars
  <2>3. Arch!Trap(f, d, a)
    BY <1>3, <1>4, <2>1, <2>2
       DEF Arch!Trap, raise_exception, HeldItems, FreeItems, Invalid, Arch!Words
  <2> QED BY <1>2, <2>3 DEF Arch!Execute
<1>5. CASE ~Faults(a)
  <2>1. PICK l \in Arch!Words : l = Load(a)
    BY <1>3, <1>5
  <2>2. /\ regs' = reset_zero([regs EXCEPT ![d] = l])
        /\ mem' = [mem EXCEPT ![map[a]] = amo_value(f, l, v)]
        /\ UNCHANGED <<map, stopped, table_vars>>
    BY <1>1, <1>2, <1>5, <2>1 DEF amo_slowpath, TypeOK
  <2>3. regs' = Arch!With(d, l)
    BY <1>1, <2>2, RegistersWritten
  <2>4. amo_value(f, l, v) = Arch!Result(f, l, v)
    BY AmoValue
  <2>5. HeldItems' = HeldItems /\ FreeItems' = FreeItems
    BY <2>2, TicketsUntouched DEF table_vars
  <2>6. Arch!Amo(f, d, a, v)
    BY <1>3, <1>5, <2>1, <2>2, <2>3, <2>4, <2>5
       DEF Arch!Amo, Load, HeldItems, FreeItems, Invalid, Arch!Words
  <2> QED BY <1>2, <2>6 DEF Arch!Execute
<1> QED BY <1>4, <1>5

\* lr, whether it faults, takes a free item or displaces one.
LEMMA LrRefines ==
    ASSUME AtomicInv, NEW i \in Instrs, i.f = 2, instr' = i, lr_slowpath(i.rd, i.rs1)
    PROVE  Arch!Execute(i)
<1>1. TypeOK /\ i.rd \in Arch!Regs /\ i.rs1 \in Arch!Regs
  BY GuestAssumption DEF AtomicInv
<1>2. PICK a \in Arch!Words, d \in Arch!Regs : a = regs[i.rs1] /\ d = i.rd
  BY <1>1 DEF TypeOK
<1>3. (Faults(a) <=> ~Arch!Reaches(a)) /\ (~Faults(a) => Load(a) \in Arch!Words)
  BY <1>1, Mapped
<1>4. CASE Faults(a)
  <2>1. raise_exception(regs)
    BY <1>2, <1>4 DEF lr_slowpath
  <2>2. HeldItems' = HeldItems /\ FreeItems' = FreeItems
    BY <2>1, TicketsUntouched DEF raise_exception, table_vars
  <2>3. Arch!Trap(2, d, a)
    BY <1>3, <1>4, <2>1, <2>2
       DEF Arch!Trap, Arch!LR, raise_exception, HeldItems, FreeItems, Invalid, Arch!Words
  <2> QED BY <1>2, <2>3 DEF Arch!Execute
<1>5. CASE ~Faults(a)
  <2>1. PICK l \in Arch!Words : l = Load(a)
    BY <1>3, <1>5
  <2>2. /\ regs' = reset_zero([regs EXCEPT ![d] = l])
        /\ MakeReservation(a)
        /\ UNCHANGED <<mem, map, stopped>>
    BY <1>2, <1>5, <2>1 DEF lr_slowpath
  <2>3. regs' = Arch!With(d, l)
    BY <1>1, <2>2, RegistersWritten
  <2>4. \/ /\ FreeItems > 0
           /\ FreeItems' = FreeItems - 1
           /\ HeldItems' = [HeldItems EXCEPT ![a] = HeldItems[a] + 1]
        \/ /\ FreeItems = 0
           /\ FreeItems' = FreeItems
           /\ \E b \in Arch!Words :
                 /\ HeldItems[b] > 0
                 /\ HeldItems' = [c \in Arch!Words |->
                                     HeldItems[c] + (IF c = a THEN 1 ELSE 0)
                                                  - (IF c = b THEN 1 ELSE 0)]
    BY <2>2, LrIssues
  <2>5. Arch!LoadReserved(d, a)
    BY <1>3, <1>5, <2>1, <2>2, <2>3, <2>4
       DEF Arch!LoadReserved, Load, HeldItems, FreeItems, Invalid, Arch!Words
  <2> QED BY <1>2, <2>5 DEF Arch!Execute, Arch!LR
<1> QED BY <1>4, <1>5

\* sc, whether it faults, succeeds or finds no reservation.
LEMMA ScRefines ==
    ASSUME AtomicInv, NEW i \in Instrs, i.f = 3, instr' = i, sc_slowpath(i.rd, i.rs1, i.rs2)
    PROVE  Arch!Execute(i)
<1>1. TypeOK /\ i.rd \in Arch!Regs /\ i.rs1 \in Arch!Regs /\ i.rs2 \in Arch!Regs
  BY GuestAssumption DEF AtomicInv
<1>2. PICK a \in Arch!Words, v \in Arch!Words, d \in Arch!Regs :
         a = regs[i.rs1] /\ v = regs[i.rs2] /\ d = i.rd
  BY <1>1 DEF TypeOK
<1>3. Faults(a) <=> ~Arch!Reaches(a)
  BY <1>1, Mapped
<1>4. /\ HeldItems[a] \in Nat
      /\ HeldItems[a] = 0 <=> Matching(a) = {}
  BY Tickets, MatchingItems
<1>5. 0 \in Arch!Words /\ 1 \in Arch!Words
  BY <1>1, Typed
<1>6. CASE Matching(a) # {} /\ Faults(a)
  <2>1. raise_exception([regs EXCEPT ![d] = 0])
    BY <1>2, <1>6 DEF sc_slowpath
  <2>2. HeldItems' = HeldItems /\ FreeItems' = FreeItems
    BY <2>1, TicketsUntouched DEF raise_exception, table_vars
  <2>3. regs' = Arch!With(d, 0)
    BY <1>1, <1>5, <2>1, RegistersWritten DEF raise_exception
  <2>4. HeldItems[a] > 0
    BY <1>4, <1>6
  <2>5. Arch!Trap(3, d, a)
    BY <1>3, <1>6, <2>1, <2>2, <2>3, <2>4
       DEF Arch!Trap, Arch!SC, raise_exception, HeldItems, FreeItems, Invalid, Arch!Words
  <2> QED BY <1>2, <2>5 DEF Arch!Execute
<1>7. CASE Matching(a) # {} /\ ~Faults(a)
  <2>1. /\ regs' = reset_zero([regs EXCEPT ![d] = 0])
        /\ mem' = [mem EXCEPT ![map[a]] = v]
        /\ reservations' = [reservations EXCEPT ![FirstMatching(a)].valid = FALSE]
        /\ UNCHANGED <<map, stopped>>
    BY <1>2, <1>7 DEF sc_slowpath
  <2>2. regs' = Arch!With(d, 0)
    BY <1>1, <1>5, <2>1, RegistersWritten
  <2>3. /\ HeldItems[a] > 0
        /\ FreeItems' = FreeItems + 1
        /\ HeldItems' = [HeldItems EXCEPT ![a] = HeldItems[a] - 1]
    BY <1>7, <2>1, ScUses
  <2>4. Arch!StoreConditional(d, a, v)
    BY <1>3, <1>7, <2>1, <2>2, <2>3
       DEF Arch!StoreConditional, HeldItems, FreeItems, Invalid, Arch!Words
  <2> QED BY <1>2, <2>4 DEF Arch!Execute, Arch!SC
<1>8. CASE Matching(a) = {}
  <2>1. /\ regs' = reset_zero([regs EXCEPT ![d] = 1])
        /\ UNCHANGED <<mem, map, stopped, table_vars>>
    BY <1>2, <1>8 DEF sc_slowpath
  <2>2. regs' = Arch!With(d, 1)
    BY <1>1, <1>5, <2>1, RegistersWritten
  <2>3. HeldItems' = HeldItems /\ FreeItems' = FreeItems
    BY <2>1, TicketsUntouched DEF table_vars
  <2>4. HeldItems[a] = 0
    BY <1>4, <1>8
  <2>5. Arch!StoreConditional(d, a, v)
    BY <2>1, <2>2, <2>3, <2>4
       DEF Arch!StoreConditional, HeldItems, FreeItems, Invalid, Arch!Words
  <2> QED BY <1>2, <2>5 DEF Arch!Execute, Arch!SC
<1> QED BY <1>6, <1>7, <1>8

\* So is every step, or it changes nothing of the abstract memory.
LEMMA AtomicRefines ==
    ASSUME AtomicInv, [Next]_vars PROVE [Arch!Next]_(Arch!vars)
<1>1. ASSUME NEW i \in Instrs, amo_instruction(i) PROVE Arch!Next
  <2>1. instr' = i /\ ~stopped
    BY <1>1 DEF amo_instruction
  <2>2. CASE i.f \in Arch!AMO /\ amo_slowpath(i.f, i.rd, i.rs1, i.rs2)
    BY <2>1, <2>2, AmoRefines DEF Arch!Next
  <2>3. CASE i.f = 2 /\ lr_slowpath(i.rd, i.rs1)
    BY <2>1, <2>3, LrRefines DEF Arch!Next
  <2>4. CASE i.f = 3 /\ sc_slowpath(i.rd, i.rs1, i.rs2)
    BY <2>1, <2>4, ScRefines DEF Arch!Next
  <2>5. CASE /\ i.f \notin {0, 1, 2, 3, 4, 8, 12} /\ stopped' = TRUE
             /\ UNCHANGED <<regs, mem, map, table_vars, reserved, last_sc>>
    <3>1. HeldItems' = HeldItems /\ FreeItems' = FreeItems
      BY <2>5, TicketsUntouched DEF table_vars
    <3>2. Arch!Stop(i.f)
      BY <2>5, <3>1 DEF Arch!Stop, Arch!AMO, Arch!LR, Arch!SC,
                        HeldItems, FreeItems, Invalid, Arch!Words
    <3> QED BY <2>1, <3>2 DEF Arch!Next, Arch!Execute
  <2> QED BY <1>1, <2>2, <2>3, <2>4, <2>5 DEF amo_instruction, Arch!AMO
<1>2. ASSUME NEW r \in Contexts, LoadContext(r) PROVE Arch!Next
  <2>1. HeldItems' = HeldItems /\ FreeItems' = FreeItems
    BY <1>2, TicketsUntouched DEF LoadContext, table_vars
  <2>2. Arch!LoadContext(r)
    BY <1>2, <2>1 DEF LoadContext, Arch!LoadContext, HeldItems, FreeItems, Invalid, Arch!Words
  <2> QED BY <1>2, <2>2 DEF LoadContext, Arch!Next
<1>3. ASSUME NEW m \in Maps, Remap(m) PROVE Arch!Next
  <2>1. HeldItems' = HeldItems /\ FreeItems' = FreeItems
    BY <1>3, TicketsUntouched DEF Remap, table_vars
  <2>2. Arch!Remap(m)
    BY <1>3, <2>1 DEF Remap, Arch!Remap, HeldItems, FreeItems, Invalid, Arch!Words
  <2> QED BY <1>3, <2>2 DEF Remap, Arch!Next
<1>4. ASSUME UNCHANGED vars PROVE UNCHANGED Arch!vars
  <2>1. HeldItems' = HeldItems /\ FreeItems' = FreeItems
    BY <1>4, TicketsUntouched DEF vars, table_vars
  <2> QED BY <1>4, <2>1 DEF vars, Arch!vars, HeldItems, FreeItems, Invalid, Arch!Words
<1> QED BY <1>1, <1>2, <1>3, <1>4 DEF Next, Stopped

\* The empty table stands for all tickets free.
LEMMA AtomicInitRefines == Init => Arch!Init
<1> SUFFICES ASSUME Init PROVE Arch!Init
  OBVIOUS
<1>1. AtomicInv
  BY AtomicInit
<1>2. Invalid = Slots /\ \A c : ItemsFor(c) = {}
  BY DEF Init, NoItem, Invalid, ItemsFor
<1>3. FreeItems = MAX_RESERVATION_ITEMS
  <2>1. Cardinality(Slots) = MAX_RESERVATION_ITEMS
    BY FS_Interval, TableAssumption DEF Slots
  <2> QED BY <1>2, <2>1 DEF FreeItems
<1>4. HeldItems = [a \in Arch!Words |-> 0]
  BY <1>1, <1>2, Tickets DEF HeldItems
<1> QED BY <1>3, <1>4
        DEF Init, Arch!Init, HeldItems, FreeItems, Invalid, Arch!Words

\* For every width and table: the slow paths (amo_instruction_slowpath) keep
\* registers, memory and table in their types, and x0 zero between instructions.
THEOREM AtomicTypeTheorem == Spec => []TypeOK
<1>1. AtomicInv /\ [Next]_vars => AtomicInv'
  BY AtomicStep
<1>2. AtomicInv => TypeOK
  BY DEF AtomicInv
<1> QED BY AtomicInit, <1>1, <1>2, PTL DEF Spec

\* For every width and table: the slow paths of translate_amo.c implement the
\* abstract atomic memory, with a ticket for every valid item of the table.
THEOREM AtomicRefinementTheorem == Spec => ImplementsAtomicMemory
<1>1. AtomicInv /\ [Next]_vars => AtomicInv'
  BY AtomicStep
<1>2. AtomicInv /\ [Next]_vars => [Arch!Next]_(Arch!vars)
  BY AtomicRefines
<1> QED BY AtomicInit, AtomicInitRefines, <1>1, <1>2, PTL
        DEF Spec, ImplementsAtomicMemory, Arch!Spec
=============================================================================
