-------------------------- MODULE PcMappingProofs ---------------------------
(***************************************************************************)
(* Proofs about the mapping array, for arrays of any size.  That indices   *)
(* stay inside it holds for all program counters; that it is in order and  *)
(* searched rightly, for ones that lie less than half the address space    *)
(* apart (Windowed).  Without that condition the order of                  *)
(* comparing_mapping_item is none, and those theorems fail: see the run    *)
(* pc_mapping_wrap.                                                        *)
(*                                                                         *)
(* ArrayInOrder is not inductive by itself.  During an insertion all items *)
(* but the last are in order, and the loops keep everything left of low    *)
(* below the key and everything right of high above it.                    *)
(***************************************************************************)
EXTENDS PcMapping, TLAPS

Windowed == \A p, q \in Pcs : 2 * (p - q) < Modulus

Indices == 1 .. Len(mappings)

\* The items that are in their place: all but one that is being inserted.
Settled == IF op \in {"insert", "shift"} THEN Len(mappings) - 1 ELSE Len(mappings)

\* The settled items left of l are below the key, those right of h above it.
KeyIsBetween(l, h) ==
    \A i \in 1 .. Settled : (i < l => Pc(i) < key) /\ (i > h => key < Pc(i))

LoopBounds ==
    op \in {"search", "insert"} =>
        /\ low >= 1
        /\ high <= Settled
        /\ low <= high \/ low = 1
        /\ KeyIsBetween(low, high)

\* The item to be inserted is the last, and its address is new.
InsertionUnderWay ==
    op \in {"insert", "shift"} =>
        /\ Len(mappings) >= 1
        /\ Pc(Len(mappings)) = key
        /\ \A i \in 1 .. Settled : Pc(i) # key
        /\ op = "insert" => move = 1
        /\ op = "shift" => move \in Indices /\ KeyIsBetween(move, move - 1)

KeyIsStored ==
    phase = "verify" /\ op \in {"search", "answered"} => \E i \in Indices : Pc(i) = key

SettledInOrder == \A i, j \in 1 .. Settled : i < j => Pc(i) < Pc(j)

\* AnswerIsRight, in terms of the array.
AnswerMatchesArray ==
    op = "answered" =>
        \/ answer \in Indices /\ Pc(answer) = key
        \/ answer = 0 /\ \A i \in Indices : Pc(i) # key

ArrayIsStored == {mappings[i] : i \in Indices} = stored

PcInv ==
    /\ TypeOK
    /\ SettledInOrder
    /\ ArrayIsStored
    /\ LoopBounds
    /\ InsertionUnderWay
    /\ KeyIsStored
    /\ AnswerMatchesArray
    /\ CommitAssertHolds

----------------------------------------------------------------------------
\* A remainder of a number within one modulus of zero.
LEMMA SmallRemainder ==
    ASSUME NEW m \in Nat \ {0}, NEW x \in Int, -m < x, x < m
    PROVE  x % m = IF x >= 0 THEN x ELSE x + m
OBVIOUS

\* Within the window the signed difference orders addresses as numbers.
LEMMA ComparesAsNumbers ==
    ASSUME Windowed, NEW a \in Pcs, NEW b \in Pcs
    PROVE  comparing_mapping_item(a, b) = a - b
<1>1. /\ a \in 0 .. Modulus - 1 /\ b \in 0 .. Modulus - 1
      /\ Modulus \in Nat \ {0}
  BY PcMappingAssumption
<1>2. 2 * (a - b) < Modulus /\ 2 * (b - a) < Modulus
  BY DEF Windowed
<1>3. (a - b) % Modulus = IF a - b >= 0 THEN a - b ELSE a - b + Modulus
  <2>1. a - b \in Int /\ -Modulus < a - b /\ a - b < Modulus
    BY <1>1
  <2> QED BY <1>1, <2>1, SmallRemainder
<1> QED BY <1>1, <1>2, <1>3 DEF comparing_mapping_item

\* The middle lies between the bounds, and coincides with one of them only when
\* nothing is left in between.
LEMMA MidIsBetween ==
    ASSUME NEW l \in Nat, NEW h \in Nat, 1 <= l, l <= h
    PROVE  /\ Mid(l, h) \in Nat
           /\ l <= Mid(l, h) /\ Mid(l, h) <= h
           /\ (Mid(l, h) = l \/ Mid(l, h) = h) => h <= l + 1
           /\ Mid(l, h) = h => h = l
BY DEF Mid

LEMMA PcOfIndex ==
    ASSUME TypeOK, NEW i \in Indices
    PROVE  Pc(i) \in Pcs /\ Pc(i) \in Int /\ key \in Int /\ mappings[i] \in Entry
<1>1. mappings[i] \in Entry
  BY DEF TypeOK, Indices
<1>2. Pc(i) \in Pcs
  BY <1>1 DEF Pc, Entry
<1>3. key \in Pcs
  BY DEF TypeOK
<1>4. \A p \in Pcs : p \in Int
  BY PcMappingAssumption
<1> QED BY <1>1, <1>2, <1>3, <1>4

----------------------------------------------------------------------------
LEMMA PcInit == Init => PcInv
BY PcMappingAssumption DEF Init, PcInv, TypeOK, SettledInOrder, Settled, ArrayIsStored,
    Indices, LoopBounds, InsertionUnderWay, KeyIsStored, AnswerMatchesArray,
    CommitAssertHolds

LEMMA LookupStep ==
    ASSUME PcInv, NEW pc \in Pcs, Lookup(pc)
    PROVE  PcInv'
BY PcMappingAssumption DEF PcInv, Lookup, BeginSearch, TypeOK, SettledInOrder, Settled,
    ArrayIsStored, Indices, LoopBounds, KeyIsBetween, InsertionUnderWay, KeyIsStored,
    AnswerMatchesArray, CommitAssertHolds, Pc

\* A search that ends has the item of the key, or there is none.
LEMMA SearchStep ==
    ASSUME Windowed, PcInv, SearchLoop
    PROVE  PcInv'
<1> DEFINE mid == Mid(low, high)
           n == Len(mappings)
<1>1. /\ op = "search" /\ Settled = n /\ n \in Nat /\ Indices = 1 .. n
      /\ low \in Nat /\ high \in Nat /\ low >= 1 /\ high <= n
      /\ low <= high \/ low = 1
      /\ KeyIsBetween(low, high)
      /\ UNCHANGED <<mappings, phase, key, move, stored>>
  BY DEF PcInv, SearchLoop, LoopBounds, Settled, TypeOK, Indices
<1>2. \A i \in 1 .. n : /\ comparing_mapping_item(key, Pc(i)) = key - Pc(i)
                        /\ Pc(i) \in Int /\ key \in Int
  BY <1>1, ComparesAsNumbers, PcOfIndex DEF PcInv, TypeOK
<1>3. \A i, j \in 1 .. n : i < j => Pc(i) < Pc(j)
  BY <1>1 DEF PcInv, SettledInOrder
<1>4. low <= high => /\ mid \in Nat /\ low <= mid /\ mid <= high
                     /\ (mid = low \/ mid = high) => high <= low + 1
  BY <1>1, MidIsBetween
<1> HIDE DEF mid
<1>5. CASE Answer(0) /\ \A i \in 1 .. n : Pc(i) # key
  BY <1>1, <1>5 DEF Answer, PcInv, TypeOK, SettledInOrder, Settled, ArrayIsStored,
     Indices, LoopBounds, InsertionUnderWay, KeyIsStored, AnswerMatchesArray,
     CommitAssertHolds, Pc
<1>6. ASSUME NEW i \in 1 .. n, Answer(i), Pc(i) = key PROVE PcInv'
  BY <1>1, <1>6 DEF Answer, PcInv, TypeOK, SettledInOrder, Settled, ArrayIsStored,
     Indices, LoopBounds, InsertionUnderWay, KeyIsStored, AnswerMatchesArray,
     CommitAssertHolds, Pc
<1>7. CASE low > high
  <2>1. \A i \in 1 .. n : Pc(i) # key
    BY <1>1, <1>2, <1>7 DEF KeyIsBetween
  <2> QED BY <1>5, <1>7, <2>1 DEF SearchLoop
<1>8. CASE low <= high /\ comparing_mapping_item(key, Pc(low)) = 0
  <2>1. low \in 1 .. n /\ Pc(low) = key
    BY <1>1, <1>2, <1>8
  <2>2. Answer(low)
    BY <1>1, <1>8 DEF SearchLoop
  <2> QED BY <1>6, <2>1, <2>2
<1>9. CASE /\ low <= high /\ comparing_mapping_item(key, Pc(low)) # 0
           /\ comparing_mapping_item(key, Pc(high)) = 0
  <2>1. high \in 1 .. n /\ Pc(high) = key
    BY <1>1, <1>2, <1>9
  <2>2. Answer(high)
    BY <1>1, <1>9 DEF SearchLoop
  <2> QED BY <1>6, <2>1, <2>2
<1>10. CASE /\ low <= high /\ comparing_mapping_item(key, Pc(low)) # 0
            /\ comparing_mapping_item(key, Pc(high)) # 0
            /\ Stuck(mid)
  <2>1. Pc(low) # key /\ Pc(high) # key
    BY <1>1, <1>2, <1>10
  <2>2. high <= low + 1
    BY <1>4, <1>10 DEF Stuck
  <2>3. ASSUME NEW i \in 1 .. n PROVE Pc(i) # key
    <3>1. CASE i < low
      BY <1>1, <1>2, <3>1 DEF KeyIsBetween
    <3>2. CASE i > high
      BY <1>1, <1>2, <3>2 DEF KeyIsBetween
    <3>3. CASE i = low \/ i = high
      BY <2>1, <3>3
    <3> QED BY <1>1, <2>2, <3>1, <3>2, <3>3
  <2>4. Answer(0)
    BY <1>1, <1>10 DEF SearchLoop, mid
  <2> QED BY <1>5, <2>3, <2>4
<1>11. CASE /\ low <= high /\ comparing_mapping_item(key, Pc(low)) # 0
            /\ comparing_mapping_item(key, Pc(high)) # 0
            /\ ~Stuck(mid)
  <2>1. Narrow(mid) /\ UNCHANGED <<op, answer>>
    BY <1>1, <1>11 DEF SearchLoop, mid
  <2>2. mid \in 1 .. n /\ low < mid /\ mid < high
    BY <1>1, <1>4, <1>11 DEF Stuck
  <2>3. low' >= 1 /\ high' <= n /\ low' <= high' /\ low' \in Nat /\ high' \in Nat
    BY <1>1, <2>1, <2>2 DEF Narrow
  <2>4. ASSUME NEW i \in 1 .. n
        PROVE  (i < low' => Pc(i) < key) /\ (i > high' => key < Pc(i))
    <3>1. CASE key < Pc(mid)
      <4>1. low' = low /\ high' = mid
        BY <1>2, <2>1, <2>2, <3>1 DEF Narrow
      <4>2. i > mid => Pc(mid) < Pc(i)
        BY <1>3, <2>2
      <4> QED BY <1>1, <1>2, <2>2, <3>1, <4>1, <4>2 DEF KeyIsBetween
    <3>2. CASE ~ (key < Pc(mid))
      <4>1. low' = mid /\ high' = high
        BY <1>2, <2>1, <2>2, <3>2 DEF Narrow
      <4>2. i < mid => Pc(i) < Pc(mid)
        BY <1>3, <2>2
      <4> QED BY <1>1, <1>2, <2>2, <3>2, <4>1, <4>2 DEF KeyIsBetween
    <3> QED BY <3>1, <3>2
  <2>5. LoopBounds'
    BY <1>1, <2>1, <2>3, <2>4 DEF LoopBounds, KeyIsBetween, Settled, Pc
  <2> QED BY <1>1, <2>1, <2>3, <2>5 DEF PcInv, TypeOK, SettledInOrder, Settled, ArrayIsStored,
     Indices, InsertionUnderWay, KeyIsStored, AnswerMatchesArray, CommitAssertHolds, Pc
<1> QED BY <1>1, <1>7, <1>8, <1>9, <1>10, <1>11

\* The item goes behind the others.
LEMMA BeginInsertStep ==
    ASSUME PcInv, BeginInsert
    PROVE  PcInv'
<1> DEFINE n == Len(mappings)
           item == [guest_pc |-> key, tc_offset |-> n]
<1>1. /\ op = "answered" /\ phase = "lookup" /\ answer = 0
      /\ n \in Nat /\ n < MaxInstr /\ key \in Pcs /\ mappings \in Seq(Entry)
      /\ op' = "insert" /\ low' = 1 /\ high' = n /\ move' = 1
      /\ UNCHANGED <<phase, key, answer>>
      /\ mappings' = Append(mappings, item)
      /\ stored' = stored \cup {item}
  BY DEF PcInv, TypeOK, BeginInsert, HasRoom
<1>2. item \in Entry
  BY <1>1, PcMappingAssumption DEF Entry
<1>3. /\ mappings' \in Seq(Entry) /\ Len(mappings') = n + 1
      /\ mappings'[n + 1] = item
      /\ \A i \in 1 .. n : mappings'[i] = mappings[i]
  <2> HIDE DEF item
  <2> QED BY <1>1, <1>2
<1>4. TypeOK'
  BY <1>1, <1>2, <1>3, PcMappingAssumption DEF PcInv, TypeOK
<1>5. Settled = n /\ Settled' = n /\ Indices = 1 .. n /\ Indices' = 1 .. (n + 1)
  BY <1>1, <1>3 DEF Settled, Indices
<1>6. \A i \in 1 .. n : Pc(i)' = Pc(i) /\ Pc(i) # key
  BY <1>1, <1>3, <1>5 DEF Pc, PcInv, AnswerMatchesArray
<1>7. SettledInOrder'
  BY <1>5, <1>6 DEF PcInv, SettledInOrder
<1>8. ArrayIsStored'
  <2>1. {mappings'[i] : i \in 1 .. (n + 1)} = {mappings[i] : i \in 1 .. n} \cup {item}
    BY <1>1, <1>3
  <2> QED BY <1>1, <1>5, <2>1 DEF PcInv, ArrayIsStored
<1>9. LoopBounds'
  BY <1>1, <1>5 DEF LoopBounds, KeyIsBetween
<1>10. InsertionUnderWay'
  BY <1>1, <1>3, <1>5, <1>6 DEF InsertionUnderWay, Pc
<1> QED BY <1>1, <1>4, <1>7, <1>8, <1>9, <1>10
      DEF PcInv, KeyIsStored, AnswerMatchesArray, CommitAssertHolds

\* The loop finds the place of the new item.
LEMMA InsertStep ==
    ASSUME Windowed, PcInv, InsertLoop
    PROVE  PcInv'
<1> DEFINE mid == Mid(low, high)
           n == Len(mappings) - 1
<1>1. /\ op = "insert" /\ Settled = n /\ n \in Nat /\ Indices = 1 .. (n + 1)
      /\ Len(mappings) = n + 1 /\ mappings \in Seq(Entry) /\ move = 1
      /\ low \in Nat /\ high \in Nat /\ low >= 1 /\ high <= n
      /\ low <= high \/ low = 1
      /\ KeyIsBetween(low, high)
      /\ Pc(n + 1) = key
      /\ \A i \in 1 .. n : Pc(i) # key
      /\ UNCHANGED <<mappings, phase, key, answer, stored>>
  BY DEF PcInv, InsertLoop, InsertionUnderWay, LoopBounds, Settled, TypeOK, Indices
<1>2. \A i \in 1 .. n : /\ comparing_mapping_item(key, Pc(i)) = key - Pc(i)
                        /\ comparing_mapping_item(Pc(i), key) = Pc(i) - key
                        /\ Pc(i) \in Int /\ key \in Int
  <2>1. \A i \in 1 .. n : i \in Indices
    BY <1>1
  <2>2. key \in Pcs
    BY DEF PcInv, TypeOK
  <2> QED BY <2>1, <2>2, ComparesAsNumbers, PcOfIndex DEF PcInv
<1>3. \A i, j \in 1 .. n : i < j => Pc(i) < Pc(j)
  BY <1>1 DEF PcInv, SettledInOrder
<1>4. low <= high => /\ mid \in Nat /\ low <= mid /\ mid <= high
                     /\ (mid = low \/ mid = high) => high <= low + 1
                     /\ mid = high => high = low
  BY <1>1, MidIsBetween
<1> HIDE DEF mid
<1>5. ASSUME NEW m \in 1 .. (n + 1), MoveTo(m),
             \A i \in 1 .. n : (i < m => Pc(i) < key) /\ (i > m - 1 => key < Pc(i))
      PROVE  PcInv'
  <2>1. op' = "shift" /\ move' = m /\ low' = low /\ high' = high
    BY <1>5 DEF MoveTo
  <2>2. Settled' = n /\ Indices' = Indices
    BY <1>1, <2>1 DEF Settled, Indices
  <2>3. TypeOK'
    BY <1>1, <2>1 DEF PcInv, TypeOK
  <2>4. InsertionUnderWay'
    BY <1>1, <1>5, <2>1, <2>2 DEF InsertionUnderWay, KeyIsBetween, Pc
  <2> QED BY <1>1, <2>1, <2>2, <2>3, <2>4 DEF PcInv, SettledInOrder, ArrayIsStored,
       LoopBounds, KeyIsStored, AnswerMatchesArray, CommitAssertHolds, Pc
<1>6. CASE low > high
  <2>1. MoveTo(1)
    BY <1>1, <1>6 DEF InsertLoop
  <2>2. \A i \in 1 .. n : (i < 1 => Pc(i) < key) /\ (i > 0 => key < Pc(i))
    BY <1>1, <1>6 DEF KeyIsBetween
  <2> QED BY <1>1, <1>5, <2>1, <2>2
<1>7. CASE low <= high /\ key <= Pc(low)
  <2>1. low \in 1 .. n
    BY <1>1, <1>7
  <2>2. MoveTo(low)
    BY <1>1, <1>2, <1>7, <2>1 DEF InsertLoop
  <2>3. key < Pc(low)
    BY <1>1, <1>2, <1>7, <2>1
  <2>4. ASSUME NEW i \in 1 .. n
        PROVE  (i < low => Pc(i) < key) /\ (i > low - 1 => key < Pc(i))
    <3>1. i > low => Pc(low) < Pc(i)
      BY <1>3, <2>1
    <3> QED BY <1>1, <1>2, <2>1, <2>3, <3>1 DEF KeyIsBetween
  <2> QED BY <1>1, <1>5, <2>1, <2>2, <2>4
<1>8. CASE low <= high /\ ~(key <= Pc(low)) /\ Pc(high) <= key
  <2>1. high \in 1 .. n /\ low \in 1 .. n
    BY <1>1, <1>8
  <2>2. MoveTo(high + 1)
    BY <1>1, <1>2, <1>8, <2>1 DEF InsertLoop
  <2>3. Pc(high) < key
    BY <1>1, <1>2, <1>8, <2>1
  <2>4. ASSUME NEW i \in 1 .. n
        PROVE  (i < high + 1 => Pc(i) < key) /\ (i > high => key < Pc(i))
    <3>1. i < high => Pc(i) < Pc(high)
      BY <1>3, <2>1
    <3>2. i > high => key < Pc(i)
      BY <1>1, <1>2 DEF KeyIsBetween
    <3>3. Pc(i) \in Int /\ Pc(high) \in Int /\ key \in Int
      BY <1>2, <2>1
    <3>4. i < high + 1 => i < high \/ i = high
      BY <2>1
    <3> QED BY <2>3, <3>1, <3>2, <3>3, <3>4
  <2>5. high + 1 \in 1 .. (n + 1) /\ (high + 1) - 1 = high
    BY <1>1
  <2> QED BY <1>1, <1>5, <2>2, <2>4, <2>5
<1>9. CASE low <= high /\ ~(key <= Pc(low)) /\ ~(Pc(high) <= key) /\ Stuck(mid)
  <2>1. high \in 1 .. n /\ low \in 1 .. n
    BY <1>1, <1>9
  <2>2. MoveTo(mid + 1)
    BY <1>1, <1>2, <1>9, <2>1 DEF InsertLoop, mid
  <2>3. mid = low /\ high = low + 1
    BY <1>2, <1>4, <1>9, <2>1 DEF Stuck
  <2>4. ASSUME NEW i \in 1 .. n
        PROVE  (i < low + 1 => Pc(i) < key) /\ (i > low => key < Pc(i))
    <3>1. (i < low => Pc(i) < key) /\ (i > high => key < Pc(i))
      BY <1>1, <1>2 DEF KeyIsBetween
    <3>2. Pc(low) < key /\ key < Pc(high)
      BY <1>1, <1>2, <1>9, <2>1
    <3>3. (i < low + 1 => i < low \/ i = low) /\ (i > low => i > high \/ i = high)
      BY <2>1, <2>3
    <3> QED BY <3>1, <3>2, <3>3
  <2>5. low + 1 \in 1 .. (n + 1) /\ (low + 1) - 1 = low
    BY <1>1, <2>1
  <2> QED BY <1>1, <1>5, <2>2, <2>3, <2>4, <2>5
<1>10. CASE low <= high /\ ~(key <= Pc(low)) /\ ~(Pc(high) <= key) /\ ~Stuck(mid)
  <2>1. high \in 1 .. n /\ low \in 1 .. n
    BY <1>1, <1>10
  <2>2. Narrow(mid) /\ UNCHANGED <<op, move>>
    BY <1>1, <1>2, <1>10, <2>1 DEF InsertLoop, mid
  <2>3. mid \in 1 .. n /\ low < mid /\ mid < high
    BY <1>1, <1>4, <1>10 DEF Stuck
  <2>4. low' >= 1 /\ high' <= n /\ low' <= high' /\ low' \in Nat /\ high' \in Nat
    BY <1>1, <2>2, <2>3 DEF Narrow
  <2>5. ASSUME NEW i \in 1 .. n
        PROVE  (i < low' => Pc(i) < key) /\ (i > high' => key < Pc(i))
    <3>1. CASE key < Pc(mid)
      <4>1. low' = low /\ high' = mid
        BY <1>2, <2>2, <2>3, <3>1 DEF Narrow
      <4>2. i > mid => Pc(mid) < Pc(i)
        BY <1>3, <2>3
      <4> QED BY <1>1, <1>2, <2>3, <3>1, <4>1, <4>2 DEF KeyIsBetween
    <3>2. CASE ~ (key < Pc(mid))
      <4>1. low' = mid /\ high' = high
        BY <1>2, <2>2, <2>3, <3>2 DEF Narrow
      <4>2. i < mid => Pc(i) < Pc(mid)
        BY <1>3, <2>3
      <4>3. Pc(mid) < key
        BY <1>1, <1>2, <2>3, <3>2
      <4> QED BY <1>1, <1>2, <2>3, <4>1, <4>2, <4>3 DEF KeyIsBetween
    <3> QED BY <3>1, <3>2
  <2>6. Settled' = n /\ Indices' = Indices
    BY <1>1, <2>2 DEF Settled, Indices
  <2>7. LoopBounds'
    BY <1>1, <2>2, <2>4, <2>5, <2>6 DEF LoopBounds, KeyIsBetween, Pc
  <2>8. InsertionUnderWay'
    BY <1>1, <2>2, <2>6 DEF InsertionUnderWay, Pc
  <2> QED BY <1>1, <2>2, <2>4, <2>6, <2>7, <2>8 DEF PcInv, TypeOK, SettledInOrder,
       ArrayIsStored, KeyIsStored, AnswerMatchesArray, CommitAssertHolds, Pc
<1> QED BY <1>1, <1>6, <1>7, <1>8, <1>9, <1>10

\* The move puts the whole array in order.
LEMMA ShiftStep ==
    ASSUME PcInv, Shift
    PROVE  PcInv'
<1> DEFINE n == Len(mappings)
<1>1. /\ op = "shift" /\ n \in Nat \ {0} /\ mappings \in Seq(Entry)
      /\ Settled = n - 1 /\ Indices = 1 .. n /\ move \in 1 .. n
      /\ KeyIsBetween(move, move - 1) /\ Pc(n) = key
      /\ op' = "search" /\ phase' = "verify" /\ key' = key
      /\ low' = 1 /\ high' = Len(mappings') /\ answer' = 0
      /\ UNCHANGED <<move, stored>>
      /\ mappings' = Shifted
  BY DEF PcInv, Shift, BeginSearch, InsertionUnderWay, Settled, TypeOK, Indices
<1>2. \A i \in 1 .. n : mappings[i] \in Entry
  BY <1>1
<1>3. \A i \in 1 .. n : /\ i < move => mappings'[i] = mappings[i]
                        /\ i = move => mappings'[i] = mappings[n]
                        /\ i > move => mappings'[i] = mappings[i - 1]
  BY <1>1 DEF Shifted
<1>4. \A i \in 1 .. n : mappings'[i] \in Entry
  BY <1>1, <1>2, <1>3
<1>5. mappings' \in Seq(Entry) /\ Len(mappings') = n
  BY <1>1, <1>4 DEF Shifted
<1>6. Settled' = n /\ Indices' = 1 .. n
  BY <1>1, <1>5 DEF Settled, Indices
<1>7. TypeOK'
  BY <1>1, <1>5 DEF PcInv, TypeOK
<1>8. ArrayIsStored'
  <2>1. ASSUME NEW i \in 1 .. n PROVE \E j \in 1 .. n : mappings'[i] = mappings[j]
    BY <1>1, <1>3
  <2>2. ASSUME NEW j \in 1 .. n PROVE \E i \in 1 .. n : mappings'[i] = mappings[j]
    <3>1. CASE j < move
      BY <1>3, <3>1
    <3>2. CASE j = n
      BY <1>1, <1>3, <3>2
    <3>3. CASE j >= move /\ j < n
      <4>1. j + 1 \in 1 .. n /\ j + 1 > move /\ (j + 1) - 1 = j
        BY <1>1, <3>3
      <4>2. mappings'[j + 1] = mappings[j]
        BY <1>3, <4>1
      <4> QED BY <4>1, <4>2
    <3> QED BY <1>1, <3>1, <3>2, <3>3
  <2>3. {mappings'[i] : i \in 1 .. n} = {mappings[i] : i \in 1 .. n}
    <3>1. ASSUME NEW x \in {mappings'[i] : i \in 1 .. n}
          PROVE  x \in {mappings[i] : i \in 1 .. n}
      BY <2>1
    <3>2. ASSUME NEW x \in {mappings[i] : i \in 1 .. n}
          PROVE  x \in {mappings'[i] : i \in 1 .. n}
      <4>1. PICK j \in 1 .. n : x = mappings[j]
        OBVIOUS
      <4> QED BY <2>2, <4>1
    <3> QED BY <3>1, <3>2
  <2> QED BY <1>1, <1>6, <2>3 DEF PcInv, ArrayIsStored
<1>9. /\ \A i \in 1 .. n : Pc(i) \in Int /\ key \in Int
      /\ \A i \in 1 .. n : /\ i < move => Pc(i)' = Pc(i)
                           /\ i = move => Pc(i)' = key
                           /\ i > move => Pc(i)' = Pc(i - 1)
  <2>1. \A i \in 1 .. n : Pc(i) \in Int /\ key \in Int
    BY <1>1, PcOfIndex DEF PcInv
  <2> QED BY <1>1, <1>3, <2>1 DEF Pc
<1>10. SettledInOrder'
  <2>1. \A i, j \in 1 .. (n - 1) : i < j => Pc(i) < Pc(j)
    BY <1>1 DEF PcInv, SettledInOrder
  <2>2. \A i \in 1 .. (n - 1) : (i < move => Pc(i) < key) /\ (i >= move => key < Pc(i))
    BY <1>1 DEF KeyIsBetween
  <2>3. ASSUME NEW i \in 1 .. n, NEW j \in 1 .. n, i < j PROVE Pc(i)' < Pc(j)'
    <3>1. CASE j < move
      <4>1. i \in 1 .. (n - 1) /\ j \in 1 .. (n - 1) /\ i < move
        BY <1>1, <2>3, <3>1
      <4> QED BY <1>9, <2>1, <2>3, <3>1, <4>1
    <3>2. CASE j = move
      <4>1. i \in 1 .. (n - 1) /\ i < move
        BY <1>1, <2>3, <3>2
      <4> QED BY <1>9, <2>2, <3>2, <4>1
    <3>3. CASE j > move
      <4>1. j - 1 \in 1 .. (n - 1) /\ j - 1 >= move /\ j - 1 \in 1 .. n
        BY <1>1, <3>3
      <4>2. Pc(j)' = Pc(j - 1) /\ key < Pc(j - 1) /\ Pc(j - 1) \in Int
        BY <1>9, <2>2, <3>3, <4>1
      <4>3. CASE i < move
        <5>1. i \in 1 .. (n - 1) /\ Pc(i)' = Pc(i)
          BY <1>1, <1>9, <4>3
        <5>2. Pc(i) < key /\ Pc(i) \in Int /\ key \in Int
          BY <1>9, <2>2, <4>3, <5>1
        <5> QED BY <4>2, <5>1, <5>2
      <4>4. CASE i = move
        BY <1>9, <4>2, <4>4
      <4>5. CASE i > move
        <5>1. i - 1 \in 1 .. (n - 1) /\ i - 1 < j - 1
          BY <1>1, <2>3, <4>1, <4>5
        <5>2. Pc(i - 1) < Pc(j - 1)
          BY <2>1, <4>1, <5>1
        <5> QED BY <1>9, <4>2, <4>5, <5>2
      <4> QED BY <1>1, <4>3, <4>4, <4>5
    <3> QED BY <1>1, <3>1, <3>2, <3>3
  <2> QED BY <1>6, <2>3 DEF SettledInOrder
<1>11. LoopBounds'
  BY <1>1, <1>5, <1>6 DEF LoopBounds, KeyIsBetween
<1>12. KeyIsStored'
  BY <1>1, <1>6, <1>9 DEF KeyIsStored
<1> QED BY <1>1, <1>7, <1>8, <1>10, <1>11, <1>12
      DEF PcInv, InsertionUnderWay, AnswerMatchesArray, CommitAssertHolds

LEMMA FinishStep ==
    ASSUME PcInv, FinishCommit \/ FinishLookup
    PROVE  PcInv'
<1>1. op = "answered" /\ op' = "idle"
  BY DEF PcInv, FinishCommit, FinishLookup, KeyIsStored, AnswerMatchesArray, Indices
<1>2. UNCHANGED <<mappings, phase, key, low, high, move, answer, stored>>
  BY DEF FinishCommit, FinishLookup
<1> QED BY <1>1, <1>2 DEF PcInv, TypeOK, SettledInOrder, Settled, ArrayIsStored,
      Indices, LoopBounds, InsertionUnderWay, KeyIsStored, AnswerMatchesArray,
      CommitAssertHolds, Pc

LEMMA FlushStep ==
    ASSUME PcInv, flush_translation_cache
    PROVE  PcInv'
BY PcMappingAssumption DEF PcInv, flush_translation_cache, TypeOK, SettledInOrder, Settled,
    ArrayIsStored, Indices, LoopBounds, InsertionUnderWay, KeyIsStored,
    AnswerMatchesArray, CommitAssertHolds, Pc

LEMMA PcStep ==
    ASSUME Windowed
    PROVE  PcInv /\ [Next]_vars => PcInv'
<1> SUFFICES ASSUME PcInv, [Next]_vars PROVE PcInv'
  OBVIOUS
<1>1. CASE UNCHANGED vars
  BY <1>1 DEF vars, PcInv, TypeOK, SettledInOrder, Settled, ArrayIsStored, Indices,
     LoopBounds, KeyIsBetween, InsertionUnderWay, KeyIsStored, AnswerMatchesArray,
     CommitAssertHolds, Pc
<1> QED BY <1>1, LookupStep, SearchStep, BeginInsertStep, InsertStep, ShiftStep, FinishStep,
      FlushStep DEF Next

----------------------------------------------------------------------------
LEMMA PcInvImplies ==
    ASSUME PcInv
    PROVE  ArrayInOrder /\ AnswerIsRight /\ CommitAssertHolds
<1>1. ArrayInOrder
  BY DEF PcInv, ArrayInOrder, ArrayIsStored, SettledInOrder, Settled, Indices
<1>2. (\E e \in stored : e.guest_pc = key) <=> (\E i \in Indices : Pc(i) = key)
  BY DEF PcInv, ArrayIsStored, Pc
<1>3. AnswerIsRight
  BY <1>2, PcMappingAssumption DEF PcInv, AnswerIsRight, AnswerMatchesArray, TypeOK, Indices
<1> QED BY <1>1, <1>3 DEF PcInv

----------------------------------------------------------------------------
(* The indices, whatever the order *)

\* The loops look only at items that are there, and the move stays in the array.
IndicesInArray ==
    /\ op \in {"search", "insert"} =>
           low >= 1 /\ high <= Settled /\ (low <= high \/ low = 1)
    /\ op \in {"insert", "shift"} => Len(mappings) >= 1
    /\ op = "insert" => move = 1
    /\ op = "shift" => move \in Indices

BoundsInv == TypeOK /\ IndicesInArray

\* A turn of either loop that goes on keeps its bounds in the array.
LEMMA NarrowKeepsBounds ==
    ASSUME NEW n \in Nat, NEW l \in Nat, NEW h \in Nat, 1 <= l, l <= h, h <= n,
           NEW mid, mid = Mid(l, h), l = low, h = high, ~Stuck(mid), Narrow(mid)
    PROVE  /\ low' \in Nat /\ high' \in Nat
           /\ 1 <= low' /\ low' <= high' /\ high' <= n
<1>1. mid \in Nat /\ l <= mid /\ mid <= h
  BY MidIsBetween
<1>2. \/ low' = l /\ high' = mid
      \/ low' = mid /\ high' = h
  BY DEF Narrow
<1> QED BY <1>1, <1>2

LEMMA SearchBounds ==
    ASSUME BoundsInv, SearchLoop
    PROVE  BoundsInv'
<1> DEFINE mid == Mid(low, high)
           n == Len(mappings)
<1>1. /\ op = "search" /\ Settled = n /\ n \in Nat
      /\ low \in Nat /\ high \in Nat /\ low >= 1 /\ high <= n
      /\ low <= high \/ low = 1
      /\ UNCHANGED <<mappings, phase, key, move, stored>>
  BY DEF BoundsInv, SearchLoop, IndicesInArray, Settled, TypeOK
<1>2. ASSUME NEW i \in 0 .. n, Answer(i) PROVE BoundsInv'
  BY <1>1, <1>2 DEF Answer, BoundsInv, TypeOK, IndicesInArray
<1>3. CASE low <= high /\ ~Stuck(mid) /\ Narrow(mid) /\ UNCHANGED <<op, answer>>
  <2>1. /\ low' \in Nat /\ high' \in Nat
        /\ 1 <= low' /\ low' <= high' /\ high' <= n
    BY <1>1, <1>3, NarrowKeepsBounds
  <2>2. Settled' = n
    BY <1>1, <1>3 DEF Settled
  <2> QED BY <1>1, <1>3, <2>1, <2>2 DEF BoundsInv, TypeOK, IndicesInArray
<1>4. \/ Answer(0)
      \/ low <= high /\ Answer(low)
      \/ low <= high /\ Answer(high)
      \/ low <= high /\ ~Stuck(mid) /\ Narrow(mid) /\ UNCHANGED <<op, answer>>
  BY <1>1 DEF SearchLoop
<1>5. 0 \in 0 .. n /\ (low <= high => low \in 0 .. n /\ high \in 0 .. n)
  BY <1>1
<1> HIDE DEF mid, n
<1> QED BY <1>2, <1>3, <1>4, <1>5

LEMMA InsertBounds ==
    ASSUME BoundsInv, InsertLoop
    PROVE  BoundsInv'
<1> DEFINE mid == Mid(low, high)
           n == Len(mappings) - 1
<1>1. /\ op = "insert" /\ Settled = n /\ n \in Nat /\ Len(mappings) = n + 1 /\ move = 1
      /\ low \in Nat /\ high \in Nat /\ low >= 1 /\ high <= n
      /\ low <= high \/ low = 1
      /\ UNCHANGED <<mappings, phase, key, answer, stored>>
  BY DEF BoundsInv, InsertLoop, IndicesInArray, Settled, TypeOK
<1>2. ASSUME NEW i \in 1 .. (n + 1), MoveTo(i) PROVE BoundsInv'
  BY <1>1, <1>2 DEF MoveTo, BoundsInv, TypeOK, IndicesInArray, Indices
<1>3. CASE low <= high /\ ~Stuck(mid) /\ Narrow(mid) /\ UNCHANGED <<op, move>>
  <2>1. /\ low' \in Nat /\ high' \in Nat
        /\ 1 <= low' /\ low' <= high' /\ high' <= n
    BY <1>1, <1>3, NarrowKeepsBounds
  <2>2. Settled' = n
    BY <1>1, <1>3 DEF Settled
  <2> QED BY <1>1, <1>3, <2>1, <2>2 DEF BoundsInv, TypeOK, IndicesInArray
<1>4. \/ MoveTo(1)
      \/ low <= high /\ MoveTo(low)
      \/ low <= high /\ MoveTo(high + 1)
      \/ low <= high /\ MoveTo(mid + 1)
      \/ low <= high /\ ~Stuck(mid) /\ Narrow(mid) /\ UNCHANGED <<op, move>>
  BY <1>1 DEF InsertLoop
<1>5. low <= high => mid \in Nat /\ low <= mid /\ mid <= high
  BY <1>1, MidIsBetween
<1> HIDE DEF mid
<1>6. /\ 1 \in 1 .. (n + 1)
      /\ low <= high => /\ low \in 1 .. (n + 1) /\ high + 1 \in 1 .. (n + 1)
                        /\ mid + 1 \in 1 .. (n + 1)
  BY <1>1, <1>5
<1> HIDE DEF n
<1> QED BY <1>2, <1>3, <1>4, <1>6

LEMMA ShiftBounds ==
    ASSUME BoundsInv, Shift
    PROVE  BoundsInv'
<1> DEFINE n == Len(mappings)
<1>1. /\ op = "shift" /\ n \in Nat \ {0} /\ mappings \in Seq(Entry) /\ move \in 1 .. n
      /\ op' = "search" /\ phase' = "verify" /\ key' = key
      /\ low' = 1 /\ high' = Len(mappings') /\ answer' = 0
      /\ UNCHANGED <<move, stored>>
      /\ mappings' = Shifted
  BY DEF BoundsInv, Shift, BeginSearch, IndicesInArray, TypeOK, Indices
<1>2. \A i \in 1 .. n : mappings[i] \in Entry
  BY <1>1
<1>3. mappings' \in Seq(Entry) /\ Len(mappings') = n
  BY <1>1, <1>2 DEF Shifted
<1> QED BY <1>1, <1>3 DEF BoundsInv, TypeOK, IndicesInArray, Settled

LEMMA BeginInsertBounds ==
    ASSUME BoundsInv, BeginInsert
    PROVE  BoundsInv'
<1> DEFINE n == Len(mappings)
           item == [guest_pc |-> key, tc_offset |-> n]
<1>1. /\ n \in Nat /\ n < MaxInstr /\ key \in Pcs /\ mappings \in Seq(Entry)
      /\ op' = "insert" /\ low' = 1 /\ high' = n /\ move' = 1
      /\ UNCHANGED <<phase, key, answer>>
      /\ mappings' = Append(mappings, item)
      /\ stored' = stored \cup {item}
  BY DEF BoundsInv, TypeOK, BeginInsert, HasRoom
<1>2. item \in Entry
  BY <1>1, PcMappingAssumption DEF Entry
<1>3. mappings' \in Seq(Entry) /\ Len(mappings') = n + 1
  <2> HIDE DEF item
  <2> QED BY <1>1, <1>2
<1>4. TypeOK'
  BY <1>1, <1>2, <1>3, PcMappingAssumption DEF BoundsInv, TypeOK
<1> QED BY <1>1, <1>3, <1>4 DEF BoundsInv, IndicesInArray, Settled

LEMMA BoundsStep ==
    ASSUME BoundsInv, [Next]_vars
    PROVE  BoundsInv'
<1> USE DEF BoundsInv, TypeOK, IndicesInArray, Settled, Indices
<1>1. ASSUME NEW pc \in Pcs, Lookup(pc) PROVE BoundsInv'
  BY <1>1 DEF Lookup, BeginSearch
<1>2. CASE FinishCommit \/ FinishLookup
  BY <1>2 DEF FinishCommit, FinishLookup
<1>3. CASE flush_translation_cache
  BY <1>3, PcMappingAssumption DEF flush_translation_cache
<1>4. CASE UNCHANGED vars
  BY <1>4 DEF vars
<1> QED BY <1>1, <1>2, <1>3, <1>4, SearchBounds, InsertBounds, ShiftBounds,
           BeginInsertBounds DEF Next

\* The array stays within its limit and an answer inside the array, also for
\* program counters that comparing_mapping_item does not order: SEARCH and
\* INSERTION_SORT then answer wrongly, but touch nothing outside.
THEOREM PcTypeTheorem == Spec => []TypeOK
<1>1. Init => BoundsInv
  BY PcMappingAssumption DEF Init, BoundsInv, TypeOK, IndicesInArray
<1>2. BoundsInv /\ [Next]_vars => BoundsInv'
  BY BoundsStep
<1>3. BoundsInv => TypeOK
  BY DEF BoundsInv
<1> QED BY <1>1, <1>2, <1>3, PTL DEF Spec

----------------------------------------------------------------------------
(* Order and search, for program counters in a window *)

\* For program counters within half the address space, whatever the sequence of
\* lookups, insertions and flushes: INSERTION_SORT keeps the array of
\* add_translation_item in order and loses nothing, also at its limit.
THEOREM OrderTheorem ==
    ASSUME Windowed
    PROVE  Spec => []ArrayInOrder
<1>1. PcInv /\ [Next]_vars => PcInv'
  BY PcStep
<1>2. PcInv => ArrayInOrder
  BY PcInvImplies
<1> QED BY <1>1, <1>2, PcInit, PTL DEF Spec

\* Under the same condition search_translation_item answers with the item of the
\* address if there is one, and with none otherwise.
THEOREM SearchTheorem ==
    ASSUME Windowed
    PROVE  Spec => []AnswerIsRight
<1>1. PcInv /\ [Next]_vars => PcInv'
  BY PcStep
<1>2. PcInv => AnswerIsRight
  BY PcInvImplies
<1> QED BY <1>1, <1>2, PcInit, PTL DEF Spec

\* Under the same condition the assertion of COMMIT_TRANSLATION holds: the item
\* just inserted is found again.
THEOREM CommitTheorem ==
    ASSUME Windowed
    PROVE  Spec => []CommitAssertHolds
<1>1. PcInv /\ [Next]_vars => PcInv'
  BY PcStep
<1>2. PcInv => CommitAssertHolds
  BY PcInvImplies
<1> QED BY <1>1, <1>2, PcInit, PTL DEF Spec
=============================================================================
