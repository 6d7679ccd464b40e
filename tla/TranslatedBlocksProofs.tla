----------------------- MODULE TranslatedBlocksProofs -----------------------
(***************************************************************************)
(* The translated blocks compute what the architecture asks for, with      *)
(* registers of every width and fields of every size: the four bits of the *)
(* model checked instance stand for the 32 of the code.                    *)
(*                                                                         *)
(* The host's instructions are defined by the bits they set, the           *)
(* architecture by the arithmetic of the integers.  The bridge between the *)
(* two is that a word is determined by its bits and every set of bits is   *)
(* that of a word (BitsDetermine, BitsExist), by induction on the width.   *)
(* The sections go from the bits of a number to the host's instructions    *)
(* (the lemmas named Host...), from there to the result of every           *)
(* operation, and from the operations to the blocks of every format.       *)
(***************************************************************************)
EXTENDS TranslatedBlocks, TLAPS, WellFoundedInduction

-----------------------------------------------------------------------------
(* Numbers and their bits.                                                 *)

\* Induction, from the least number that would not be in the set.
LEMMA Induct ==
    ASSUME NEW T, 0 \in T, \A n \in Nat : n \in T => n + 1 \in T PROVE Nat \subseteq T
<1> SUFFICES ASSUME NEW x \in Nat, x \notin T PROVE FALSE
  OBVIOUS
<1> DEFINE Out == {n \in Nat : n \notin T}
<1>1. IsWellFoundedOn(OpToRel(<, Nat), Nat)
  BY NatLessThanWellFounded
<1>2. PICK m \in Out : \A y \in Out : ~(<<y, m>> \in OpToRel(<, Nat))
  BY <1>1, WFMin
<1>3. m \in Nat /\ m \notin T
  BY <1>2
<1>4. m - 1 \in Nat /\ m - 1 < m /\ (m - 1) + 1 = m
  BY <1>3
<1>5. m - 1 \notin T
  BY <1>3, <1>4
<1>6. <<m - 1, m>> \in OpToRel(<, Nat)
  BY <1>3, <1>4 DEF OpToRel
<1> QED BY <1>2, <1>4, <1>5, <1>6

\* The powers of two up to the weight of a word are positive.
LEMMA Powers ==
    ASSUME NEW k \in 0 .. XLEN PROVE 2^k \in Nat \ {0}
<1> DEFINE T == {n \in Nat : n <= XLEN => 2^n \in Nat \ {0}}
<1>1. 0 \in T
  BY PowerAssumption
<1>2. ASSUME NEW n \in Nat, n \in T PROVE n + 1 \in T
  <2>1. CASE n + 1 <= XLEN
    <3>1. n \in 0 .. XLEN - 1 /\ 2^n \in Nat \ {0}
      BY <1>2, <2>1, WidthAssumption
    <3>2. 2^(n + 1) = 2 * 2^n
      BY <3>1, PowerAssumption
    <3> QED BY <3>1, <3>2
  <2> QED BY <2>1
<1> HIDE DEF T
<1>3. k \in T
  BY <1>1, <1>2, Induct, WidthAssumption
<1> QED BY <1>3 DEF T

\* A quotient and a remainder are known from any decomposition.
LEMMA Halves ==
    ASSUME NEW h \in Nat \ {0}, NEW q \in Nat, NEW r \in 0 .. h - 1
    PROVE  /\ q * h + r \in Nat
           /\ (q * h + r) \div h = q
           /\ (q * h + r) % h = r
<1>1. q * h \in Nat
  OBVIOUS
<1> DEFINE x == q * h + r
<1>2. x \in Nat /\ x \div h \in Nat /\ x % h \in 0 .. h - 1
  BY <1>1
<1>3. x = h * (x \div h) + (x % h)
  BY <1>2
<1> QED BY <1>1, <1>2, <1>3

\* Every number decomposes into a quotient and a remainder.
LEMMA Divided ==
    ASSUME NEW h \in Nat \ {0}, NEW x \in Nat
    PROVE  /\ x \div h \in Nat /\ x % h \in 0 .. h - 1
           /\ x = (x \div h) * h + (x % h)
  OBVIOUS

\* Doubling the divisor drops the lowest bit of the dividend.
LEMMA HalfOfBoth ==
    ASSUME NEW w \in Nat, NEW b \in {0, 1}, NEW m \in Nat \ {0}
    PROVE  (2 * w + b) \div (2 * m) = w \div m
<1>1. PICK q \in Nat, r \in 0 .. m - 1 : q = w \div m /\ w = q * m + r
  BY Divided
<1>2. 2 * m \in Nat \ {0} /\ 2 * r + b \in 0 .. (2 * m) - 1
  BY <1>1
<1>3. 2 * w + b = q * (2 * m) + (2 * r + b)
  <2>1. q * (2 * m) = 2 * (q * m) /\ q * m \in Nat
    BY <1>1
  <2> QED BY <1>1, <2>1
<1>4. (q * (2 * m) + (2 * r + b)) \div (2 * m) = q
  BY <1>1, <1>2, Halves
<1> QED BY <1>1, <1>3, <1>4

\* A bit appended below moves every other bit up.
LEMMA BitAbove ==
    ASSUME NEW w \in Nat, NEW b \in {0, 1}, NEW k \in 0 .. XLEN - 1
    PROVE  Bit(2 * w + b, k + 1) = Bit(w, k)
<1>1. PICK m \in Nat \ {0} : m = 2^k /\ 2^(k + 1) = 2 * m
  BY Powers, PowerAssumption, WidthAssumption
<1>2. (2 * w + b) \div (2 * m) = w \div m
  BY HalfOfBoth
<1>3. (2 * w + b) \div 2^(k + 1) = w \div 2^k
  BY <1>1, <1>2
<1> QED BY <1>3 DEF Bit

\* The bit 0 is the parity.
LEMMA BitZero ==
    ASSUME NEW w \in Nat PROVE Bit(w, 0) = w % 2
<1>1. w \div 1 = w
  OBVIOUS
<1> QED BY <1>1, PowerAssumption DEF Bit

\* What a bit appended below does to the parity and the half.
LEMMA EvenOdd ==
    ASSUME NEW w \in Nat, NEW b \in {0, 1}
    PROVE  (2 * w + b) % 2 = b /\ (2 * w + b) \div 2 = w
  OBVIOUS

\* Every number is another with a bit appended.
LEMMA Binary == ASSUME NEW x \in Nat PROVE \E c \in Nat, b \in {0, 1} : x = 2 * c + b
<1>1. x \div 2 \in Nat /\ x % 2 \in {0, 1} /\ x = 2 * (x \div 2) + (x % 2)
  OBVIOUS
<1> QED BY <1>1

\* A bit is 0 or 1.
LEMMA BitIsBit == ASSUME NEW w \in Nat, NEW k \in 0 .. XLEN PROVE Bit(w, k) \in {0, 1}
<1>1. PICK m \in Nat \ {0} : m = 2^k
  BY Powers
<1>2. w \div m \in Nat
  BY Divided
<1>3. \A q \in Nat : q % 2 \in {0, 1}
  OBVIOUS
<1> QED BY <1>1, <1>2, <1>3 DEF Bit

\* Every set of bits is that of a number.
LEMMA BitsExist ==
    ASSUME NEW n \in 0 .. XLEN, NEW S \in SUBSET (0 .. n - 1)
    PROVE  \E w \in 0 .. 2^n - 1 : \A k \in 0 .. XLEN - 1 : Bit(w, k) = 1 <=> k \in S
<1> DEFINE Is(w, R) == \A k \in 0 .. XLEN - 1 : Bit(w, k) = 1 <=> k \in R
           T == {m \in Nat : m <= XLEN =>
                     \A R \in SUBSET (0 .. m - 1) : \E w \in 0 .. 2^m - 1 : Is(w, R)}
<1>1. 0 \in T
  <2>1. 0 \in 0 .. 2^0 - 1
    BY PowerAssumption
  <2>2. \A k \in 0 .. XLEN - 1 : Bit(0, k) = 0
    <3> SUFFICES ASSUME NEW k \in 0 .. XLEN - 1 PROVE Bit(0, k) = 0
      OBVIOUS
    <3>1. PICK m \in Nat \ {0} : m = 2^k
      BY Powers, WidthAssumption
    <3>2. 0 \div m = 0 /\ 0 % 2 = 0
      OBVIOUS
    <3> QED BY <3>1, <3>2 DEF Bit
  <2>3. \A R \in SUBSET (0 .. 0 - 1) : R = {}
    OBVIOUS
  <2> QED BY <2>1, <2>2, <2>3
<1>2. ASSUME NEW m \in Nat, m \in T PROVE m + 1 \in T
  <2> SUFFICES ASSUME m + 1 <= XLEN, NEW R \in SUBSET (0 .. (m + 1) - 1)
               PROVE  \E w \in 0 .. 2^(m + 1) - 1 : Is(w, R)
    OBVIOUS
  <2>1. m \in 0 .. XLEN - 1 /\ m <= XLEN
    BY WidthAssumption
  <2> DEFINE Q == {k \in 0 .. m - 1 : k + 1 \in R}
             b == IF 0 \in R THEN 1 ELSE 0
  <2>2. PICK v \in 0 .. 2^m - 1 : Is(v, Q)
    <3>1. Q \in SUBSET (0 .. m - 1)
      OBVIOUS
    <3> QED BY <1>2, <2>1, <3>1
  <2>3. 2^m \in Nat \ {0} /\ 2^(m + 1) = 2 * 2^m
    BY <2>1, Powers, PowerAssumption
  <2>4. b \in {0, 1} /\ v \in Nat /\ 2 * v + b \in 0 .. 2^(m + 1) - 1
    BY <2>2, <2>3
  <2>5. ASSUME NEW k \in 0 .. XLEN - 1 PROVE Bit(2 * v + b, k) = 1 <=> k \in R
    <3>1. CASE k = 0
      <4>1. Bit(2 * v + b, 0) = b
        BY <2>4, BitZero, EvenOdd
      <4> QED BY <3>1, <4>1
    <3>2. CASE k # 0
      <4>1. k - 1 \in 0 .. XLEN - 1 /\ (k - 1) + 1 = k
        BY <3>2, WidthAssumption
      <4>2. Bit(2 * v + b, k) = Bit(v, k - 1)
        <5>1. PICK j \in 0 .. XLEN - 1, c \in {0, 1} : j = k - 1 /\ j + 1 = k /\ c = b
          BY <2>4, <4>1
        <5>2. Bit(2 * v + c, j + 1) = Bit(v, j)
          BY <2>4, BitAbove
        <5> QED BY <5>1, <5>2
      <4>3. k - 1 \in Q <=> k \in R
        BY <3>2, <4>1, <2>1
      <4>4. Bit(v, k - 1) = 1 <=> k - 1 \in Q
        BY <2>2, <4>1
      <4> QED BY <4>2, <4>3, <4>4
    <3> QED BY <3>1, <3>2
  <2> QED BY <2>4, <2>5
<1> HIDE DEF T
<1>3. n \in T
  BY <1>1, <1>2, Induct
<1> QED BY <1>3, WidthAssumption DEF T

\* A number is its bits.
LEMMA BitsDetermine ==
    ASSUME NEW n \in 0 .. XLEN, NEW u \in 0 .. 2^n - 1, NEW v \in 0 .. 2^n - 1,
           \A k \in 0 .. n - 1 : Bit(u, k) = Bit(v, k)
    PROVE  u = v
<1> DEFINE T == {m \in Nat : m <= XLEN =>
                     \A x, y \in 0 .. 2^m - 1 :
                         (\A k \in 0 .. m - 1 : Bit(x, k) = Bit(y, k)) => x = y}
<1>1. 0 \in T
  BY PowerAssumption
<1>2. ASSUME NEW m \in Nat, m \in T PROVE m + 1 \in T
  <2> SUFFICES ASSUME m + 1 <= XLEN,
                      NEW x \in 0 .. 2^(m + 1) - 1, NEW y \in 0 .. 2^(m + 1) - 1,
                      \A k \in 0 .. (m + 1) - 1 : Bit(x, k) = Bit(y, k)
               PROVE  x = y
    OBVIOUS
  <2>1. m \in 0 .. XLEN - 1 /\ m <= XLEN
    BY WidthAssumption
  <2>2. 2^m \in Nat \ {0} /\ 2^(m + 1) = 2 * 2^m
    BY <2>1, Powers, PowerAssumption
  <2>3. x \in Nat /\ y \in Nat
    BY <2>2
  <2>4. PICK c \in Nat, b \in {0, 1} : x = 2 * c + b
    BY <2>3, Binary
  <2>5. PICK d \in Nat, e \in {0, 1} : y = 2 * d + e
    BY <2>3, Binary
  <2>6. b = e
    BY <2>3, <2>4, <2>5, BitZero, EvenOdd
  <2>7. c \in 0 .. 2^m - 1 /\ d \in 0 .. 2^m - 1
    BY <2>2, <2>4, <2>5
  <2>8. ASSUME NEW k \in 0 .. m - 1 PROVE Bit(c, k) = Bit(d, k)
    <3>1. k + 1 \in 0 .. (m + 1) - 1 /\ k \in 0 .. XLEN - 1
      BY <2>1, WidthAssumption
    <3>2. Bit(x, k + 1) = Bit(c, k) /\ Bit(y, k + 1) = Bit(d, k)
      BY <2>4, <2>5, <3>1, BitAbove
    <3> QED BY <3>1, <3>2
  <2>9. c = d
    BY <1>2, <2>1, <2>7, <2>8
  <2> QED BY <2>4, <2>5, <2>6, <2>9
<1> HIDE DEF T
<1>3. n \in T
  BY <1>1, <1>2, Induct
<1> QED BY <1>3, WidthAssumption DEF T

\* The words are the numbers of XLEN bits.
LEMMA WordRange == /\ Modulus = 2^XLEN /\ Words = 0 .. 2^XLEN - 1 /\ Words \subseteq Nat
                   /\ Modulus \in Nat \ {0}
  BY WidthAssumption DEF Modulus, Words

\* OfBits builds the word with the bits it is given, and no other has them.
LEMMA OfBitsIs ==
    ASSUME NEW S \in SUBSET (0 .. XLEN - 1)
    PROVE  OfBits(S) \in Words /\ Bits(OfBits(S)) = S
<1>1. PICK w \in Words : \A k \in 0 .. XLEN - 1 : Bit(w, k) = 1 <=> k \in S
  BY BitsExist, WordRange, WidthAssumption
<1>2. Bits(w) = S
  BY <1>1 DEF Bits
<1>3. OfBits(S) = CHOOSE x \in Words : Bits(x) = S
  BY DEF OfBits, WordWith
<1> QED BY <1>1, <1>2, <1>3

\* A word is the one OfBits makes of its bits.
LEMMA OfBitsUnique ==
    ASSUME NEW S \in SUBSET (0 .. XLEN - 1), NEW w \in Words, Bits(w) = S
    PROVE  OfBits(S) = w
<1>1. PICK v \in Words : v = OfBits(S) /\ Bits(v) = S
  BY OfBitsIs
<1>2. ASSUME NEW k \in 0 .. XLEN - 1 PROVE Bit(v, k) = Bit(w, k)
  <2>1. Bit(v, k) \in {0, 1} /\ Bit(w, k) \in {0, 1}
    BY BitIsBit, WordRange, WidthAssumption
  <2>2. Bit(v, k) = 1 <=> Bit(w, k) = 1
    BY <1>1 DEF Bits
  <2> QED BY <2>1, <2>2
<1>3. v = w
  BY <1>2, BitsDetermine, WordRange, WidthAssumption
<1> QED BY <1>1, <1>3

-----------------------------------------------------------------------------
(* Powers and quotients.                                                   *)

\* One more power of two.
LEMMA PowerStep ==
    ASSUME NEW k \in 0 .. XLEN - 1
    PROVE  2^k \in Nat \ {0} /\ 2^(k + 1) = 2 * 2^k /\ 2^(k + 1) \in Nat \ {0}
<1>1. 2^k \in Nat \ {0} /\ 2^(k + 1) = 2 * 2^k
  BY Powers, PowerAssumption, WidthAssumption
<1> QED BY <1>1

\* Powers of two add their exponents.
LEMMA PowerSum ==
    ASSUME NEW i \in 0 .. XLEN, NEW j \in 0 .. XLEN, i + j <= XLEN
    PROVE  2^(i + j) = 2^i * 2^j
<1> DEFINE T == {m \in Nat : i + m <= XLEN => 2^(i + m) = 2^i * 2^m}
<1>1. 0 \in T
  <2>1. 2^i \in Nat /\ i + 0 = i /\ 2^0 = 1
    BY Powers, PowerAssumption
  <2> QED BY <2>1
<1>2. ASSUME NEW m \in Nat, m \in T PROVE m + 1 \in T
  <2> SUFFICES ASSUME i + (m + 1) <= XLEN PROVE 2^(i + (m + 1)) = 2^i * 2^(m + 1)
    OBVIOUS
  <2>1. i + m \in 0 .. XLEN - 1 /\ m \in 0 .. XLEN - 1 /\ i + (m + 1) = (i + m) + 1
    BY WidthAssumption
  <2>2. PICK p \in Nat, q \in Nat : p = 2^i /\ q = 2^m
    BY <2>1, Powers, WidthAssumption
  <2>3. 2^(i + m) = p * q
    BY <1>2, <2>1, <2>2, WidthAssumption
  <2>4. 2^((i + m) + 1) = 2 * (p * q) /\ 2^(m + 1) = 2 * q
    BY <2>1, <2>2, <2>3, PowerStep
  <2>5. 2 * (p * q) = p * (2 * q)
    OBVIOUS
  <2> QED BY <2>1, <2>2, <2>4, <2>5
<1> HIDE DEF T
<1>3. j \in T
  BY <1>1, <1>2, Induct
<1> QED BY <1>3 DEF T

\* A power is a multiple of every smaller one, an even one unless they are equal.
LEMMA PowerMultiple ==
    ASSUME NEW i \in 0 .. XLEN, NEW j \in 0 .. XLEN, i <= j
    PROVE  /\ \E c \in Nat \ {0} : 2^j = c * 2^i
           /\ i < j => \E c \in Nat \ {0} : 2^j = (2 * c) * 2^i
           /\ 2^i <= 2^j
<1>1. j - i \in 0 .. XLEN /\ i + (j - i) = j
  BY WidthAssumption
<1>2. PICK c \in Nat \ {0}, p \in Nat \ {0} : c = 2^(j - i) /\ p = 2^i
  BY <1>1, Powers
<1>3. 2^j = c * p
  <2>1. 2^j = p * c
    BY <1>1, <1>2, PowerSum
  <2> QED BY <2>1
<1>4. p <= c * p
  OBVIOUS
<1>5. ASSUME i < j PROVE \E d \in Nat \ {0} : c = 2 * d
  <2>1. (j - i) - 1 \in 0 .. XLEN - 1 /\ ((j - i) - 1) + 1 = j - i
    BY <1>1, <1>5, WidthAssumption
  <2> QED BY <1>2, <2>1, PowerStep
<1> QED BY <1>2, <1>3, <1>4, <1>5

\* A multiple of the divisor adds to the quotient alone.
LEMMA AddMultiple ==
    ASSUME NEW m \in Nat \ {0}, NEW c \in Nat, NEW r \in Nat
    PROVE  /\ (c * m + r) \div m = c + (r \div m)
           /\ (c * m + r) % m = r % m
<1>1. PICK q \in Nat, s \in 0 .. m - 1 : q = r \div m /\ r = q * m + s
  BY Divided
<1>2. c * m \in Nat /\ q * m \in Nat /\ (c + q) * m = c * m + q * m /\ c + q \in Nat
  BY <1>1
<1>3. c * m + r = (c + q) * m + s
  BY <1>1, <1>2
<1>4. ((c + q) * m + s) \div m = c + q /\ ((c + q) * m + s) % m = s
  BY <1>1, <1>2, Halves
<1>5. (q * m + s) % m = s
  BY <1>1, Halves
<1> QED BY <1>1, <1>3, <1>4, <1>5

\* Two divisions are one by the product.
LEMMA DivideTwice ==
    ASSUME NEW x \in Nat, NEW p \in Nat \ {0}, NEW q \in Nat \ {0}
    PROVE  (x \div p) \div q = x \div (q * p)
<1>1. PICK y \in Nat, r \in 0 .. p - 1 : y = x \div p /\ x = y * p + r
  BY Divided
<1>2. PICK z \in Nat, s \in 0 .. q - 1 : z = y \div q /\ y = z * q + s
  BY Divided
<1>3. q * p \in Nat \ {0} /\ s * p \in Nat /\ z * q \in Nat
  BY <1>1, <1>2
<1>4. s * p + r \in 0 .. (q * p) - 1
  <2>1. s * p <= (q - 1) * p
    BY <1>2
  <2>2. (q - 1) * p = q * p - p
    OBVIOUS
  <2> QED BY <1>1, <1>3, <2>1, <2>2
<1>5. x = z * (q * p) + (s * p + r)
  <2>1. y * p = (z * q) * p + s * p
    BY <1>2, <1>3
  <2>2. (z * q) * p = z * (q * p)
    BY <1>2
  <2>3. z * (q * p) \in Nat
    BY <1>2, <1>3
  <2> QED BY <1>1, <1>3, <2>1, <2>2, <2>3
<1>6. (z * (q * p) + (s * p + r)) \div (q * p) = z
  BY <1>2, <1>3, <1>4, Halves
<1> QED BY <1>1, <1>2, <1>5, <1>6

\* A common factor cancels.
LEMMA Cancel ==
    ASSUME NEW x \in Nat, NEW p \in Nat \ {0}, NEW q \in Nat \ {0}
    PROVE  (x * p) \div (q * p) = x \div q
<1>1. x * p \in Nat
  OBVIOUS
<1>2. (x * p) \div p = x
  <2>1. x * p = x * p + 0 /\ 0 \in 0 .. p - 1
    BY <1>1
  <2> QED BY <2>1, Halves
<1>3. ((x * p) \div p) \div q = (x * p) \div (q * p)
  BY <1>1, DivideTwice
<1> QED BY <1>2, <1>3

\* A number below the divisor is its own remainder.
LEMMA SmallQuotient ==
    ASSUME NEW m \in Nat \ {0}, NEW r \in 0 .. m - 1 PROVE r \div m = 0 /\ r % m = r
<1>1. 0 * m + r = r
  OBVIOUS
<1> QED BY <1>1, Halves

-----------------------------------------------------------------------------
(* The bits of sums, products, quotients and remainders.                   *)

\* Adding an even number keeps the parity.
LEMMA Parity ==
    ASSUME NEW c \in Nat, NEW y \in Nat PROVE ((2 * c) + y) % 2 = y % 2 /\ (2 * c) % 2 = 0
  OBVIOUS

\* An even multiple of 2^k does not change the bit k.
LEMMA BitOfSum ==
    ASSUME NEW k \in 0 .. XLEN, NEW c \in Nat, NEW x \in Nat
    PROVE  Bit((2 * c) * 2^k + x, k) = Bit(x, k)
<1>1. PICK m \in Nat \ {0} : m = 2^k
  BY Powers
<1>2. ((2 * c) * m + x) \div m = (2 * c) + (x \div m) /\ x \div m \in Nat
  <2>1. 2 * c \in Nat
    OBVIOUS
  <2>2. \A e \in Nat : (e * m + x) \div m = e + (x \div m)
    BY AddMultiple
  <2> QED BY <2>1, <2>2, Divided
<1>3. ((2 * c) + (x \div m)) % 2 = (x \div m) % 2
  BY <1>2, Parity
<1> QED BY <1>1, <1>2, <1>3 DEF Bit

\* Below 2^k the bit k is not set.
LEMMA BitOfSmall ==
    ASSUME NEW k \in 0 .. XLEN, NEW x \in Nat, x < 2^k
    PROVE  Bit(x, k) = 0
<1>1. PICK m \in Nat \ {0} : m = 2^k
  BY Powers
<1>2. x \div m = 0
  BY <1>1, SmallQuotient
<1> QED BY <1>1, <1>2 DEF Bit

\* The bit k is set if x lies 2^k above an even multiple of it.
LEMMA BitOfTop ==
    ASSUME NEW k \in 0 .. XLEN, NEW x \in Nat, 2^k <= x, x < 2 * 2^k
    PROVE  Bit(x, k) = 1
<1>1. PICK m \in Nat \ {0} : m = 2^k
  BY Powers
<1>2. x - m \in 0 .. m - 1
  BY <1>1
<1>4. x = 1 * m + (x - m)
  OBVIOUS
<1>3. x \div m = 1
  BY <1>2, <1>4, Halves
<1> QED BY <1>1, <1>3 DEF Bit

\* The remainder by 2^n keeps the n lowest bits.
LEMMA BitOfRemainder ==
    ASSUME NEW x \in Nat, NEW n \in 0 .. XLEN, NEW k \in 0 .. XLEN - 1
    PROVE  Bit(x % 2^n, k) = IF k < n THEN Bit(x, k) ELSE 0
<1>1. PICK m \in Nat \ {0} : m = 2^n
  BY Powers
<1>2. PICK q \in Nat, r \in 0 .. m - 1 : r = x % m /\ x = q * m + r
  BY Divided
<1>3. k \in 0 .. XLEN
  BY WidthAssumption
<1>4. CASE k < n
  <2>1. PICK c \in Nat \ {0} : m = (2 * c) * 2^k
    BY <1>1, <1>3, <1>4, PowerMultiple
  <2>2. PICK p \in Nat \ {0} : p = 2^k
    BY <1>3, Powers
  <2>3. x = (2 * (q * c)) * p + r /\ q * c \in Nat /\ r \in Nat
    <3>1. q * ((2 * c) * p) = (2 * (q * c)) * p
      BY <1>2, <2>1, <2>2
    <3> QED BY <1>2, <2>1, <2>2, <3>1
  <2>4. Bit((2 * (q * c)) * p + r, k) = Bit(r, k)
    BY <1>3, <2>2, <2>3, BitOfSum
  <2> QED BY <1>1, <1>2, <1>4, <2>3, <2>4
<1>5. CASE ~(k < n)
  <2>1. m <= 2^k /\ 2^k \in Nat
    BY <1>1, <1>3, <1>5, PowerMultiple, Powers
  <2>2. r \in Nat /\ r < 2^k
    BY <1>2, <2>1
  <2> QED BY <1>1, <1>2, <1>3, <1>5, <2>2, BitOfSmall
<1> QED BY <1>4, <1>5

\* The product by 2^n moves the bits up by n.
LEMMA BitOfProduct ==
    ASSUME NEW x \in Nat, NEW n \in 0 .. XLEN - 1, NEW k \in 0 .. XLEN - 1
    PROVE  Bit(x * 2^n, k) = IF k < n THEN 0 ELSE Bit(x, k - n)
<1>1. n \in 0 .. XLEN /\ k \in 0 .. XLEN
  BY WidthAssumption
<1>2. PICK p \in Nat \ {0}, m \in Nat \ {0} : p = 2^n /\ m = 2^k
  BY <1>1, Powers
<1>3. CASE k < n
  <2>1. PICK c \in Nat \ {0} : p = (2 * c) * m
    BY <1>1, <1>2, <1>3, PowerMultiple
  <2>2. x * p = (2 * (x * c)) * m + 0 /\ x * c \in Nat
    <3>1. x * ((2 * c) * m) = (2 * (x * c)) * m
      BY <2>1
    <3>2. (2 * (x * c)) * m \in Nat
      BY <2>1
    <3> QED BY <2>1, <3>1, <3>2
  <2>3. Bit((2 * (x * c)) * m + 0, k) = Bit(0, k)
    BY <1>1, <1>2, <2>2, BitOfSum
  <2>4. Bit(0, k) = 0
    BY <1>1, <1>2, BitOfSmall
  <2> QED BY <1>2, <1>3, <2>2, <2>3, <2>4
<1>4. CASE ~(k < n)
  <2>1. k - n \in 0 .. XLEN /\ (k - n) + n = k /\ (k - n) + n <= XLEN
    BY <1>1, <1>4, WidthAssumption
  <2>2. PICK q \in Nat \ {0} : q = 2^(k - n)
    BY <2>1, Powers
  <2>3. m = q * p
    BY <1>1, <1>2, <2>1, <2>2, PowerSum
  <2>4. (x * p) \div (q * p) = x \div q
    BY Cancel
  <2> QED BY <1>2, <1>4, <2>2, <2>3, <2>4 DEF Bit
<1> QED BY <1>3, <1>4

\* The quotient by 2^n moves the bits down by n.
LEMMA BitOfQuotient ==
    ASSUME NEW x \in Nat, NEW n \in 0 .. XLEN - 1, NEW k \in 0 .. XLEN - 1, k + n < XLEN
    PROVE  Bit(x \div 2^n, k) = Bit(x, k + n)
<1>1. n \in 0 .. XLEN /\ k \in 0 .. XLEN /\ k + n <= XLEN /\ k + n \in 0 .. XLEN
  BY WidthAssumption
<1>2. PICK p \in Nat \ {0}, m \in Nat \ {0} : p = 2^n /\ m = 2^k
  BY <1>1, Powers
<1>3. 2^(k + n) = m * p
  BY <1>1, <1>2, PowerSum
<1>4. (x \div p) \div m = x \div (m * p)
  BY DivideTwice
<1> QED BY <1>2, <1>3, <1>4 DEF Bit

\* The numbers of n bits.
LEMMA QuotientFits ==
    ASSUME NEW x \in Words, NEW n \in 0 .. XLEN
    PROVE  x \div 2^n \in 0 .. 2^(XLEN - n) - 1
<1>1. XLEN - n \in 0 .. XLEN /\ (XLEN - n) + n = XLEN /\ (XLEN - n) + n <= XLEN
  BY WidthAssumption
<1>2. PICK p \in Nat \ {0}, m \in Nat \ {0} : p = 2^n /\ m = 2^(XLEN - n)
  BY <1>1, Powers
<1>3. 2^XLEN = m * p
  BY <1>1, <1>2, PowerSum
<1>4. x \in Nat /\ x < m * p
  BY <1>2, <1>3, WordRange
<1>5. PICK q \in Nat, r \in 0 .. p - 1 : q = x \div p /\ x = q * p + r
  BY <1>4, Divided
<1>6. q < m
  <2> SUFFICES ASSUME q >= m PROVE FALSE
    BY <1>5
  <2>1. q * p >= m * p
    BY <1>5
  <2> QED BY <1>4, <1>5, <2>1
<1> QED BY <1>2, <1>5, <1>6

-----------------------------------------------------------------------------
(* What the host's instructions compute.                                   *)

\* A word and the set of its bits.
LEMMA WordBits ==
    ASSUME NEW w \in Words
    PROVE  /\ Bits(w) \in SUBSET (0 .. XLEN - 1)
           /\ OfBits(Bits(w)) = w
           /\ \A k \in 0 .. XLEN - 1 : Bit(w, k) = 1 <=> k \in Bits(w)
           /\ \A k \in 0 .. XLEN - 1 : Bit(w, k) \in {0, 1}
<1>1. Bits(w) \in SUBSET (0 .. XLEN - 1)
  BY DEF Bits
<1>2. OfBits(Bits(w)) = w
  BY <1>1, OfBitsUnique
<1>3. \A k \in 0 .. XLEN - 1 : Bit(w, k) \in {0, 1}
  BY BitIsBit, WordRange, WidthAssumption
<1> QED BY <1>1, <1>2, <1>3 DEF Bits

\* The modulus is a multiple of every weight of a bit.
LEMMA WordMultiple ==
    ASSUME NEW e \in 0 .. XLEN PROVE \E c \in Nat \ {0} : Modulus = c * 2^e
<1>1. PICK n \in 0 .. XLEN : n = XLEN
  BY WidthAssumption
<1>2. e <= n
  BY <1>1, WidthAssumption
<1>3. \E c \in Nat \ {0} : 2^n = c * 2^e
  BY <1>2, PowerMultiple
<1> QED BY <1>1, <1>3, WordRange

\* Sign extension of a number whose top bit is set.
LEMMA SignExtended ==
    ASSUME NEW b \in 0 .. XLEN - 1, NEW x \in Nat, 2^b <= x, x < 2^(b + 1)
    PROVE  /\ (x + Modulus) - 2^(b + 1) \in Words
           /\ OfBits(Bits(x) \cup (b .. XLEN - 1)) = (x + Modulus) - 2^(b + 1)
<1>1. b \in 0 .. XLEN /\ b + 1 \in 0 .. XLEN /\ XLEN \in 0 .. XLEN
  BY WidthAssumption
<1>2. PICK p \in Nat \ {0} : p = 2^(b + 1) /\ p = 2 * 2^b /\ 2^b \in Nat
  BY PowerStep
<1>3. PICK c \in Nat \ {0} : Modulus = c * p
  <2>0. PICK e \in 0 .. XLEN : e = b + 1
    BY <1>1
  <2> QED BY <1>2, <2>0, WordMultiple
<1>4. p <= Modulus /\ Modulus \in Nat
  BY <1>1, <1>2, PowerMultiple, WordRange
<1> DEFINE y == (x + Modulus) - p
<1>5. y \in Words /\ y \in Nat
  BY <1>2, <1>4 DEF Words
<1>6. ASSUME NEW k \in 0 .. XLEN - 1, k <= b PROVE Bit(y, k) = Bit(x, k)
  <2>1. k \in 0 .. XLEN /\ k < b + 1
    BY <1>6, WidthAssumption
  <2>2. PICK d \in Nat \ {0} : p = (2 * d) * 2^k
    <3>0. PICK e \in 0 .. XLEN : e = b + 1
      BY <1>1
    <3>1. \E d \in Nat \ {0} : 2^e = (2 * d) * 2^k
      BY <2>1, <3>0, PowerMultiple
    <3> QED BY <1>2, <3>0, <3>1
  <2>3. PICK m \in Nat \ {0} : m = 2^k
    BY <2>1, Powers
  <2>4. c - 1 \in Nat /\ (c - 1) * d \in Nat
    BY <2>2
  <2>5. Modulus - p = (2 * ((c - 1) * d)) * m
    <3>1. c * p - p = (c - 1) * p
      OBVIOUS
    <3>2. (c - 1) * ((2 * d) * m) = (2 * ((c - 1) * d)) * m
      BY <2>2, <2>3, <2>4
    <3> QED BY <1>3, <2>2, <2>3, <3>1, <3>2
  <2>6. y = (2 * ((c - 1) * d)) * m + x
    BY <1>2, <1>4, <2>5
  <2>7. \A e \in Nat : Bit((2 * e) * m + x, k) = Bit(x, k)
    BY <2>1, <2>3, BitOfSum
  <2>8. PICK e \in Nat : e = (c - 1) * d
    BY <2>4
  <2>9. y = (2 * e) * m + x
    BY <2>6, <2>8
  <2> HIDE DEF y
  <2> QED BY <2>7, <2>9
<1>7. ASSUME NEW k \in 0 .. XLEN - 1, k >= b PROVE Bit(y, k) = 1
  <2>1. k \in 0 .. XLEN /\ k + 1 \in 0 .. XLEN
    BY WidthAssumption
  <2>2. PICK m \in Nat \ {0} : m = 2^k /\ 2^(k + 1) = 2 * m
    BY PowerStep
  <2>3. PICK d \in Nat \ {0} : Modulus = d * (2 * m)
    <3>0. PICK e \in 0 .. XLEN : e = k + 1
      BY <2>1
    <3> QED BY <2>2, <3>0, WordMultiple
  <2>4. m >= 2^b
    BY <1>1, <1>7, <2>1, <2>2, PowerMultiple
  <2>5. d - 1 \in Nat /\ d * (2 * m) = (2 * (d - 1)) * m + 2 * m /\ (2 * (d - 1)) * m \in Nat
    BY <2>2, <2>3
  <2> DEFINE z == (x + 2 * m) - p
  <2>6. z \in Nat /\ m <= z /\ z < 2 * m
    BY <1>2, <2>2, <2>4
  <2>7. y = (2 * (d - 1)) * m + z
    BY <1>2, <1>4, <2>2, <2>3, <2>5
  <2> HIDE DEF z, y
  <2>8. Bit((2 * (d - 1)) * m + z, k) = Bit(z, k)
    BY <2>1, <2>2, <2>5, <2>6, BitOfSum
  <2>9. Bit(z, k) = 1
    BY <2>1, <2>2, <2>6, BitOfTop
  <2> QED BY <2>7, <2>8, <2>9
<1>8. Bits(y) = Bits(x) \cup (b .. XLEN - 1)
  <2>1. ASSUME NEW k \in 0 .. XLEN - 1
        PROVE  Bit(y, k) = 1 <=> (Bit(x, k) = 1 \/ k \in b .. XLEN - 1)
    BY <1>6, <1>7, WidthAssumption
  <2> HIDE DEF y
  <2>2. b .. XLEN - 1 \subseteq 0 .. XLEN - 1
    BY WidthAssumption
  <2> QED BY <2>1, <2>2 DEF Bits
<1> HIDE DEF y
<1>9. Bits(x) \cup (b .. XLEN - 1) \in SUBSET (0 .. XLEN - 1)
  BY <1>8 DEF Bits
<1>10. OfBits(Bits(x) \cup (b .. XLEN - 1)) = y
  BY <1>5, <1>8, <1>9, OfBitsUnique
<1> QED BY <1>2, <1>5, <1>10 DEF y

\* sign_extend32 of a field of b + 1 bits.
LEMMA SignExtends ==
    ASSUME NEW b \in 0 .. XLEN - 1, NEW x \in 0 .. 2^(b + 1) - 1
    PROVE  /\ sign_extend32(x, b) \in Words
           /\ sign_extend32(x, b) = IF x < 2^b THEN x ELSE (x + Modulus) - 2^(b + 1)
           /\ sign_extend32(x, b) = Word(SignedField(x, b + 1))
<1>1. b \in 0 .. XLEN /\ b + 1 \in 0 .. XLEN /\ XLEN \in 0 .. XLEN /\ (b + 1) - 1 = b
  BY WidthAssumption
<1>2. /\ 2^b \in Nat \ {0} /\ 2^(b + 1) = 2 * 2^b /\ 2^(b + 1) <= Modulus /\ Modulus \in Nat \ {0}
      /\ x \in Nat
  BY <1>1, PowerStep, PowerMultiple, WordRange
<1>3. x \in Words
  BY <1>2 DEF Words
<1>4. CASE x < 2^b
  <2>1. b \notin Bits(x)
    BY <1>1, <1>2, <1>4, BitOfSmall DEF Bits
  <2>2. sign_extend32(x, b) = OfBits(Bits(x))
    BY <2>1 DEF sign_extend32
  <2>3. sign_extend32(x, b) = x
    BY <1>3, <2>2, WordBits
  <2>4. Word(SignedField(x, b + 1)) = x
    <3>1. SignedField(x, b + 1) = x
      BY <1>1, <1>4 DEF SignedField
    <3>2. x \in 0 .. Modulus - 1
      BY <1>3 DEF Words
    <3>3. x % Modulus = x
      BY <1>2, <3>2, SmallQuotient
    <3> QED BY <3>1, <3>3 DEF Word
  <2> QED BY <1>3, <1>4, <2>3, <2>4
<1>5. CASE ~(x < 2^b)
  <2>1. 2^b <= x /\ x < 2^(b + 1) /\ x < 2 * 2^b
    BY <1>2, <1>5
  <2>2. b \in Bits(x)
    BY <1>1, <1>2, <2>1, BitOfTop DEF Bits
  <2>3. sign_extend32(x, b) = OfBits(Bits(x) \cup (b .. XLEN - 1))
    BY <2>2 DEF sign_extend32
  <2>4. PICK y \in Words : y = (x + Modulus) - 2^(b + 1) /\ sign_extend32(x, b) = y
    BY <1>2, <2>1, <2>3, SignExtended
  <2>5. Word(SignedField(x, b + 1)) = y
    <3>1. SignedField(x, b + 1) = x - 2^(b + 1)
      BY <1>1, <1>5 DEF SignedField
    <3>2. y \in 0 .. Modulus - 1 /\ x - 2^(b + 1) \in Int
      BY <1>2 DEF Words
    <3>3. x - 2^(b + 1) = (-1) * Modulus + y
      BY <1>2, <2>4, <3>2
    <3>4. (x - 2^(b + 1)) % Modulus = y
      BY <1>2, <3>2, <3>3
    <3> QED BY <3>1, <3>4 DEF Word
  <2> QED BY <1>5, <2>4, <2>5
<1> QED BY <1>4, <1>5

\* The quotient and the remainder of an integer, and that no others are.
LEMMA IntDivided ==
    ASSUME NEW m \in Nat \ {0}, NEW n \in Int
    PROVE  n \div m \in Int /\ n % m \in 0 .. m - 1 /\ n = (n \div m) * m + (n % m)
  OBVIOUS

\* The same as Halves with a quotient of either sign.
LEMMA IntQuotient ==
    ASSUME NEW m \in Nat \ {0}, NEW c \in Int, NEW r \in 0 .. m - 1
    PROVE  (c * m + r) \div m = c /\ (c * m + r) % m = r
<1>1. PICK n \in Int : n = c * m + r
  OBVIOUS
<1>2. PICK q \in Int, s \in 0 .. m - 1 : q = n \div m /\ s = n % m /\ n = q * m + s
  BY IntDivided
<1>3. (q - c) * m = r - s
  <2>1. (q - c) * m = q * m - c * m
    BY <1>2
  <2>2. q * m \in Int /\ c * m \in Int
    BY <1>2
  <2> QED BY <1>1, <1>2, <2>1, <2>2
<1>4. q - c \in Int
  BY <1>2
<1>5. q - c = 0
  <2>1. ASSUME q - c >= 1 PROVE FALSE
    <3>1. (q - c) * m >= m
      BY <1>4, <2>1
    <3> QED BY <1>2, <1>3, <3>1
  <2>2. ASSUME q - c <= -1 PROVE FALSE
    <3>1. (q - c) * m <= -m
      BY <1>4, <2>2
    <3> QED BY <1>2, <1>3, <3>1
  <2> QED BY <1>4, <2>1, <2>2
<1>6. q = c /\ r = s
  <2>1. q = c
    BY <1>2, <1>5
  <2>2. (q - c) * m = 0
    BY <1>5
  <2> QED BY <1>2, <1>3, <2>1, <2>2
<1> QED BY <1>1, <1>2, <1>6

\* Adding a multiple of the modulus does not change a remainder.
LEMMA IntAddMultiple ==
    ASSUME NEW m \in Nat \ {0}, NEW c \in Int, NEW x \in Int
    PROVE  (c * m + x) % m = x % m /\ (c * m + x) \div m = c + (x \div m)
<1>1. PICK q \in Int, s \in 0 .. m - 1 : q = x \div m /\ s = x % m /\ x = q * m + s
  BY IntDivided
<1>2. c * m + x = (c + q) * m + s
  <2>1. (c + q) * m = c * m + q * m /\ c * m \in Int /\ q * m \in Int
    BY <1>1
  <2> QED BY <1>1, <2>1
<1>3. PICK d \in Int : d = c + q
  BY <1>1
<1>4. (d * m + s) % m = s /\ (d * m + s) \div m = d
  BY <1>1, IntQuotient
<1> QED BY <1>1, <1>2, <1>3, <1>4

\* A word is not changed by its reduction.
LEMMA WordOfWord == ASSUME NEW a \in Words PROVE Word(a) = a
  BY WordRange, SmallQuotient DEF Word, Words

\* A reduction is a word.
LEMMA WordIsWord == ASSUME NEW n \in Int PROVE Word(n) \in Words
  BY WordRange, IntDivided DEF Word, Words

\* addl and subl, by their carry, reduce the sum and the difference.
LEMMA HostSum ==
    ASSUME NEW a \in Words, NEW b \in Words
    PROVE  /\ addl(a, b) = Word(a + b) /\ addl(a, b) \in Words
           /\ subl(a, b) = Word(a - b) /\ subl(a, b) \in Words
<1>1. Modulus \in Nat \ {0} /\ a \in 0 .. Modulus - 1 /\ b \in 0 .. Modulus - 1
  BY WordRange DEF Words
<1>2. addl(a, b) \in 0 .. Modulus - 1 /\ subl(a, b) \in 0 .. Modulus - 1
  BY <1>1 DEF addl, subl
<1>3. (a + b) % Modulus = addl(a, b)
  <2>1. CASE a + b >= Modulus
    <3>1. a + b = 1 * Modulus + addl(a, b)
      BY <1>1, <2>1 DEF addl
    <3>2. 1 \in Int
      OBVIOUS
    <3> QED BY <1>1, <1>2, <3>1, <3>2, IntQuotient, Zenon
  <2>2. CASE ~(a + b >= Modulus)
    <3>1. a + b = 0 * Modulus + addl(a, b)
      BY <1>1, <2>2 DEF addl
    <3>2. 0 \in Int
      OBVIOUS
    <3> QED BY <1>1, <1>2, <3>1, <3>2, IntQuotient, Zenon
  <2> QED BY <2>1, <2>2
<1>4. (a - b) % Modulus = subl(a, b)
  <2>1. CASE a >= b
    <3>1. a - b = 0 * Modulus + subl(a, b)
      BY <1>1, <2>1 DEF subl
    <3>2. 0 \in Int
      OBVIOUS
    <3> QED BY <1>1, <1>2, <3>1, <3>2, IntQuotient, Zenon
  <2>2. CASE ~(a >= b)
    <3>1. a - b = (-1) * Modulus + subl(a, b)
      BY <1>1, <2>2 DEF subl
    <3>2. -1 \in Int
      OBVIOUS
    <3> QED BY <1>1, <1>2, <3>1, <3>2, IntQuotient, Zenon
  <2> QED BY <2>1, <2>2
<1> QED BY <1>2, <1>3, <1>4 DEF Word, Words

\* andl, orl and xorl are the functions of the architecture's single bits.
LEMMA HostLogic ==
    ASSUME NEW a \in Words, NEW b \in Words
    PROVE  /\ andl(a, b) \in Words /\ andl(a, b) = Bitwise(And, a, b)
           /\ orl(a, b) \in Words /\ orl(a, b) = Bitwise(Or, a, b)
           /\ xorl(a, b) \in Words /\ xorl(a, b) = Bitwise(Xor, a, b)
<1>1. Bits(a) \in SUBSET (0 .. XLEN - 1) /\ Bits(b) \in SUBSET (0 .. XLEN - 1)
  BY WordBits
<1>2. \A k \in 0 .. XLEN - 1 : /\ Bit(a, k) \in {0, 1} /\ Bit(b, k) \in {0, 1}
                               /\ Bit(a, k) = 1 <=> k \in Bits(a)
                               /\ Bit(b, k) = 1 <=> k \in Bits(b)
  BY WordBits
<1>3. ASSUME NEW S \in SUBSET (0 .. XLEN - 1), NEW v \in Words,
             \A k \in 0 .. XLEN - 1 : Bit(v, k) = 1 <=> k \in S
      PROVE  OfBits(S) = v
  <2>1. Bits(v) = S
    BY <1>3 DEF Bits
  <2> QED BY <2>1, OfBitsUnique
<1>4. ASSUME NEW S \in SUBSET (0 .. XLEN - 1)
      PROVE  /\ OfBits(S) \in Words
             /\ \A k \in 0 .. XLEN - 1 : /\ Bit(OfBits(S), k) \in {0, 1}
                                         /\ Bit(OfBits(S), k) = 1 <=> k \in S
  <2>1. PICK v \in Words : v = OfBits(S) /\ Bits(v) = S
    BY OfBitsIs
  <2> QED BY <2>1, WordBits
<1>5. andl(a, b) \in Words /\ andl(a, b) = Bitwise(And, a, b)
  <2> DEFINE S == Bits(a) \cap Bits(b)
             Fits(w) == \A k \in 0 .. XLEN - 1 : Bit(w, k) = Bit(a, k) * Bit(b, k)
  <2>1. S \in SUBSET (0 .. XLEN - 1) /\ andl(a, b) = OfBits(S)
    BY <1>1 DEF andl
  <2> HIDE DEF S
  <2>2. \A k \in 0 .. XLEN - 1 : Bit(OfBits(S), k) = Bit(a, k) * Bit(b, k)
    <3> SUFFICES ASSUME NEW k \in 0 .. XLEN - 1
                 PROVE  Bit(OfBits(S), k) = Bit(a, k) * Bit(b, k)
      OBVIOUS
    <3>1. Bit(OfBits(S), k) \in {0, 1} /\ (Bit(OfBits(S), k) = 1 <=> k \in S)
      BY <1>4, <2>1
    <3> QED BY <1>2, <3>1 DEF S
  <2>3. OfBits(S) \in Words
    BY <1>4, <2>1
  <2>4. PICK w \in Words : Fits(w) /\ w = CHOOSE x \in Words : Fits(x)
    BY <2>2, <2>3
  <2>5. OfBits(S) = w
    <3>1. ASSUME NEW k \in 0 .. XLEN - 1 PROVE Bit(w, k) = 1 <=> k \in S
      <4>1. Bit(w, k) = Bit(a, k) * Bit(b, k)
        BY <2>4
      <4>2. /\ Bit(a, k) \in {0, 1} /\ Bit(b, k) \in {0, 1}
            /\ Bit(a, k) = 1 <=> k \in Bits(a)
            /\ Bit(b, k) = 1 <=> k \in Bits(b)
        BY <1>2
      <4> QED BY <4>1, <4>2 DEF S
    <3> QED BY <1>3, <2>1, <3>1
  <2> QED BY <2>1, <2>3, <2>4, <2>5 DEF Bitwise, And
<1>6. orl(a, b) \in Words /\ orl(a, b) = Bitwise(Or, a, b)
  <2> DEFINE S == Bits(a) \cup Bits(b)
             Fits(w) == \A k \in 0 .. XLEN - 1 :
                            Bit(w, k) = Bit(a, k) + Bit(b, k) - Bit(a, k) * Bit(b, k)
  <2>1. S \in SUBSET (0 .. XLEN - 1) /\ orl(a, b) = OfBits(S)
    BY <1>1 DEF orl
  <2> HIDE DEF S
  <2>2. Fits(OfBits(S))
    <3> SUFFICES ASSUME NEW k \in 0 .. XLEN - 1
                 PROVE  Bit(OfBits(S), k) = Bit(a, k) + Bit(b, k) - Bit(a, k) * Bit(b, k)
      OBVIOUS
    <3>1. Bit(OfBits(S), k) \in {0, 1} /\ (Bit(OfBits(S), k) = 1 <=> k \in S)
      BY <1>4, <2>1
    <3> QED BY <1>2, <3>1 DEF S
  <2>3. OfBits(S) \in Words
    BY <1>4, <2>1
  <2>4. PICK w \in Words : Fits(w) /\ w = CHOOSE x \in Words : Fits(x)
    BY <2>2, <2>3
  <2>5. OfBits(S) = w
    <3>1. ASSUME NEW k \in 0 .. XLEN - 1 PROVE Bit(w, k) = 1 <=> k \in S
      <4>1. Bit(w, k) = Bit(a, k) + Bit(b, k) - Bit(a, k) * Bit(b, k)
        BY <2>4
      <4>2. /\ Bit(a, k) \in {0, 1} /\ Bit(b, k) \in {0, 1}
            /\ Bit(a, k) = 1 <=> k \in Bits(a)
            /\ Bit(b, k) = 1 <=> k \in Bits(b)
        BY <1>2
      <4> QED BY <4>1, <4>2 DEF S
    <3> QED BY <1>3, <2>1, <3>1
  <2> QED BY <2>1, <2>3, <2>4, <2>5 DEF Bitwise, Or
<1>7. xorl(a, b) \in Words /\ xorl(a, b) = Bitwise(Xor, a, b)
  <2> DEFINE S == (Bits(a) \ Bits(b)) \cup (Bits(b) \ Bits(a))
             Fits(w) == \A k \in 0 .. XLEN - 1 : Bit(w, k) = (Bit(a, k) + Bit(b, k)) % 2
  <2>1. S \in SUBSET (0 .. XLEN - 1) /\ xorl(a, b) = OfBits(S)
    BY <1>1 DEF xorl
  <2> HIDE DEF S
  <2>2. Fits(OfBits(S))
    <3> SUFFICES ASSUME NEW k \in 0 .. XLEN - 1
                 PROVE  Bit(OfBits(S), k) = (Bit(a, k) + Bit(b, k)) % 2
      OBVIOUS
    <3>1. Bit(OfBits(S), k) \in {0, 1} /\ (Bit(OfBits(S), k) = 1 <=> k \in S)
      BY <1>4, <2>1
    <3> QED BY <1>2, <3>1 DEF S
  <2>3. OfBits(S) \in Words
    BY <1>4, <2>1
  <2>4. PICK w \in Words : Fits(w) /\ w = CHOOSE x \in Words : Fits(x)
    BY <2>2, <2>3
  <2>5. OfBits(S) = w
    <3>1. ASSUME NEW k \in 0 .. XLEN - 1 PROVE Bit(w, k) = 1 <=> k \in S
      <4>1. Bit(w, k) = (Bit(a, k) + Bit(b, k)) % 2
        BY <2>4
      <4>2. /\ Bit(a, k) \in {0, 1} /\ Bit(b, k) \in {0, 1}
            /\ Bit(a, k) = 1 <=> k \in Bits(a)
            /\ Bit(b, k) = 1 <=> k \in Bits(b)
        BY <1>2
      <4> QED BY <4>1, <4>2 DEF S
    <3> QED BY <1>3, <2>1, <3>1
  <2> QED BY <2>1, <2>3, <2>4, <2>5 DEF Bitwise, Xor
<1> QED BY <1>5, <1>6, <1>7

\* A word with the bits of a set is what OfBits makes of the set.
LEMMA OfBitsByBit ==
    ASSUME NEW S \in SUBSET (0 .. XLEN - 1), NEW v \in Words,
           \A k \in 0 .. XLEN - 1 : Bit(v, k) = 1 <=> k \in S
    PROVE  OfBits(S) = v
<1>1. Bits(v) = S
  BY DEF Bits
<1> QED BY <1>1, OfBitsUnique

\* shl is the reduced product by a power of two.
LEMMA HostShl ==
    ASSUME NEW a \in Words, NEW n \in 0 .. XLEN - 1
    PROVE  shl(a, n) = Word(a * 2^n) /\ shl(a, n) \in Words
<1>1. PICK p \in Nat \ {0} : p = 2^n
  BY Powers, WidthAssumption
<1>2. PICK x \in Nat : x = a * p /\ x = a * 2^n
  BY <1>1, WordRange
<1>3. PICK v \in Words : v = Word(x) /\ v = x % 2^XLEN
  <2>1. Word(x) \in Words
    BY <1>2, WordIsWord
  <2>2. Word(x) = x % 2^XLEN
    BY WordRange DEF Word
  <2> QED BY <2>1, <2>2
<1> DEFINE S == {k \in 0 .. XLEN - 1 : k - n \in Bits(a)}
<1>4. ASSUME NEW k \in 0 .. XLEN - 1 PROVE Bit(v, k) = 1 <=> k \in S
  <2>1. k < XLEN /\ XLEN \in 0 .. XLEN
    BY WidthAssumption
  <2>2. Bit(v, k) = Bit(x, k)
    BY <1>3, <2>1, BitOfRemainder
  <2>3. Bit(x, k) = IF k < n THEN 0 ELSE Bit(a, k - n)
    <3>1. a \in Nat
      BY WordRange
    <3>2. Bit(a * 2^n, k) = IF k < n THEN 0 ELSE Bit(a, k - n)
      BY <3>1, BitOfProduct
    <3> QED BY <1>2, <3>2
  <2>4. CASE k < n
    <3>1. k - n \notin Bits(a)
      BY <2>4, WidthAssumption DEF Bits
    <3> QED BY <2>2, <2>3, <2>4, <3>1
  <2>5. CASE ~(k < n)
    <3>1. k - n \in 0 .. XLEN - 1
      BY <2>5, WidthAssumption
    <3>2. Bit(a, k - n) = 1 <=> k - n \in Bits(a)
      BY <3>1, WordBits
    <3> QED BY <2>2, <2>3, <2>5, <3>2
  <2> QED BY <2>4, <2>5
<1>5. OfBits(S) = v
  BY <1>4, OfBitsByBit
<1> QED BY <1>2, <1>3, <1>5 DEF shl

\* shr is the quotient by a power of two.
LEMMA HostShr ==
    ASSUME NEW a \in Words, NEW n \in 0 .. XLEN - 1
    PROVE  /\ shr(a, n) = a \div 2^n /\ shr(a, n) \in Words
           /\ \A k \in 0 .. XLEN - 1 :
                  Bit(a \div 2^n, k) = IF k + n < XLEN THEN Bit(a, k + n) ELSE 0
<1>1. n \in 0 .. XLEN /\ XLEN - n \in 0 .. XLEN /\ a \in Nat
  BY WidthAssumption, WordRange
<1>2. PICK v \in Nat : v = a \div 2^n /\ v < 2^(XLEN - n)
  <2>1. 2^(XLEN - n) \in Nat
    BY <1>1, Powers
  <2> QED BY <1>1, <2>1, QuotientFits
<1>3. PICK e \in 0 .. XLEN : e = XLEN - n
  BY <1>1
<1>4. 2^e \in Nat /\ 2^e <= Modulus
  <2>1. PICK w \in 0 .. XLEN : w = XLEN
    BY WidthAssumption
  <2>2. e <= w
    BY <2>1, WidthAssumption
  <2>3. 2^e <= 2^w
    BY <2>2, PowerMultiple
  <2> QED BY <2>1, <2>3, WordRange, Powers
<1>5. v \in Words
  BY <1>2, <1>3, <1>4, WordRange DEF Words
<1>6. ASSUME NEW k \in 0 .. XLEN - 1 PROVE Bit(v, k) = IF k + n < XLEN THEN Bit(a, k + n) ELSE 0
  <2>1. CASE k + n < XLEN
    BY <1>1, <1>2, <2>1, BitOfQuotient
  <2>2. CASE ~(k + n < XLEN)
    <3>1. e <= k /\ k \in 0 .. XLEN
      BY <1>3, <2>2, WidthAssumption
    <3>2. 2^e <= 2^k /\ 2^k \in Nat
      BY <3>1, PowerMultiple, Powers
    <3>3. v < 2^k
      BY <1>2, <1>3, <1>4, <3>2
    <3>4. Bit(v, k) = 0
      BY <3>1, <3>3, BitOfSmall
    <3> QED BY <2>2, <3>4
  <2> QED BY <2>1, <2>2
<1> DEFINE S == {k \in 0 .. XLEN - 1 : k + n \in Bits(a)}
<1>7. ASSUME NEW k \in 0 .. XLEN - 1 PROVE Bit(v, k) = 1 <=> k \in S
  <2>1. CASE k + n < XLEN
    <3>1. k + n \in 0 .. XLEN - 1
      BY <2>1, WidthAssumption
    <3> QED BY <1>6, <2>1, <3>1, WordBits
  <2>2. CASE ~(k + n < XLEN)
    <3>1. k + n \notin Bits(a)
      BY <2>2, WidthAssumption DEF Bits
    <3> QED BY <1>6, <2>2, <3>1
  <2> QED BY <2>1, <2>2
<1>8. OfBits(S) = v
  BY <1>5, <1>7, OfBitsByBit
<1> QED BY <1>2, <1>5, <1>6, <1>8 DEF shr

\* The sign bit of a word.
LEMMA SignBit ==
    ASSUME NEW a \in Words PROVE XLEN - 1 \in Bits(a) <=> a >= Half
<1>1. PICK n \in 0 .. XLEN - 1 : n = XLEN - 1 /\ n \in 0 .. XLEN /\ n + 1 = XLEN
  BY WidthAssumption
<1>2. 2^n = Half /\ a \in Nat /\ a < 2 * 2^n
  <2>1. 2^(n + 1) = 2 * 2^n /\ 2^n \in Nat
    BY PowerStep
  <2> QED BY <1>1, <2>1, WidthAssumption DEF Words, Modulus
<1>3. CASE a >= Half
  <2>1. Bit(a, n) = 1
    BY <1>1, <1>2, <1>3, BitOfTop
  <2> QED BY <1>1, <1>3, <2>1 DEF Bits
<1>4. CASE ~(a >= Half)
  <2>1. Bit(a, n) = 0
    BY <1>1, <1>2, <1>4, BitOfSmall, WidthAssumption
  <2> QED BY <1>1, <1>4, <2>1 DEF Bits
<1> QED BY <1>3, <1>4

\* sar is the quotient of the signed value, rounded down.
LEMMA HostSar ==
    ASSUME NEW a \in Words, NEW n \in 0 .. XLEN - 1
    PROVE  sar(a, n) = Word(Signed(a) \div 2^n) /\ sar(a, n) \in Words
<1>1. PICK p \in Nat \ {0} : p = 2^n
  BY Powers, WidthAssumption
<1>2. PICK v \in Words : v = a \div p /\ a \in Nat /\ v \in Nat
  BY <1>1, HostShr, WordRange
<1>3. \A k \in 0 .. XLEN - 1 : Bit(v, k) = IF k + n < XLEN THEN Bit(a, k + n) ELSE 0
  BY <1>1, <1>2, HostShr
<1> DEFINE S == {k \in 0 .. XLEN - 1 : (IF k + n < XLEN THEN k + n ELSE XLEN - 1) \in Bits(a)}
<1>4. CASE a < Half
  <2>1. XLEN - 1 \notin Bits(a)
    BY <1>2, <1>4, SignBit, WidthAssumption
  <2>2. ASSUME NEW k \in 0 .. XLEN - 1 PROVE Bit(v, k) = 1 <=> k \in S
    <3>1. CASE k + n < XLEN
      <4>1. k + n \in 0 .. XLEN - 1
        BY <3>1, WidthAssumption
      <4> QED BY <1>3, <3>1, <4>1, WordBits
    <3>2. CASE ~(k + n < XLEN)
      BY <1>3, <2>1, <3>2
    <3> QED BY <3>1, <3>2
  <2>3. OfBits(S) = v
    BY <2>2, OfBitsByBit
  <2>4. Signed(a) = a
    BY <1>4 DEF Signed
  <2> QED BY <1>1, <1>2, <2>3, <2>4, WordOfWord DEF sar
<1>5. CASE ~(a < Half)
  <2>1. XLEN - 1 \in Bits(a)
    BY <1>2, <1>5, SignBit, WidthAssumption
  <2>2. PICK b \in 0 .. XLEN - 1 : b = (XLEN - 1) - n
    BY WidthAssumption
  <2>3. b + 1 = XLEN - n /\ b + 1 \in 0 .. XLEN /\ b \in 0 .. XLEN /\ b + n = XLEN - 1
    BY <2>2, WidthAssumption
  <2>4. b \in Bits(v)
    <3>1. b + n < XLEN /\ b + n \in 0 .. XLEN - 1
      BY <2>3, WidthAssumption
    <3>2. Bit(v, b) = Bit(a, b + n)
      BY <1>3, <3>1
    <3>3. Bit(a, b + n) = 1
      BY <2>1, <2>3, <3>1, WordBits
    <3> QED BY <3>2, <3>3 DEF Bits
  <2>5. 2^b <= v /\ v < 2^(b + 1)
    <3>1. 2^b \in Nat
      BY <2>3, Powers
    <3>2. ~(v < 2^b)
      <4>1. Bit(v, b) = 1
        BY <2>4 DEF Bits
      <4> QED BY <1>2, <2>3, <4>1, BitOfSmall
    <3>3. v \in 0 .. 2^(XLEN - n) - 1
      BY <1>1, <1>2, QuotientFits, WidthAssumption
    <3>4. 2^(b + 1) \in Nat
      BY <2>3, Powers
    <3> QED BY <1>2, <2>3, <3>1, <3>2, <3>3, <3>4
  <2>6. PICK y \in Words : /\ y = (v + Modulus) - 2^(b + 1)
                           /\ OfBits(Bits(v) \cup (b .. XLEN - 1)) = y
    BY <1>2, <2>5, SignExtended
  <2>7. Bits(v) \cup (b .. XLEN - 1) = S
    <3>1. ASSUME NEW k \in 0 .. XLEN - 1
          PROVE  k \in S <=> k \in Bits(v) \cup (b .. XLEN - 1)
      <4>1. CASE k + n < XLEN
        <5>1. k + n \in 0 .. XLEN - 1 /\ k <= b
          BY <2>2, <4>1, WidthAssumption
        <5>2. k \in b .. XLEN - 1 => k = b
          BY <5>1
        <5>3. k \in S <=> k \in Bits(v)
          BY <1>3, <4>1, <5>1, WordBits
        <5> QED BY <2>4, <5>2, <5>3
      <4>2. CASE ~(k + n < XLEN)
        <5>1. k \in b .. XLEN - 1
          BY <2>2, <4>2, WidthAssumption
        <5> QED BY <2>1, <4>2, <5>1
      <4> QED BY <4>1, <4>2
    <3>2. Bits(v) \subseteq 0 .. XLEN - 1 /\ b .. XLEN - 1 \subseteq 0 .. XLEN - 1
      BY WidthAssumption DEF Bits
    <3>3. S \subseteq 0 .. XLEN - 1
      OBVIOUS
    <3> HIDE DEF S
    <3> QED BY <3>1, <3>2, <3>3
  <2>8. Word(Signed(a) \div p) = y
    <3>1. Signed(a) = a - Modulus
      BY <1>5 DEF Signed
    <3>2. PICK q \in Nat : q = 2^(b + 1) /\ Modulus = q * p
      <4>1. PICK e \in 0 .. XLEN : e = b + 1
        BY <2>3
      <4>2. e + n = XLEN /\ n \in 0 .. XLEN /\ e + n <= XLEN
        BY <2>3, <4>1, WidthAssumption
      <4>3. 2^(e + n) = 2^e * 2^n
        BY <4>2, PowerSum
      <4> QED BY <1>1, <4>1, <4>2, <4>3, WordRange, Powers
    <3>3. a - Modulus = (-q) * p + a
      <4>1. (-q) * p = -(q * p)
        BY <3>2
      <4> QED BY <1>2, <3>2, <4>1, WordRange
    <3>4. -q \in Int /\ a \in Int
      BY <1>2, <3>2
    <3>5. ((-q) * p + a) \div p = (-q) + (a \div p)
      BY <3>4, IntAddMultiple, Zenon
    <3>6. Signed(a) \div p = v - q
      BY <1>2, <3>1, <3>2, <3>3, <3>5
    <3>7. Modulus \in Nat \ {0} /\ y \in 0 .. Modulus - 1 /\ -1 \in Int
      BY WordRange DEF Words
    <3>8. v - q = (-1) * Modulus + y
      BY <1>2, <2>6, <3>2, <3>7
    <3>9. ((-1) * Modulus + y) % Modulus = y
      BY <3>7, IntQuotient, Zenon
    <3> QED BY <3>6, <3>8, <3>9 DEF Word
  <2> QED BY <1>1, <2>6, <2>7, <2>8 DEF sar
<1> QED BY <1>2, <1>4, <1>5, WidthAssumption

\* btr of the bit 0 rounds down to an even number.
LEMMA HostBtr ==
    ASSUME NEW a \in Words
    PROVE  btr0(a) = a - (a % 2) /\ btr0(a) \in Words /\ btr0(a) % 2 = 0
<1>1. a \in Nat /\ 0 \in 0 .. XLEN - 1
  BY WordRange, WidthAssumption
<1>2. PICK c \in Nat, b \in {0, 1} : a = 2 * c + b
  BY <1>1, Binary
<1>3. a % 2 = b /\ a - (a % 2) = 2 * c + 0
  BY <1>2, EvenOdd
<1>4. 2 * c + 0 \in Words
  BY <1>1, <1>2, WordRange DEF Words
<1>5. ASSUME NEW k \in 0 .. XLEN - 1 PROVE Bit(2 * c + 0, k) = 1 <=> k \in Bits(a) \ {0}
  <2>1. CASE k = 0
    <3>1. Bit(2 * c + 0, 0) = 0
      BY <1>2, BitZero, EvenOdd
    <3> QED BY <2>1, <3>1
  <2>2. CASE k # 0
    <3>1. k - 1 \in 0 .. XLEN - 1 /\ (k - 1) + 1 = k
      BY <2>2, WidthAssumption
    <3>2. Bit(2 * c + 0, k) = Bit(c, k - 1) /\ Bit(2 * c + b, k) = Bit(c, k - 1)
      BY <1>2, <3>1, BitAbove
    <3> QED BY <1>2, <2>2, <3>2, WordBits
  <2> QED BY <2>1, <2>2
<1>6. Bits(a) \ {0} \in SUBSET (0 .. XLEN - 1)
  BY DEF Bits
<1>7. btr0(a) = 2 * c + 0
  BY <1>4, <1>5, <1>6, OfBitsByBit DEF btr0
<1> QED BY <1>2, <1>3, <1>4, <1>7, EvenOdd

\* The mask of the shift counts is a remainder.
LEMMA HostCount ==
    ASSUME NEW b \in Words
    PROVE  shift_count(b) = b % XLEN /\ shift_count(b) \in 0 .. XLEN - 1
<1>1. PICK s \in 0 .. XLEN : XLEN = 2^s /\ s <= SraBit /\ SraBit \in 0 .. XLEN
  BY FieldAssumption, WidthAssumption
<1>2. PICK m \in Nat \ {0} : m = 2^s /\ XLEN = m /\ m - 1 \in Nat
  BY <1>1, Powers
<1>3. m - 1 \in Words /\ b \in Nat
  <2>1. PICK n \in 0 .. XLEN : n = XLEN
    BY WidthAssumption
  <2>2. s <= n
    BY <2>1, WidthAssumption
  <2>3. 2^s <= 2^n
    BY <2>2, PowerMultiple
  <2> QED BY <1>2, <2>1, <2>3, WordRange DEF Words
<1>4. ASSUME NEW k \in 0 .. XLEN - 1 PROVE Bit(m - 1, k) = 1 <=> k < s
  <2>1. k \in 0 .. XLEN
    BY WidthAssumption
  <2>2. PICK p \in Nat \ {0} : p = 2^k
    BY <2>1, Powers
  <2>3. CASE k < s
    <3>1. \E d \in Nat \ {0} : 2^s = (2 * d) * 2^k
      BY <2>1, <2>3, PowerMultiple
    <3>2. PICK c \in Nat \ {0} : m = (2 * c) * p
      BY <1>2, <2>2, <3>1
    <3>3. PICK e \in Nat, r \in Nat : e = c - 1 /\ r = (2 * p) - 1
      OBVIOUS
    <3>4. (2 * c) * p = (2 * e) * p + 2 * p /\ (2 * e) * p \in Nat
      BY <3>3
    <3>5. m - 1 = (2 * e) * p + r
      BY <3>2, <3>3, <3>4
    <3>6. Bit((2 * e) * p + r, k) = Bit(r, k)
      BY <2>1, <2>2, BitOfSum
    <3>7. Bit(r, k) = 1
      BY <2>1, <2>2, <3>3, BitOfTop
    <3> QED BY <2>3, <3>5, <3>6, <3>7
  <2>4. CASE ~(k < s)
    <3>1. 2^s <= 2^k
      BY <2>1, <2>4, PowerMultiple
    <3>2. m - 1 < 2^k
      BY <1>2, <2>2, <3>1
    <3> QED BY <1>2, <2>1, <2>4, <3>2, BitOfSmall
  <2> QED BY <2>3, <2>4
<1>5. PICK v \in 0 .. m - 1 : v = b % m
  BY <1>2, <1>3, Divided
<1>6. v \in Words
  BY <1>2, <1>3, <1>5, WordRange DEF Words
<1>7. ASSUME NEW k \in 0 .. XLEN - 1
      PROVE  Bit(v, k) = 1 <=> k \in Bits(b) \cap Bits(m - 1)
  <2>1. Bit(v, k) = IF k < s THEN Bit(b, k) ELSE 0
    BY <1>2, <1>3, <1>5, BitOfRemainder
  <2>2. k \in Bits(m - 1) <=> k < s
    BY <1>4 DEF Bits
  <2> QED BY <2>1, <2>2, WordBits
<1>8. Bits(b) \cap Bits(m - 1) \in SUBSET (0 .. XLEN - 1)
  BY DEF Bits
<1>9. OfBits(Bits(b) \cap Bits(m - 1)) = v
  BY <1>6, <1>7, <1>8, OfBitsByBit
<1> QED BY <1>2, <1>5, <1>9 DEF shift_count, andl

\* The halves of a product.
LEMMA HostProduct ==
    ASSUME NEW n \in Int
    PROVE  LowHigh(n).eax = Word(n) /\ LowHigh(n).edx = Word(n \div Modulus)
<1>1. PICK M \in Nat \ {0} : M = Modulus
  BY WordRange
<1>2. M * M \in Nat \ {0}
  OBVIOUS
<1>3. PICK c \in Int, d \in 0 .. (M * M) - 1 : d = n % (M * M) /\ n = c * (M * M) + d
  BY <1>2, IntDivided
<1>4. d \in Nat
  BY <1>2, <1>3
<1>5. PICK u \in Nat, v \in 0 .. M - 1 : u = d \div M /\ v = d % M /\ d = u * M + v
  BY <1>4, Divided
<1>6. u \in 0 .. M - 1
  <2> SUFFICES ASSUME u >= M PROVE FALSE
    BY <1>5
  <2>1. u * M >= M * M
    BY <1>5
  <2> QED BY <1>2, <1>3, <1>5, <2>1
<1>7. PICK q \in Int : q = c * M + u /\ n = q * M + v
  <2>1. c * (M * M) = (c * M) * M /\ c * M \in Int /\ (c * M) * M \in Int /\ u * M \in Int
    BY <1>3, <1>5
  <2>2. PICK e \in Int : e = c * M
    BY <2>1
  <2>3. (e + u) * M = e * M + u * M
    BY <1>1, <1>5, <2>2
  <2> QED BY <1>3, <1>5, <2>1, <2>2, <2>3
<1>8. (q * M + v) \div M = q /\ (q * M + v) % M = v
  BY <1>5, <1>7, IntQuotient
<1>9. (c * M + u) % M = u
  BY <1>3, <1>6, IntQuotient
<1> QED BY <1>1, <1>3, <1>5, <1>7, <1>8, <1>9 DEF LowHigh, Word

\* The low half of a product is the same for signed and unsigned factors.
LEMMA SignedProduct ==
    ASSUME NEW a \in Words, NEW b \in Words
    PROVE  Word(Signed(b) * Signed(a)) = Word(a * b)
<1>1. PICK M \in Nat \ {0} : M = Modulus /\ a \in Nat /\ b \in Nat
  BY WordRange
<1>2. PICK x \in {0, 1}, y \in {0, 1} : Signed(a) = a - x * M /\ Signed(b) = b - y * M
  BY <1>1 DEF Signed
<1>3. PICK c \in Int : c = ((x * y) * M - y * a) - x * b
  BY <1>1, <1>2
<1>4. (b - y * M) * (a - x * M) = c * M + a * b
  <2>1. CASE x = 0 /\ y = 0
    BY <1>1, <1>3, <2>1
  <2>2. CASE x = 1 /\ y = 0
    BY <1>1, <1>3, <2>2
  <2>3. CASE x = 0 /\ y = 1
    BY <1>1, <1>3, <2>3
  <2>4. CASE x = 1 /\ y = 1
    BY <1>1, <1>3, <2>4
  <2> QED BY <1>2, <2>1, <2>2, <2>3, <2>4
<1>5. PICK p \in Int : p = a * b
  BY <1>1
<1>6. (c * M + p) % M = p % M
  BY <1>5, IntAddMultiple
<1> QED BY <1>1, <1>2, <1>4, <1>5, <1>6 DEF Word

\* The high half of a product of words is a word.
LEMMA HighUnsigned ==
    ASSUME NEW a \in Words, NEW b \in Words
    PROVE  (a * b) \div Modulus \in Words
<1>1. PICK M \in Nat \ {0} : M = Modulus /\ a \in 0 .. M - 1 /\ b \in 0 .. M - 1
  BY WordRange DEF Words
<1>2. a * b \in Nat /\ a * b < M * M
  <2>1. a * b <= a * M /\ a * M < M * M
    BY <1>1
  <2> QED BY <1>1, <2>1
<1>3. PICK u \in Nat, v \in 0 .. M - 1 : u = (a * b) \div M /\ a * b = u * M + v
  BY <1>2, Divided
<1>4. u < M
  <2> SUFFICES ASSUME u >= M PROVE FALSE
    BY <1>3
  <2>1. u * M >= M * M
    BY <1>3
  <2> QED BY <1>2, <1>3, <2>1
<1> QED BY <1>1, <1>3, <1>4 DEF Words

-----------------------------------------------------------------------------
(* Addresses.                                                              *)

\* A sum may be reduced to a word before or after a term of it is.
LEMMA WordOfSum ==
    ASSUME NEW p \in Int, NEW x \in Int
    PROVE  Word(p + Word(x)) = Word(p + x) /\ Word(Word(x) + p) = Word(p + x)
<1>1. PICK M \in Nat \ {0} : M = Modulus
  BY WordRange
<1>2. PICK q \in Int, r \in 0 .. M - 1 : r = x % M /\ x = q * M + r
  BY <1>1, IntDivided
<1>3. PICK y \in Int : y = p + r /\ y = r + p
  <2>1. r \in Int
    BY <1>1
  <2> QED BY <2>1
<1>4. p + x = q * M + y
  BY <1>1, <1>2, <1>3
<1>5. (q * M + y) % M = y % M
  BY <1>3, IntAddMultiple
<1> QED BY <1>1, <1>2, <1>3, <1>4, <1>5 DEF Word

\* Reduction to a word keeps an even number even.
LEMMA WordOfEven ==
    ASSUME NEW c \in Int
    PROVE  Word(2 * c) \in Words /\ Word(2 * c) % 2 = 0
<1>1. PICK h \in Nat \ {0} : h = Half /\ Modulus = 2 * h /\ 2 * h \in Nat \ {0}
  BY WidthAssumption DEF Modulus
<1>2. 2 * c \in Int
  OBVIOUS
<1>3. PICK q \in Int, r \in Int : r = (2 * c) % (2 * h) /\ 2 * c = q * (2 * h) + r
  <2>1. PICK m \in Nat \ {0}, x \in Int : m = 2 * h /\ x = 2 * c
    BY <1>1, <1>2
  <2>2. x \div m \in Int /\ x % m \in 0 .. m - 1 /\ x = (x \div m) * m + (x % m)
    BY IntDivided
  <2>3. x % m \in Int
    BY <2>2
  <2> QED BY <2>1, <2>2, <2>3
<1>4. PICK d \in Int : d = q * h
  BY <1>1, <1>3
<1>5. q * (2 * h) = 2 * d
  BY <1>1, <1>3, <1>4
<1>6. r = 2 * (c - d)
  BY <1>3, <1>4, <1>5
<1>7. r % 2 = 0
  BY <1>3, <1>4, <1>6
<1>8. Word(2 * c) \in Words
  BY <1>2, WordIsWord
<1> QED BY <1>1, <1>3, <1>7, <1>8 DEF Word

\* The target of a jump by an even offset is even.
LEMMA EvenTarget ==
    ASSUME NEW p \in Words, p % 2 = 0, NEW c \in Int, NEW w \in Words, w = Word(2 * c)
    PROVE  /\ addl(p, w) = Word(p + 2 * c)
           /\ addl(p, w) \in Words /\ addl(p, w) % 2 = 0
<1>1. p \in Nat /\ 2 * c \in Int
  BY WordRange
<1>2. addl(p, w) = Word(p + w)
  BY HostSum
<1>3. addl(p, w) = Word(p + 2 * c)
  <2>1. PICK x \in Int : x = 2 * c /\ p \in Int
    BY <1>1
  <2>2. Word(p + Word(x)) = Word(p + x)
    BY <2>1, WordOfSum
  <2> QED BY <1>2, <2>1, <2>2
<1>4. PICK e \in Int : p = 2 * e
  BY <1>1, IntDivided
<1>5. PICK d \in Int : d = e + c /\ p + 2 * c = 2 * d
  BY <1>4
<1> QED BY <1>3, <1>5, WordOfEven

\* The next instruction is four bytes on, the address wrapping at the end.
LEMMA FallsThrough ==
    ASSUME NEW p \in Words, p % 2 = 0
    PROVE  /\ addl(p, 4 % Modulus) = Word(p + 4)
           /\ addl(p, 4 % Modulus) \in Words /\ addl(p, 4 % Modulus) % 2 = 0
<1>1. PICK w \in Words : w = 4 % Modulus
  BY WordIsWord DEF Word
<1>2. PICK c \in Int : c = 2
  OBVIOUS
<1>3. w = Word(2 * c) /\ 2 * c = 4
  BY <1>1, <1>2 DEF Word
<1>4. addl(p, w) = Word(p + 2 * c) /\ addl(p, w) \in Words /\ addl(p, w) % 2 = 0
  BY <1>3, EvenTarget
<1> QED BY <1>1, <1>3, <1>4

-----------------------------------------------------------------------------
(* What a block that falls through leaves.                                 *)

\* The operands of the block are the registers, which x0 is one of.
LEMMA Registers ==
    ASSUME TypeOK, NEW x \in Regs
    PROVE  Read(regs, x) = regs[x] /\ regs[x] \in Words /\ 0 \in Regs /\ regs[0] = 0
  BY FieldAssumption DEF TypeOK, Read, Regs

\* The registers a jump or an arithmetic block leaves.
LEMMA RegisterWritten ==
    ASSUME TypeOK, NEW x \in Regs, NEW v \in Words
    PROVE  /\ RESET_ZERO_REGISTER([regs EXCEPT ![x] = v]) = Write(regs, x, v)
           /\ Write(regs, x, v) \in [Regs -> Words]
           /\ Write(regs, x, v)[0] = 0
<1>1. 0 \in Regs /\ 0 \in Words /\ regs \in [Regs -> Words] /\ regs[0] = 0
  BY FieldAssumption, WordRange DEF TypeOK, Regs, Words
<1>2. RESET_ZERO_REGISTER([regs EXCEPT ![x] = v]) = Write(regs, x, v)
  <2>1. CASE x = 0
    BY <1>1, <2>1 DEF RESET_ZERO_REGISTER, Write
  <2>2. CASE x # 0
    BY <1>1, <2>2 DEF RESET_ZERO_REGISTER, Write
  <2> QED BY <2>1, <2>2
<1>3. Write(regs, x, v) \in [Regs -> Words] /\ Write(regs, x, v)[0] = 0
  BY <1>1 DEF Write
<1> QED BY <1>2, <1>3

\* A block that writes a word to rd and falls through.
LEMMA Written ==
    ASSUME TypeOK, NEW i, i.rd \in Regs, NEW v \in Words
    PROVE  /\ WriteRd(i, v).regs = Write(regs, i.rd, v)
           /\ WriteRd(i, v).pc = Word(pc + 4)
           /\ WriteRd(i, v).stopped = "no"
           /\ WriteRd(i, v).regs \in [Regs -> Words] /\ WriteRd(i, v).regs[0] = 0
           /\ WriteRd(i, v).pc \in Words /\ WriteRd(i, v).pc % 2 = 0
<1>1. /\ RESET_ZERO_REGISTER([regs EXCEPT ![i.rd] = v]) = Write(regs, i.rd, v)
      /\ Write(regs, i.rd, v) \in [Regs -> Words]
      /\ Write(regs, i.rd, v)[0] = 0
  BY RegisterWritten
<1>2. /\ PROCEED_TO_NEXT_INSTRUCTION(pc) = Word(pc + 4)
      /\ PROCEED_TO_NEXT_INSTRUCTION(pc) \in Words /\ PROCEED_TO_NEXT_INSTRUCTION(pc) % 2 = 0
  BY FallsThrough DEF TypeOK, PROCEED_TO_NEXT_INSTRUCTION
<1> QED BY <1>1, <1>2 DEF WriteRd

-----------------------------------------------------------------------------
(* Immediates.                                                             *)

\* The immediate of an I type instruction: sign_extend32 gives the word the
\* architecture asks for.
LEMMA Immediate ==
    ASSUME NEW imm \in 0 .. 2^ImmBits - 1
    PROVE  /\ imm \in Words /\ SignedField(imm, ImmBits) \in Int
           /\ sign_extend32(imm, ImmBits - 1) \in Words
           /\ sign_extend32(imm, ImmBits - 1) = Word(SignedField(imm, ImmBits))
           /\ \/ Word(SignedField(imm, ImmBits)) = imm
              \/ Word(SignedField(imm, ImmBits)) = (imm + Modulus) - 2^ImmBits
<1>1. PICK n \in 1 .. XLEN : n = ImmBits
  BY FieldAssumption
<1>2. PICK b \in 0 .. XLEN - 1 : b = n - 1 /\ b + 1 = n
  BY WidthAssumption
<1>3. 2^b \in Nat \ {0} /\ 2^(b + 1) \in Nat \ {0}
  BY PowerStep
<1>4. imm \in 0 .. 2^(b + 1) - 1
  BY <1>1, <1>2
<1>5. /\ sign_extend32(imm, b) \in Words
      /\ sign_extend32(imm, b) = IF imm < 2^b THEN imm ELSE (imm + Modulus) - 2^(b + 1)
      /\ sign_extend32(imm, b) = Word(SignedField(imm, b + 1))
  BY <1>4, SignExtends
<1>6. SignedField(imm, n) \in Int
  BY <1>2, <1>3, <1>4 DEF SignedField
<1>7. imm \in Words
  <2>1. PICK m \in 0 .. XLEN : m = XLEN /\ n \in 0 .. XLEN /\ n <= m
    BY WidthAssumption
  <2>2. 2^n <= 2^m /\ 2^m \in Nat
    BY <2>1, PowerMultiple, Powers
  <2> QED BY <1>1, <1>2, <1>3, <2>1, <2>2, WordRange
<1> QED BY <1>1, <1>2, <1>5, <1>6, <1>7

\* The offset of a branch or of jal: sign_extend32 of twice the field is twice
\* the value of the field.
LEMMA Offset ==
    ASSUME NEW n \in 1 .. XLEN - 1, NEW imm \in 0 .. 2^n - 1
    PROVE  /\ SignedField(imm, n) \in Int
           /\ sign_extend32(2 * imm, n) \in Words
           /\ sign_extend32(2 * imm, n) = Word(2 * SignedField(imm, n))
<1>1. PICK b \in 0 .. XLEN - 1 : b = n - 1 /\ b + 1 = n
  BY WidthAssumption
<1>2. PICK p \in Nat \ {0} : p = 2^b /\ 2^n = 2 * p
  BY <1>1, PowerStep
<1>3. 2^(n + 1) = 2 * (2 * p) /\ n \in 0 .. XLEN - 1
  BY <1>2, PowerStep, WidthAssumption
<1>4. imm \in Nat /\ imm < 2 * p
  BY <1>2
<1>5. PICK x \in Nat : x = 2 * imm /\ x \in 0 .. 2^(n + 1) - 1
  BY <1>3, <1>4
<1>6. sign_extend32(x, n) \in Words /\ sign_extend32(x, n) = Word(SignedField(x, n + 1))
  BY <1>3, <1>5, SignExtends
<1>7. SignedField(imm, n) = IF imm < p THEN imm ELSE imm - 2 * p
  BY <1>1, <1>2 DEF SignedField
<1>8. (n + 1) - 1 = n
  OBVIOUS
<1>9. SignedField(x, n + 1) = IF x < 2 * p THEN x ELSE x - 2 * (2 * p)
  BY <1>2, <1>3, <1>8 DEF SignedField
<1>10. SignedField(x, n + 1) = 2 * SignedField(imm, n) /\ SignedField(imm, n) \in Int
  BY <1>4, <1>5, <1>7, <1>9
<1> QED BY <1>5, <1>6, <1>10

\* The count of a shift by an immediate, which the blocks take from the field
\* as it is.
LEMMA ImmediateCount ==
    ASSUME NEW imm \in 0 .. 2^ImmBits - 1
    PROVE  shift_count(imm) = Word(SignedField(imm, ImmBits)) % XLEN
<1>1. PICK s \in 0 .. XLEN, n \in 0 .. XLEN : XLEN = 2^s /\ n = ImmBits /\ s <= n
  BY FieldAssumption, WidthAssumption
<1>2. PICK m \in Nat \ {0} : m = XLEN /\ m = 2^s
  BY <1>1, WidthAssumption
<1>3. PICK d \in Nat \ {0} : 2^n = d * m
  BY <1>1, <1>2, PowerMultiple
<1>4. PICK c \in Nat \ {0} : Modulus = c * 2^n
  BY WordMultiple
<1>5. imm \in Words /\ imm \in Nat
  BY Immediate, WordRange
<1>6. shift_count(imm) = imm % m
  BY <1>2, <1>5, HostCount
<1>7. CASE Word(SignedField(imm, ImmBits)) = imm
  BY <1>2, <1>6, <1>7
<1>8. CASE Word(SignedField(imm, ImmBits)) = (imm + Modulus) - 2^ImmBits
  <2>1. PICK p \in Nat \ {0} : p = 2^n /\ p = d * m
    BY <1>1, <1>3, Powers
  <2>2. PICK k \in Nat : k = c - 1
    BY <1>4
  <2>3. c * p = k * p + p /\ k * p \in Nat
    BY <1>4, <2>1, <2>2
  <2>4. PICK e \in Nat : e = k * d /\ e * m = k * (d * m)
    BY <1>2, <1>3, <2>2
  <2>5. (imm + Modulus) - 2^ImmBits = k * p + imm
    BY <1>1, <1>4, <1>5, <2>1, <2>3
  <2>6. k * p + imm = e * m + imm
    BY <2>1, <2>4
  <2>7. (e * m + imm) % m = imm % m
    BY <1>5, <2>4, AddMultiple
  <2> QED BY <1>2, <1>6, <1>8, <2>5, <2>6, <2>7
<1> QED BY <1>7, <1>8, Immediate

\* The bit of the field that tells srai from srli.
LEMMA RightShift ==
    ASSUME NEW imm \in 0 .. 2^ImmBits - 1
    PROVE  /\ imm < XLEN => riscv_right_shift_translator(imm) = "srl"
           /\ imm - 2^SraBit \in 0 .. XLEN - 1 => riscv_right_shift_translator(imm) = "sra"
<1>1. PICK k \in 0 .. XLEN : k = SraBit /\ XLEN <= 2^k
  BY FieldAssumption, WidthAssumption
<1>2. PICK p \in Nat \ {0} : p = 2^k
  BY Powers
<1>3. imm \in Nat /\ XLEN \in Nat
  BY Immediate, WordRange, WidthAssumption
<1>4. ASSUME imm < XLEN PROVE Bit(imm, k) = 0
  BY <1>1, <1>2, <1>3, <1>4, BitOfSmall
<1>5. ASSUME imm - p \in 0 .. XLEN - 1 PROVE Bit(imm, k) = 1
  <2>1. p <= imm /\ imm < 2 * p
    BY <1>1, <1>2, <1>3, <1>5
  <2> QED BY <1>2, <1>3, <2>1, BitOfTop
<1> QED BY <1>1, <1>2, <1>4, <1>5 DEF riscv_right_shift_translator

\* The immediate of lui and auipc fits a word.
LEMMA Upper ==
    ASSUME NEW imm \in 0 .. 2^(XLEN - UpperShift) - 1
    PROVE  /\ shl(imm, UpperShift) = imm * 2^UpperShift
           /\ imm * 2^UpperShift \in Words
<1>1. PICK n \in 0 .. XLEN - 1 : n = UpperShift
  BY FieldAssumption
<1>2. PICK k \in 0 .. XLEN : k = XLEN - n /\ k + n = XLEN /\ n \in 0 .. XLEN /\ k + n <= XLEN
  BY WidthAssumption
<1>3. PICK p \in Nat \ {0}, q \in Nat \ {0} : p = 2^n /\ q = 2^k
  BY <1>2, Powers
<1>4. Modulus = q * p
  BY <1>2, <1>3, PowerSum, WordRange
<1>5. imm \in Nat /\ imm <= q - 1
  BY <1>1, <1>2, <1>3
<1>6. imm * p <= (q - 1) * p /\ (q - 1) * p = q * p - p /\ imm * p \in Nat
  BY <1>3, <1>5
<1>7. imm * p \in Words
  BY <1>3, <1>4, <1>6 DEF Words
<1>8. imm \in Words
  <2>1. q <= q * p /\ q * p \in Nat
    BY <1>3
  <2> QED BY <1>4, <1>5, <2>1 DEF Words
<1>9. shl(imm, n) = Word(imm * 2^n)
  BY <1>8, HostShl
<1> QED BY <1>1, <1>3, <1>7, <1>9, WordOfWord

-----------------------------------------------------------------------------
(* Comparisons and divisions.                                              *)

\* The flags after cmpl: the sign of the difference corrected by the overflow
\* flag is the order of the signed values.
LEMMA LessIsSignedOrder ==
    ASSUME NEW a \in Words, NEW b \in Words
    PROVE  less(a, b) <=> Signed(a) < Signed(b)
<1>1. Half \in Nat \ {0}
  BY WidthAssumption
<1>2. CASE a < Half /\ b < Half
  BY <1>1, <1>2 DEF less, SF, OF, subl, Signed, Words, Modulus
<1>3. CASE a >= Half /\ b >= Half
  BY <1>1, <1>3 DEF less, SF, OF, subl, Signed, Words, Modulus
<1>4. CASE a < Half /\ b >= Half
  BY <1>1, <1>4 DEF less, SF, OF, subl, Signed, Words, Modulus
<1>5. CASE a >= Half /\ b < Half
  BY <1>1, <1>5 DEF less, SF, OF, subl, Signed, Words, Modulus
<1> QED
  BY <1>1, <1>2, <1>3, <1>4, <1>5 DEF Words, Modulus

\* The comparisons and branches of the blocks (translate_arithmetic.c,

\* A quotient is not larger than its dividend, and smaller when it divides by
\* two or more.
LEMMA QuotientIsSmall ==
    ASSUME NEW n \in Nat, NEW d \in Nat \ {0}
    PROVE  /\ n \div d \in Nat
           /\ n \div d <= n
           /\ (d >= 2 /\ n > 0) => n \div d < n
           /\ d = 1 => n \div d = n
<1> DEFINE q == n \div d
<1>1. /\ q \in Int
      /\ d * q <= n
      /\ n < d * q + d
  BY Z3
<1>2. q >= 0
  <2> SUFFICES ASSUME q <= -1 PROVE FALSE
    BY <1>1
  <2>1. d * q <= -d
    BY <1>1
  <2> QED
    BY <1>1, <2>1
<1>3. q <= d * q
  BY <1>1, <1>2
<1>4. d >= 2 => 2 * q <= d * q
  BY <1>1, <1>2
<1>5. d = 1 => d * q = q
  BY <1>1
<1> QED
  BY <1>1, <1>2, <1>3, <1>4, <1>5

\* idiv faults on no non-zero divisor but -1, and then on one dividend only.
LEMMA IdivFaultsOnlyOnOverflow ==
    ASSUME NEW a \in Words, NEW b \in Words, b # 0
    PROVE  idivFaults(a, b) <=> (a = Half /\ b = Modulus - 1)
<1> DEFINE n == Signed(a)
           d == Signed(b)
           q == Abs(n) \div Abs(d)
<1>1. Half \in Nat \ {0}
  BY WidthAssumption
<1>2. /\ n \in -Half .. Half - 1
      /\ d \in -Half .. Half - 1
      /\ d # 0
  BY <1>1 DEF Signed, Words, Modulus
<1>3. /\ Abs(n) \in 0 .. Half
      /\ Abs(d) \in 1 .. Half
      /\ Abs(n) \in Nat
      /\ Abs(d) \in Nat \ {0}
  BY <1>1, <1>2 DEF Abs
<1>4. /\ q \in Nat
      /\ q <= Abs(n)
      /\ (Abs(d) >= 2 /\ Abs(n) > 0) => q < Abs(n)
      /\ Abs(d) = 1 => q = Abs(n)
  BY <1>3, QuotientIsSmall
<1>5. n = -Half <=> a = Half
  BY <1>1 DEF Signed, Words, Modulus
<1>6. d = -1 <=> b = Modulus - 1
  BY <1>1 DEF Signed, Words, Modulus
<1> HIDE DEF n, d, q
<1>7. Quotient(n, d) \notin -Half .. Half - 1 <=> (n = -Half /\ d = -1)
  <2>1. Quotient(n, d) = IF (n < 0 <=> d < 0) THEN q ELSE -q
    BY DEF Quotient, q
  <2>2. q \in 0 .. Half
    BY <1>1, <1>3, <1>4
  <2>3. CASE ~ (n < 0 <=> d < 0)
    <3>1. -q \in -Half .. Half - 1
      BY <1>1, <2>2
    <3>2. ~ (n = -Half /\ d = -1)
      BY <1>1, <2>3
    <3> QED
      BY <2>1, <2>3, <3>1, <3>2
  <2>4. CASE (n < 0 <=> d < 0)
    <3>1. q \notin -Half .. Half - 1 <=> q = Half
      BY <1>1, <2>2
    <3>2. q = Half => Abs(n) = Half /\ Abs(d) = 1
      BY <1>1, <1>3, <1>4
    <3>3. Abs(n) = Half => n = -Half
      BY <1>1, <1>2 DEF Abs
    <3>4. Abs(d) = 1 /\ n = -Half => d = -1
      BY <1>1, <1>2, <2>4 DEF Abs
    <3>5. n = -Half /\ d = -1 => q = Half
      <4>1. n = -Half => Abs(n) = Half
        BY <1>1, <1>2 DEF Abs
      <4>2. d = -1 => Abs(d) = 1
        <5>1. d \in Int
          BY <1>1, <1>2
        <5>2. d < 0 => Abs(d) = -d
          BY <5>1 DEF Abs
        <5>3. d = -1 => d + 1 = 0
          BY <5>1
        <5>4. d + 1 = 0 => d < 0 /\ -d = 1
          BY <5>1
        <5> QED
          BY <5>2, <5>3, <5>4
      <4> QED
        BY <1>4, <4>1, <4>2
    <3> QED
      BY <2>1, <2>4, <3>1, <3>2, <3>3, <3>4, <3>5
  <2> QED
    BY <2>3, <2>4
<1> QED
  BY <1>5, <1>6, <1>7 DEF n, d, idivFaults

-----------------------------------------------------------------------------
(* What each operation computes.                                           *)

\* The results of the operations without a shift, of a register or an
\* immediate, are those of the architecture.
LEMMA Computes ==
    ASSUME NEW i, NEW a \in Words, NEW b \in Words,
           NEW op \in {"add", "sub", "and", "or", "xor", "slt", "sltu"}
    PROVE  \E v \in Words : arithmetic_block(op, i, a, b) = WriteRd(i, v)
                            /\ v = Result(op, a, b)
<1>1. CASE op = "add"
  <2>1. addl(a, b) \in Words /\ addl(a, b) = Word(a + b)
    BY HostSum
  <2> QED BY <1>1, <2>1 DEF arithmetic_block, Result
<1>2. CASE op = "sub"
  <2>1. subl(a, b) \in Words /\ subl(a, b) = Word(a - b)
    BY HostSum
  <2> QED BY <1>2, <2>1 DEF arithmetic_block, Result
<1>3. CASE op = "and"
  <2>1. andl(a, b) \in Words /\ andl(a, b) = Bitwise(And, a, b)
    BY HostLogic
  <2> QED BY <1>3, <2>1 DEF arithmetic_block, Result
<1>4. CASE op = "or"
  <2>1. orl(a, b) \in Words /\ orl(a, b) = Bitwise(Or, a, b)
    BY HostLogic
  <2> QED BY <1>4, <2>1 DEF arithmetic_block, Result
<1>5. CASE op = "xor"
  <2>1. xorl(a, b) \in Words /\ xorl(a, b) = Bitwise(Xor, a, b)
    BY HostLogic
  <2> QED BY <1>5, <2>1 DEF arithmetic_block, Result
<1>6. 0 \in Words /\ 1 \in Words
  BY WidthAssumption DEF Words, Modulus
<1>7. CASE op = "slt"
  <2>1. slt_block(a, b) = Result(op, a, b) /\ slt_block(a, b) \in Words
    BY <1>6, <1>7, LessIsSignedOrder DEF slt_block, Result
  <2> QED BY <1>7, <2>1 DEF arithmetic_block
<1>8. CASE op = "sltu"
  <2>1. sltu_block(a, b) = Result(op, a, b) /\ sltu_block(a, b) \in Words
    BY <1>6, <1>8 DEF sltu_block, Result, below, CF
  <2> QED BY <1>8, <2>1 DEF arithmetic_block
<1> QED BY <1>1, <1>2, <1>3, <1>4, <1>5, <1>7, <1>8

\* So are those of the shifts, by a count that the mask makes the one the
\* architecture takes from its operand w.
LEMMA Shifts ==
    ASSUME NEW i, NEW a \in Words, NEW b \in Words, NEW w, shift_count(b) = w % XLEN,
           NEW op \in {"sll", "srl", "sra"}
    PROVE  \E v \in Words : arithmetic_block(op, i, a, b) = WriteRd(i, v)
                            /\ v = Result(op, a, w)
<1>1. PICK n \in 0 .. XLEN - 1 : n = shift_count(b) /\ n = w % XLEN
  BY HostCount
<1>2. CASE op = "sll"
  <2>1. shl(a, n) \in Words /\ shl(a, n) = Word(a * 2^n)
    BY HostShl
  <2> QED BY <1>1, <1>2, <2>1 DEF arithmetic_block, Result
<1>3. CASE op = "srl"
  <2>1. shr(a, n) \in Words /\ shr(a, n) = a \div 2^n
    BY HostShr
  <2> QED BY <1>1, <1>3, <2>1 DEF arithmetic_block, Result
<1>4. CASE op = "sra"
  <2>1. sar(a, n) \in Words /\ sar(a, n) = Word(Signed(a) \div 2^n)
    BY HostSar
  <2> QED BY <1>1, <1>4, <2>1 DEF arithmetic_block, Result
<1> QED BY <1>2, <1>3, <1>4

\* The signed value of a word is an integer, zero for zero alone.
LEMMA SignedIsInt ==
    ASSUME NEW a \in Words PROVE Signed(a) \in Int /\ a \in Int /\ (a # 0 => Signed(a) # 0)
  BY WidthAssumption DEF Signed, Words, Modulus

\* The quotient and the remainder of signed words are integers.
LEMMA SignedDivision ==
    ASSUME NEW a \in Words, NEW b \in Words, b # 0
    PROVE  /\ Quotient(Signed(a), Signed(b)) \in Int
           /\ Remainder(Signed(a), Signed(b)) \in Int
<1>1. PICK n \in Int, d \in Int : n = Signed(a) /\ d = Signed(b) /\ d # 0
  BY SignedIsInt
<1>2. Abs(n) \in Nat /\ Abs(d) \in Nat \ {0}
  BY <1>1 DEF Abs
<1>3. PICK q \in Nat : q = Abs(n) \div Abs(d)
  BY <1>2, QuotientIsSmall
<1>4. PICK k \in Int : k = Quotient(n, d)
  BY <1>3 DEF Quotient
<1>5. n - d * k \in Int
  BY <1>1, <1>4
<1> QED BY <1>1, <1>4, <1>5 DEF Remainder

\* The products, low and high, signed, unsigned and mixed.
LEMMA Multiplies ==
    ASSUME NEW i, NEW a \in Words, NEW b \in Words,
           NEW op \in {"mul", "mulh", "mulhsu", "mulhu"}
    PROVE  \E v \in Words : mul_div_block(op, i, a, b) = WriteRd(i, v)
                            /\ v = Result(op, a, b)
<1>1. PICK x \in Int, y \in Int : x = Signed(a) /\ y = Signed(b) /\ a \in Int /\ b \in Int
  BY SignedIsInt
<1>2. PICK n \in Int, m \in Int, l \in Int :
         n = y * x /\ n = x * y /\ m = x * b /\ l = b * a /\ l = a * b
  BY <1>1
<1>3. Modulus \in Nat \ {0}
  BY WordRange
<1>4. \A k \in Int : LowHigh(k).eax = Word(k) /\ LowHigh(k).edx = Word(k \div Modulus)
                     /\ Word(k) \in Words /\ Word(k \div Modulus) \in Words
  BY <1>3, HostProduct, WordIsWord, IntDivided
<1>5. CASE op = "mul"
  <2>1. Word(n) = Word(l)
    BY <1>1, <1>2, SignedProduct
  <2>2. imul(b, a).eax = Word(l) /\ Word(l) \in Words
    BY <1>1, <1>2, <1>4, <2>1 DEF imul
  <2> QED BY <1>2, <1>5, <2>2 DEF mul_div_block, Result
<1>6. CASE op = "mulh"
  <2>1. imul(b, a).edx = Word(n \div Modulus) /\ Word(n \div Modulus) \in Words
    BY <1>1, <1>2, <1>4 DEF imul
  <2> QED BY <1>1, <1>2, <1>6, <2>1 DEF mul_div_block, Result
<1>7. CASE op = "mulhsu"
  <2>1. mulhsu_block(a, b) = Word(m \div Modulus) /\ Word(m \div Modulus) \in Words
    BY <1>1, <1>2, <1>4 DEF mulhsu_block
  <2> QED BY <1>1, <1>2, <1>7, <2>1 DEF mul_div_block, Result
<1>8. CASE op = "mulhu"
  <2>1. l \div Modulus \in Words
    BY <1>2, HighUnsigned
  <2>2. mul(b, a).edx = l \div Modulus
    BY <1>2, <1>4, <2>1, WordOfWord DEF mul
  <2> QED BY <1>2, <1>8, <2>1, <2>2 DEF mul_div_block, Result
<1> QED BY <1>5, <1>6, <1>7, <1>8

\* A division faults, or computes what the architecture asks for.
LEMMA Divides ==
    ASSUME NEW i, NEW a \in Words, NEW b \in Words, NEW op \in {"div", "divu", "rem", "remu"}
    PROVE  \/ mul_div_block(op, i, a, b) = Stop("SIGFPE")
           \/ \E v \in Words : mul_div_block(op, i, a, b) = WriteRd(i, v)
                               /\ v = Result(op, a, b)
<1>1. Modulus - 1 \in Words
  BY WordRange DEF Words
<1>2. b # 0 => /\ a \div b \in Words /\ a % b \in Words
               /\ Word(Quotient(Signed(a), Signed(b))) \in Words
               /\ Word(Remainder(Signed(a), Signed(b))) \in Words
  <2> SUFFICES ASSUME b # 0
               PROVE  /\ a \div b \in Words /\ a % b \in Words
                      /\ Word(Quotient(Signed(a), Signed(b))) \in Words
                      /\ Word(Remainder(Signed(a), Signed(b))) \in Words
    OBVIOUS
  <2>1. a \in Nat /\ b \in Nat \ {0}
    BY WordRange
  <2>2. a \div b \in Nat /\ a \div b <= a
    BY <2>1, QuotientIsSmall
  <2>3. a % b \in 0 .. b - 1
    BY <2>1, IntDivided
  <2>4. a \div b \in Words /\ a % b \in Words
    BY <2>1, <2>2, <2>3, WordRange DEF Words
  <2> QED BY <2>4, SignedDivision, WordIsWord
<1>3. CASE op = "div"
  <2>1. mul_div_block(op, i, a, b) = div_block(i, a, b)
    BY <1>3 DEF mul_div_block
  <2>2. CASE b = 0
    BY <1>1, <1>3, <2>1, <2>2 DEF div_block, Result
  <2>3. CASE b # 0 /\ ~ idivFaults(a, b)
    BY <1>2, <1>3, <2>1, <2>3 DEF div_block, Result, idiv
  <2>4. CASE b # 0 /\ idivFaults(a, b)
    BY <2>1, <2>4 DEF div_block
  <2> QED BY <2>2, <2>3, <2>4
<1>4. CASE op = "divu"
  <2>1. mul_div_block(op, i, a, b) = divu_block(i, a, b)
    BY <1>4 DEF mul_div_block
  <2> QED BY <1>1, <1>2, <1>4, <2>1 DEF divu_block, Result, div
<1>5. CASE op = "rem"
  <2>1. mul_div_block(op, i, a, b) = rem_block(i, a, b)
    BY <1>5 DEF mul_div_block
  <2>2. b = 0 => idivFaults(a, b)
    BY DEF idivFaults
  <2> QED BY <1>2, <1>5, <2>1, <2>2 DEF rem_block, Result, idiv
<1>6. CASE op = "remu"
  <2>1. mul_div_block(op, i, a, b) = remu_block(i, a, b)
    BY <1>6 DEF mul_div_block
  <2> QED BY <1>2, <1>6, <2>1 DEF remu_block, Result, div, divFaults
<1> QED BY <1>3, <1>4, <1>5, <1>6

-----------------------------------------------------------------------------
(* What each format does.                                                  *)

\* The parts of TypeOK and of BlocksMatchIsa that are about one block.
BlockTyped(b) ==
    /\ b.regs \in [Regs -> Words] /\ b.regs[0] = 0
    /\ b.pc \in Words /\ b.pc % 2 = 0
    /\ b.stopped \in {"no", "SIGFPE", "assert"}

BlockMatches(i, b) ==
    (Op(i) # "reserved" /\ b.stopped = "no") =>
        /\ b.regs = RegsAfter(i, regs, pc)
        /\ b.pc = PcAfter(i, regs, pc)

\* A block that stops the emulator leaves everything as it was.
LEMMA Stopping ==
    ASSUME TypeOK, NEW why \in {"SIGFPE", "assert"}, NEW i
    PROVE  BlockTyped(Stop(why)) /\ BlockMatches(i, Stop(why))
  BY DEF TypeOK, BlockTyped, BlockMatches, Stop

\* Type R: the decoding of funct3 and funct7, and then the operation.
LEMMA RegisterBlock ==
    ASSUME TypeOK, NEW i \in Instr, i.fmt = "R"
    PROVE  BlockTyped(Block(i)) /\ BlockMatches(i, Block(i))
<1> DEFINE op == riscv_arithmetic_instructions_translation_entry(i.f3, i.f7)
<1>1. /\ i.f3 \in {0, 1, 2, 3, 4, 5, 6, 7} /\ i.f7 \in {0, 1, 2, 32}
      /\ i.rd \in Regs /\ i.rs1 \in Regs /\ i.rs2 \in Regs
  BY DEF Instr, Funct3, Funct7
<1>2. PICK a \in Words, b \in Words : /\ a = regs[i.rs1] /\ a = Read(regs, i.rs1)
                                      /\ b = regs[i.rs2] /\ b = Read(regs, i.rs2)
  BY <1>1, Registers
<1>3. Op(i) = RegisterOp(i.f3, i.f7)
  BY DEF Op
<1>4. /\ i.f7 = 1 => Block(i) = mul_div_block(op, i, a, b)
      /\ i.f7 # 1 => Block(i) = arithmetic_block(op, i, a, b)
  BY <1>1, <1>2 DEF Block, riscv_arithmetic_block
<1>5. i.f7 = 1 => op = Op(i) /\ op \in {"mul", "mulh", "mulhsu", "mulhu",
                                       "div", "divu", "rem", "remu"}
  <2> SUFFICES ASSUME i.f7 = 1
               PROVE  op = Op(i) /\ op \in {"mul", "mulh", "mulhsu", "mulhu",
                                            "div", "divu", "rem", "remu"}
    OBVIOUS
  <2>1. op = mul_div_handlers(i.f3)
    BY DEF riscv_arithmetic_instructions_translation_entry
  <2>2. Op(i) = MulDivOp[i.f3 + 1]
    BY <1>3 DEF RegisterOp
  <2> QED BY <1>1, <2>1, <2>2 DEF mul_div_handlers, MulDivOp
<1>6. i.f7 = 2 => op = "assert"
  BY DEF riscv_arithmetic_instructions_translation_entry
<1>7. i.f7 \in {0, 32} => /\ op \in {"add", "sub", "and", "or", "xor", "slt", "sltu",
                                     "sll", "srl", "sra"}
                          /\ Op(i) # "reserved" => op = Op(i)
  <2> SUFFICES ASSUME i.f7 \in {0, 32}
               PROVE  /\ op \in {"add", "sub", "and", "or", "xor", "slt", "sltu",
                                 "sll", "srl", "sra"}
                      /\ Op(i) # "reserved" => op = Op(i)
    OBVIOUS
  <2>1. op = arithmetic_handlers(i.f3, i.f7)
    BY DEF riscv_arithmetic_instructions_translation_entry
  <2>2. op \in {"add", "sub", "and", "or", "xor", "slt", "sltu", "sll", "srl", "sra"}
    BY <1>1, <2>1
       DEF arithmetic_handlers, riscv_add_sub_translator, riscv_srl_sra_translator
  <2>3. i.f7 = 0 => op = Op(i)
    BY <1>1, <1>3, <2>1 DEF RegisterOp, BaseOp,
       arithmetic_handlers, riscv_add_sub_translator, riscv_srl_sra_translator
  <2>4. i.f7 = 32 /\ Op(i) # "reserved" => op = Op(i)
    BY <1>1, <1>3, <2>1 DEF RegisterOp,
       arithmetic_handlers, riscv_add_sub_translator, riscv_srl_sra_translator
  <2> QED BY <2>2, <2>3, <2>4
<1> HIDE DEF op
<1>8. ASSUME NEW v \in Words, Block(i) = WriteRd(i, v),
             Op(i) # "reserved" => v = Result(Op(i), a, b)
      PROVE  BlockTyped(Block(i)) /\ BlockMatches(i, Block(i))
  <2>1. /\ WriteRd(i, v).regs = Write(regs, i.rd, v) /\ WriteRd(i, v).pc = Word(pc + 4)
        /\ WriteRd(i, v).stopped = "no"
        /\ WriteRd(i, v).regs \in [Regs -> Words] /\ WriteRd(i, v).regs[0] = 0
        /\ WriteRd(i, v).pc \in Words /\ WriteRd(i, v).pc % 2 = 0
    BY <1>1, Written
  <2>2. BlockTyped(Block(i))
    BY <1>8, <2>1 DEF BlockTyped
  <2>3. PcAfter(i, regs, pc) = Word(pc + 4)
    BY DEF PcAfter
  <2>4. RegsAfter(i, regs, pc) = Write(regs, i.rd, Result(Op(i), a, b))
    BY <1>2 DEF RegsAfter, Operand
  <2> QED BY <1>8, <2>1, <2>2, <2>3, <2>4 DEF BlockMatches
<1>9. CASE i.f7 = 1
  <2>1. CASE op \in {"mul", "mulh", "mulhsu", "mulhu"}
    <3>1. PICK v \in Words : mul_div_block(op, i, a, b) = WriteRd(i, v) /\ v = Result(op, a, b)
      BY <2>1, Multiplies
    <3> QED BY <1>4, <1>5, <1>8, <1>9, <3>1
  <2>2. CASE op \in {"div", "divu", "rem", "remu"}
    <3>1. \/ mul_div_block(op, i, a, b) = Stop("SIGFPE")
          \/ \E v \in Words : mul_div_block(op, i, a, b) = WriteRd(i, v)
                              /\ v = Result(op, a, b)
      BY <2>2, Divides
    <3>2. CASE mul_div_block(op, i, a, b) = Stop("SIGFPE")
      BY <1>4, <1>9, <3>2, Stopping
    <3> QED BY <1>4, <1>5, <1>8, <1>9, <3>1, <3>2
  <2> QED BY <1>5, <1>9, <2>1, <2>2
<1>10. CASE i.f7 = 2
  <2>1. Block(i) = Stop("assert")
    BY <1>4, <1>6, <1>10 DEF arithmetic_block
  <2> QED BY <2>1, Stopping
<1>11. CASE i.f7 \in {0, 32}
  <2>1. Block(i) = arithmetic_block(op, i, a, b)
    BY <1>4, <1>11
  <2>2. shift_count(b) = b % XLEN
    BY HostCount
  <2>3. PICK v \in Words : arithmetic_block(op, i, a, b) = WriteRd(i, v)
                           /\ v = Result(op, a, b)
    <3>1. CASE op \in {"sll", "srl", "sra"}
      <4>1. PICK o \in {"sll", "srl", "sra"} : o = op
        BY <3>1
      <4>2. \E v \in Words : arithmetic_block(o, i, a, b) = WriteRd(i, v)
                             /\ v = Result(o, a, b)
        BY <2>2, Shifts
      <4> QED BY <4>1, <4>2
    <3>2. CASE op \in {"add", "sub", "and", "or", "xor", "slt", "sltu"}
      BY <3>2, Computes
    <3> QED BY <1>7, <1>11, <3>1, <3>2
  <2> QED BY <1>7, <1>8, <1>11, <2>1, <2>3
<1> QED BY <1>1, <1>9, <1>10, <1>11

\* Type I: the shifts take the field as it is, the others its extension.
LEMMA ImmediateBlock ==
    ASSUME TypeOK, NEW i \in Instr, i.fmt = "I"
    PROVE  BlockTyped(Block(i)) /\ BlockMatches(i, Block(i))
<1> DEFINE op == immediate_handlers(i.f3, i.imm)
<1>1. /\ i.f3 \in {0, 1, 2, 3, 4, 5, 6, 7} /\ i.imm \in 0 .. 2^ImmBits - 1
      /\ i.rd \in Regs /\ i.rs1 \in Regs
  BY DEF Instr, Funct3
<1>2. PICK a \in Words : a = regs[i.rs1] /\ a = Read(regs, i.rs1)
  BY <1>1, Registers
<1>3. PICK w \in Words : w = Word(SignedField(i.imm, ImmBits))
                         /\ w = sign_extend32(i.imm, ImmBits - 1)
  BY <1>1, Immediate
<1>4. Op(i) = ImmediateOp(i.f3, i.imm)
  BY DEF Op
<1>5. Block(i) = arithmetic_block(op, i, a, IF i.f3 \in {1, 5} THEN i.imm ELSE w)
  BY <1>2, <1>3 DEF Block, riscv_immediate_block
<1>6. i.f3 \notin {1, 5} => op = Op(i) /\ op \in {"add", "and", "or", "xor", "slt", "sltu"}
  <2>1. i.f3 \notin {1, 5} => Op(i) = BaseOp[i.f3 + 1] /\ op = arithmetic_handlers(i.f3, 0)
    BY <1>4 DEF ImmediateOp, immediate_handlers
  <2> QED BY <1>1, <2>1 DEF BaseOp, arithmetic_handlers, riscv_add_sub_translator
<1>7. i.f3 \in {1, 5} => op \in {"sll", "srl", "sra"}
                         /\ (Op(i) # "reserved" => op = Op(i))
  <2>1. i.imm \in Int
    BY <1>1
  <2>2. i.f3 = 1 => op = "sll" /\ (Op(i) # "reserved" => op = Op(i))
    BY <1>4 DEF ImmediateOp, BaseOp, immediate_handlers, arithmetic_handlers
  <2>3. i.f3 = 5 => op = riscv_right_shift_translator(i.imm)
    BY DEF immediate_handlers
  <2>4. riscv_right_shift_translator(i.imm) \in {"srl", "sra"}
    BY DEF riscv_right_shift_translator
  <2>5. i.f3 = 5 => \/ i.imm < XLEN /\ Op(i) = "srl"
                    \/ i.imm - 2^SraBit \in 0 .. XLEN - 1 /\ Op(i) = "sra"
                    \/ Op(i) = "reserved"
    BY <1>4 DEF ImmediateOp, BaseOp
  <2> QED BY <1>1, <2>2, <2>3, <2>4, <2>5, RightShift
<1> HIDE DEF op
<1>8. PICK v \in Words : Block(i) = WriteRd(i, v) /\ v = Result(op, a, w)
  <2>1. CASE i.f3 \in {1, 5}
    <3>1. shift_count(i.imm) = w % XLEN /\ i.imm \in Words
      BY <1>1, <1>3, ImmediateCount, Immediate
    <3>2. \E v \in Words : arithmetic_block(op, i, a, i.imm) = WriteRd(i, v)
                           /\ v = Result(op, a, w)
      BY <1>7, <2>1, <3>1, Shifts
    <3> QED BY <1>5, <2>1, <3>2
  <2>2. CASE i.f3 \notin {1, 5}
    <3>1. \E v \in Words : arithmetic_block(op, i, a, w) = WriteRd(i, v)
                           /\ v = Result(op, a, w)
      BY <1>6, <2>2, Computes
    <3> QED BY <1>5, <2>2, <3>1
  <2> QED BY <2>1, <2>2
<1>9. /\ WriteRd(i, v).regs = Write(regs, i.rd, v) /\ WriteRd(i, v).pc = Word(pc + 4)
      /\ WriteRd(i, v).stopped = "no"
      /\ WriteRd(i, v).regs \in [Regs -> Words] /\ WriteRd(i, v).regs[0] = 0
      /\ WriteRd(i, v).pc \in Words /\ WriteRd(i, v).pc % 2 = 0
  BY <1>1, Written
<1>10. PcAfter(i, regs, pc) = Word(pc + 4)
  BY DEF PcAfter
<1>11. RegsAfter(i, regs, pc) = Write(regs, i.rd, Result(Op(i), a, w))
  BY <1>2, <1>3 DEF RegsAfter, Operand
<1>12. Op(i) # "reserved" => op = Op(i)
  BY <1>6, <1>7
<1> QED BY <1>8, <1>9, <1>10, <1>11, <1>12 DEF BlockTyped, BlockMatches

\* The comparisons of the blocks are those of the architecture.
LEMMA Compares ==
    ASSUME NEW a \in Words, NEW b \in Words
    PROVE  /\ slt_block(a, b) = Result("slt", a, b)
           /\ sltu_block(a, b) = Result("sltu", a, b)
           /\ \A op \in {"beq", "bne", "blt", "bge", "bltu", "bgeu"} :
                  branch_taken(op, a, b) <=> Taken(op, a, b)
<1>1. less(a, b) <=> Signed(a) < Signed(b)
  BY LessIsSignedOrder
<1>2. a \in Int /\ b \in Int /\ Signed(a) \in Int /\ Signed(b) \in Int
  BY SignedIsInt
<1>3. slt_block(a, b) = Result("slt", a, b)
  BY <1>1 DEF slt_block, Result
<1>4. sltu_block(a, b) = Result("sltu", a, b)
  BY DEF sltu_block, Result, below, CF
<1>5. branch_taken("beq", a, b) <=> Taken("beq", a, b)
  BY DEF branch_taken, Taken, ZF
<1>6. branch_taken("bne", a, b) <=> Taken("bne", a, b)
  BY DEF branch_taken, Taken, ZF
<1>7. branch_taken("blt", a, b) <=> Taken("blt", a, b)
  BY <1>1 DEF branch_taken, Taken
<1>8. branch_taken("bge", a, b) <=> Taken("bge", a, b)
  <2>1. ~ (Signed(a) < Signed(b)) <=> Signed(a) >= Signed(b)
    BY <1>2
  <2> QED BY <1>1, <2>1 DEF branch_taken, Taken
<1>9. branch_taken("bltu", a, b) <=> Taken("bltu", a, b)
  BY DEF branch_taken, Taken, below, CF
<1>10. branch_taken("bgeu", a, b) <=> Taken("bgeu", a, b)
  <2>1. ~ (a < b) <=> a >= b
    BY <1>2
  <2> QED BY <2>1 DEF branch_taken, Taken, below, CF
<1> QED BY <1>3, <1>4, <1>5, <1>6, <1>7, <1>8, <1>9, <1>10

\* The branches: taken or not as the architecture says, to an even address.
LEMMA BranchBlock ==
    ASSUME TypeOK, NEW i \in Instr, i.fmt = "B"
    PROVE  BlockTyped(Block(i)) /\ BlockMatches(i, Block(i))
<1> DEFINE op == branch_handlers(i.f3)
<1>1. /\ i.f3 \in {0, 1, 2, 3, 4, 5, 6, 7} /\ i.imm \in 0 .. 2^BranchBits - 1
      /\ i.rs1 \in Regs /\ i.rs2 \in Regs
  BY DEF Instr, Funct3
<1>2. PICK a \in Words, b \in Words : /\ a = regs[i.rs1] /\ a = Read(regs, i.rs1)
                                      /\ b = regs[i.rs2] /\ b = Read(regs, i.rs2)
  BY <1>1, Registers
<1>3. \/ op = "assert" /\ Op(i) = "reserved"
      \/ op = Op(i) /\ op \in {"beq", "bne", "blt", "bge", "bltu", "bgeu"}
  <2>1. Op(i) = BranchOp[i.f3 + 1]
    BY DEF Op
  <2> QED BY <1>1, <2>1 DEF branch_handlers, BranchOp
<1>4. PICK c \in Int, w \in Words : /\ c = SignedField(i.imm, BranchBits) /\ w = Word(2 * c)
                                    /\ w = sign_extend32(2 * i.imm, BranchBits)
  BY <1>1, Offset, FieldAssumption
<1>5. pc \in Words /\ pc % 2 = 0 /\ regs \in [Regs -> Words] /\ regs[0] = 0
  BY DEF TypeOK
<1>6. addl(pc, w) = Word(pc + 2 * c) /\ addl(pc, w) \in Words /\ addl(pc, w) % 2 = 0
  BY <1>4, <1>5, EvenTarget
<1>7. /\ PROCEED_TO_NEXT_INSTRUCTION(pc) = Word(pc + 4)
      /\ PROCEED_TO_NEXT_INSTRUCTION(pc) \in Words /\ PROCEED_TO_NEXT_INSTRUCTION(pc) % 2 = 0
  BY <1>5, FallsThrough DEF PROCEED_TO_NEXT_INSTRUCTION
<1>8. Block(i) = IF op = "assert" THEN Stop("assert")
                 ELSE [regs |-> regs, stopped |-> "no",
                       pc |-> IF branch_taken(op, a, b)
                                THEN addl(pc, w) ELSE PROCEED_TO_NEXT_INSTRUCTION(pc)]
  BY <1>2, <1>4 DEF Block, riscv_branch_block
<1> HIDE DEF op
<1>9. CASE op = "assert"
  BY <1>8, <1>9, Stopping
<1>10. CASE op # "assert"
  <2>1. /\ Block(i).regs = regs /\ Block(i).stopped = "no"
        /\ Block(i).pc = IF branch_taken(op, a, b)
                           THEN addl(pc, w) ELSE PROCEED_TO_NEXT_INSTRUCTION(pc)
    BY <1>8, <1>10
  <2>2. branch_taken(op, a, b) <=> Taken(Op(i), a, b)
    BY <1>3, <1>10, Compares
  <2>3. RegsAfter(i, regs, pc) = regs
    BY DEF RegsAfter
  <2>4. PcAfter(i, regs, pc) = IF Taken(Op(i), a, b) THEN Word(pc + 2 * c) ELSE Word(pc + 4)
    BY <1>2, <1>4 DEF PcAfter
  <2>5. BlockTyped(Block(i))
    BY <1>5, <1>6, <1>7, <2>1 DEF BlockTyped
  <2> QED BY <1>6, <1>7, <2>1, <2>2, <2>3, <2>4, <2>5 DEF BlockMatches
<1> QED BY <1>9, <1>10

\* jal and jalr: the link, and the target computed before it is written.
LEMMA JumpBlock ==
    ASSUME TypeOK, NEW i \in Instr, i.fmt \in {"jal", "jalr"}
    PROVE  BlockTyped(Block(i)) /\ BlockMatches(i, Block(i))
<1>1. i.rd \in Regs
  BY DEF Instr
<1>2. pc \in Words /\ pc % 2 = 0
  BY DEF TypeOK
<1>3. PICK r \in Words : r = addl(pc, 4 % Modulus) /\ r = Word(pc + 4)
  BY <1>2, FallsThrough
<1>4. /\ RESET_ZERO_REGISTER([regs EXCEPT ![i.rd] = r]) = Write(regs, i.rd, r)
      /\ Write(regs, i.rd, r) \in [Regs -> Words]
      /\ Write(regs, i.rd, r)[0] = 0
  BY <1>1, RegisterWritten
<1>5. RegsAfter(i, regs, pc) = Write(regs, i.rd, r)
  BY <1>3 DEF RegsAfter
<1>6. PICK t \in Words : Block(i) = Link(i, t) /\ t % 2 = 0 /\ t = PcAfter(i, regs, pc)
  <2>1. CASE i.fmt = "jal"
    <3>1. i.imm \in 0 .. 2^JumpBits - 1
      BY <2>1 DEF Instr
    <3>2. PICK c \in Int, w \in Words : /\ c = SignedField(i.imm, JumpBits) /\ w = Word(2 * c)
                                        /\ w = sign_extend32(2 * i.imm, JumpBits)
      BY <3>1, Offset, FieldAssumption
    <3>3. addl(pc, w) = Word(pc + 2 * c) /\ addl(pc, w) \in Words /\ addl(pc, w) % 2 = 0
      BY <1>2, <3>2, EvenTarget
    <3>4. Block(i) = Link(i, addl(pc, w))
      BY <2>1, <3>2 DEF Block, riscv_jal_block
    <3>5. PcAfter(i, regs, pc) = Word(pc + 2 * c)
      BY <2>1, <3>2 DEF PcAfter
    <3> QED BY <3>3, <3>4, <3>5
  <2>2. CASE i.fmt = "jalr"
    <3>1. i.imm \in 0 .. 2^ImmBits - 1 /\ i.rs1 \in Regs
      BY <2>2 DEF Instr
    <3>2. PICK a \in Words : a = regs[i.rs1] /\ a = Read(regs, i.rs1) /\ a \in Int
      BY <3>1, Registers, WordRange
    <3>3. PICK c \in Int, w \in Words : /\ c = SignedField(i.imm, ImmBits) /\ w = Word(c)
                                        /\ w = sign_extend32(i.imm, ImmBits - 1)
      BY <3>1, Immediate
    <3>4. PICK s \in Words : s = addl(a, w) /\ s = Word(a + w)
      BY HostSum
    <3>5. s = Word(a + c)
      BY <3>2, <3>3, <3>4, WordOfSum
    <3>6. btr0(s) = s - (s % 2) /\ btr0(s) \in Words /\ btr0(s) % 2 = 0
      BY HostBtr
    <3>7. Block(i) = Link(i, btr0(s))
      BY <2>2, <3>2, <3>3, <3>4 DEF Block, riscv_jalr_block
    <3>8. PcAfter(i, regs, pc) = s - (s % 2)
      BY <2>2, <3>2, <3>3, <3>5 DEF PcAfter
    <3> QED BY <3>6, <3>7, <3>8
  <2> QED BY <2>1, <2>2
<1>7. /\ Block(i).regs = Write(regs, i.rd, r) /\ Block(i).pc = t
      /\ Block(i).stopped = "no"
  BY <1>3, <1>4, <1>6 DEF Link
<1> QED BY <1>4, <1>5, <1>6, <1>7 DEF BlockTyped, BlockMatches

\* lui and auipc.
LEMMA UpperBlock ==
    ASSUME TypeOK, NEW i \in Instr, i.fmt \in {"lui", "auipc"}
    PROVE  BlockTyped(Block(i)) /\ BlockMatches(i, Block(i))
<1>1. i.rd \in Regs /\ i.imm \in 0 .. 2^(XLEN - UpperShift) - 1
  BY DEF Instr
<1>2. PICK u \in Words : u = shl(i.imm, UpperShift) /\ u = i.imm * 2^UpperShift
  BY <1>1, Upper
<1>3. pc \in Words /\ pc \in Int /\ u \in Int
  BY WordRange DEF TypeOK
<1>4. PICK v \in Words : /\ Block(i) = WriteRd(i, v)
                         /\ RegsAfter(i, regs, pc) = Write(regs, i.rd, v)
  <2>1. CASE i.fmt = "lui"
    BY <1>2, <2>1 DEF Block, riscv_lui_block, RegsAfter
  <2>2. CASE i.fmt = "auipc"
    <3>1. addl(u, pc) = Word(u + pc) /\ addl(u, pc) \in Words
      BY <1>3, HostSum
    <3>2. u + pc = pc + u
      BY <1>3
    <3> QED BY <1>2, <2>2, <3>1, <3>2 DEF Block, riscv_auipc_block, RegsAfter
  <2> QED BY <2>1, <2>2
<1>5. /\ WriteRd(i, v).regs = Write(regs, i.rd, v) /\ WriteRd(i, v).pc = Word(pc + 4)
      /\ WriteRd(i, v).stopped = "no"
      /\ WriteRd(i, v).regs \in [Regs -> Words] /\ WriteRd(i, v).regs[0] = 0
      /\ WriteRd(i, v).pc \in Words /\ WriteRd(i, v).pc % 2 = 0
  BY <1>1, Written
<1>6. PcAfter(i, regs, pc) = Word(pc + 4)
  BY DEF PcAfter
<1> QED BY <1>4, <1>5, <1>6 DEF BlockTyped, BlockMatches

\* Every block leaves words and, where the architecture defines the
\* instruction, the registers and the pc it asks for.
LEMMA EveryBlock ==
    ASSUME TypeOK, NEW i \in Instr
    PROVE  BlockTyped(Block(i)) /\ BlockMatches(i, Block(i))
<1>1. i.fmt \in {"R", "I", "B", "jal", "jalr", "lui", "auipc"}
  BY DEF Instr
<1> QED
  BY <1>1, RegisterBlock, ImmediateBlock, BranchBlock, JumpBlock, UpperBlock

-----------------------------------------------------------------------------
(* The theorems.                                                           *)

\* At every width: the registers and the pc stay words and the pc even, and
\* x0 is zero between blocks, though every block writes its memory first and
\* resets it after (RESET_ZERO_REGISTER, translation.h).
THEOREM BlockTypeTheorem == Spec => []TypeOK
<1>1. Init => TypeOK
  <2> SUFFICES ASSUME Init PROVE TypeOK
    OBVIOUS
  <2>1. 0 \in Regs /\ 0 \in Words /\ 0 % 2 = 0
    BY FieldAssumption, WordRange DEF Regs, Words
  <2> QED BY <2>1 DEF Init, TypeOK
<1>2. TypeOK /\ [Next]_vars => TypeOK'
  <2> SUFFICES ASSUME TypeOK, [Next]_vars PROVE TypeOK'
    OBVIOUS
  <2>1. ASSUME NEW i \in Instr, Execute(i) PROVE TypeOK'
    <3>1. BlockTyped(Block(i))
      BY EveryBlock
    <3>2. /\ regs' = Block(i).regs /\ pc' = Block(i).pc /\ stopped' = Block(i).stopped
      BY <2>1 DEF Execute
    <3> QED BY <3>1, <3>2 DEF BlockTyped, TypeOK
  <2>2. CASE UNCHANGED vars
    BY <2>2 DEF vars, TypeOK
  <2> QED BY <2>1, <2>2 DEF Next
<1> QED BY <1>1, <1>2, PTL DEF Spec

\* At every width, for every instruction, every choice of registers and every
\* immediate: a block that does not stop the emulator leaves the registers and
\* the pc of the architecture (translate_arithmetic.c,
\* translate_arithmetic_immediate.c, translate_multiplication_and_division.c,
\* translate_branch.c, translate_unconditional_jump_intrs.c, translation.c).
THEOREM BlocksTheorem == Spec => []BlocksMatchIsa
<1>1. TypeOK => BlocksMatchIsa
  <2> SUFFICES ASSUME TypeOK, NEW i \in Instr PROVE BlockMatches(i, Block(i))
    BY DEF BlocksMatchIsa, BlockMatches
  <2> QED BY EveryBlock
<1> QED BY <1>1, BlockTypeTheorem, PTL

\* What a block without a division leaves: a running emulator.
LEMMA ArithmeticNeverStops ==
    ASSUME NEW op \in {"add", "sub", "and", "or", "xor", "slt", "sltu",
                       "sll", "srl", "sra"},
           NEW i, NEW a, NEW b
    PROVE  arithmetic_block(op, i, a, b).stopped = "no"
<1>1. \A v : WriteRd(i, v).stopped = "no"
  BY DEF WriteRd
<1> QED
  BY <1>1 DEF arithmetic_block

\* At every width: of the instructions of the architecture, those that take
\* the emulator down are rem and remu by zero and the overflow of div and rem
\* (translate_multiplication_and_division.c).
THEOREM StopsTheorem == Spec => []StopsExactly
<1>1. TypeOK => StopsExactly
  <2> SUFFICES ASSUME TypeOK, stopped = "no", NEW i \in Instr, Op(i) # "reserved"
               PROVE  Block(i).stopped # "no" <=>
                        /\ i.fmt = "R"
                        /\ LET a == regs[i.rs1]  b == regs[i.rs2] IN
                           \/ Op(i) \in {"rem", "remu"} /\ b = 0
                           \/ /\ Op(i) \in {"div", "rem"}
                              /\ a = Half /\ b = Modulus - 1
    BY DEF StopsExactly
  <2>1. \A v : WriteRd(i, v).stopped = "no"
    BY DEF WriteRd
  <2>2. Stop("SIGFPE").stopped = "SIGFPE" /\ "SIGFPE" # "no"
    BY DEF Stop
  <2>3. \A t : Link(i, t).stopped = "no"
    BY DEF Link
  <2>4. CASE i.fmt \in {"lui", "auipc", "jal", "jalr"}
    BY <2>1, <2>3, <2>4 DEF Block, riscv_lui_block, riscv_auipc_block,
                            riscv_jal_block, riscv_jalr_block
  <2>5. CASE i.fmt = "B"
    <3>1. Op(i) = BranchOp[i.f3 + 1] /\ i.f3 \in 0 .. 7
      BY <2>5 DEF Op, Instr, Funct3
    <3>2. i.f3 \in {0, 1, 4, 5, 6, 7}
      BY <3>1 DEF BranchOp
    <3>3. branch_handlers(i.f3) # "assert"
      BY <3>2 DEF branch_handlers
    <3>4. riscv_branch_block(i).stopped = "no"
      BY <3>3 DEF riscv_branch_block
    <3> QED
      BY <2>5, <3>4 DEF Block
  <2>6. CASE i.fmt = "I"
    <3>1. i.f3 \in 0 .. 7
      BY <2>6 DEF Instr, Funct3
    <3>2. immediate_handlers(i.f3, i.imm) \in
            {"add", "sub", "and", "or", "xor", "slt", "sltu", "sll", "srl", "sra"}
      BY <3>1 DEF immediate_handlers, riscv_right_shift_translator,
                  arithmetic_handlers, riscv_add_sub_translator
    <3>3. riscv_immediate_block(i).stopped = "no"
      BY <3>2, ArithmeticNeverStops DEF riscv_immediate_block
    <3> QED
      BY <2>6, <3>3 DEF Block
  <2>7. CASE i.fmt = "R"
    <3> DEFINE a == regs[i.rs1]
               b == regs[i.rs2]
               op == riscv_arithmetic_instructions_translation_entry(i.f3, i.f7)
    <3>1. /\ i.f3 \in {0, 1, 2, 3, 4, 5, 6, 7}
          /\ i.f7 \in {0, 1, 2, 32}
          /\ i.rs1 \in Regs /\ i.rs2 \in Regs
      BY <2>7 DEF Instr, Funct3, Funct7
    <3>2. a \in Words /\ b \in Words
      BY <3>1 DEF TypeOK
    <3>3. Op(i) = RegisterOp(i.f3, i.f7)
      BY <2>7 DEF Op
    <3>4. Block(i) = riscv_arithmetic_block(i)
      BY <2>7 DEF Block
    <3> HIDE DEF a, b
    <3>5. CASE i.f7 = 1
      <4>1. op = Op(i) /\ op \in {"mul", "mulh", "mulhsu", "mulhu",
                                  "div", "divu", "rem", "remu"}
        <5>1. op = mul_div_handlers(i.f3)
          BY <3>5 DEF riscv_arithmetic_instructions_translation_entry
        <5>2. Op(i) = MulDivOp[i.f3 + 1]
          BY <3>3, <3>5 DEF RegisterOp
        <5> QED
          BY <3>1, <5>1, <5>2 DEF mul_div_handlers, MulDivOp
      <4>2. Block(i) = mul_div_block(op, i, a, b)
        BY <3>4, <3>5 DEF riscv_arithmetic_block, a, b
      <4> HIDE DEF op
      <4>3. CASE op \in {"mul", "mulh", "mulhsu", "mulhu"}
        BY <2>1, <4>1, <4>2, <4>3 DEF mul_div_block, a, b
      <4>4. CASE op = "div"
        <5>1. Block(i) = div_block(i, a, b)
          BY <4>2, <4>4 DEF mul_div_block
        <5>2. CASE b = 0
          <6>1. Half \in Nat \ {0} /\ Modulus = 2 * Half
            BY WidthAssumption DEF Modulus
          <6> QED
            BY <2>1, <4>1, <4>4, <5>1, <5>2, <6>1 DEF div_block, a, b
        <5>3. CASE b # 0
          BY <2>1, <2>2, <3>2, <2>7, <4>1, <4>4, <5>1, <5>3,
             IdivFaultsOnlyOnOverflow DEF div_block, a, b
        <5> QED
          BY <5>2, <5>3
      <4>5. CASE op = "divu"
        <5>1. Block(i) = divu_block(i, a, b)
          BY <4>2, <4>5 DEF mul_div_block
        <5> QED
          BY <2>1, <4>1, <4>5, <5>1 DEF divu_block
      <4>6. CASE op = "rem"
        <5>1. Block(i) = rem_block(i, a, b)
          BY <4>2, <4>6 DEF mul_div_block
        <5>2. CASE b = 0
          BY <2>2, <2>7, <4>1, <4>6, <5>1, <5>2 DEF rem_block, idivFaults, a, b
        <5>3. CASE b # 0
          BY <2>1, <2>2, <2>7, <3>2, <4>1, <4>6, <5>1, <5>3,
             IdivFaultsOnlyOnOverflow DEF rem_block, a, b
        <5> QED
          BY <5>2, <5>3
      <4>7. CASE op = "remu"
        <5>1. Block(i) = remu_block(i, a, b)
          BY <4>2, <4>7 DEF mul_div_block
        <5> QED
          BY <2>1, <2>2, <2>7, <4>1, <4>7, <5>1 DEF remu_block, divFaults, a, b
      <4> QED
        BY <4>1, <4>3, <4>4, <4>5, <4>6, <4>7
    <3>6. CASE i.f7 # 1
      <4>1. i.f7 # 2
        BY <3>3 DEF RegisterOp
      <4>2. i.f7 = 32 => i.f3 \in {0, 5}
        BY <3>3 DEF RegisterOp
      <4>3. Op(i) \notin {"div", "rem", "remu"}
        BY <3>1, <3>3, <3>6 DEF RegisterOp, BaseOp
      <4>4. op = arithmetic_handlers(i.f3, i.f7)
        BY <3>1, <3>6, <4>1 DEF riscv_arithmetic_instructions_translation_entry
      <4>5. op \in {"add", "sub", "and", "or", "xor", "slt", "sltu",
                    "sll", "srl", "sra"}
        BY <3>1, <3>6, <4>1, <4>2, <4>4
           DEF arithmetic_handlers, riscv_add_sub_translator, riscv_srl_sra_translator
      <4>6. Block(i) = arithmetic_block(op, i, a, b)
        BY <3>1, <3>4, <3>6, <4>1 DEF riscv_arithmetic_block, a, b
      <4> HIDE DEF op
      <4>7. Block(i).stopped = "no"
        BY <4>5, <4>6, ArithmeticNeverStops
      <4> QED
        BY <4>3, <4>7
    <3> QED
      BY <3>5, <3>6
  <2> QED
    BY <2>4, <2>5, <2>6, <2>7 DEF Instr
<1> QED
  BY <1>1, BlockTypeTheorem, PTL
=============================================================================
