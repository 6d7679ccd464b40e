----------------------------- MODULE PlicProofs ------------------------------
(***************************************************************************)
(* Proofs about the interrupt controller, for any number of sources and of *)
(* contexts.  The inductive invariant is the conjunction of the three      *)
(* properties the runs check: TypeOK bounds outstanding by 1 only because  *)
(* a claimed source is no candidate, and ClaimIsExclusive says so.         *)
(***************************************************************************)
EXTENDS Plic, WellFoundedInduction, TLAPS

PlicInv == TypeOK /\ LevelTriggered /\ ClaimIsExclusive

\* A non-empty set of naturals has a least element.
LEMMA LeastNatural ==
    ASSUME NEW S \in SUBSET Nat, S # {}
    PROVE  \E n \in S : \A m \in S : n <= m
<1> DEFINE R == {ss \in Nat \X Nat : ss[1] < ss[2]}
<1>1. \A x, y \in Nat : y < x => <<y, x>> \in R
  OBVIOUS
<1>2. \E n \in S : \A m \in S : ~ (<<m, n>> \in R)
  <2>1. IsWellFoundedOn(R, Nat)
    BY NatLessThanWellFounded DEF OpToRel
  <2> HIDE DEF R
  <2> QED BY <2>1, WFMin
<1>3. PICK n \in S : \A m \in S : ~ (<<m, n>> \in R)
  BY <1>2
<1>4. \A m \in S : ~ (m < n)
  <2> HIDE DEF R
  <2> QED BY <1>1, <1>3
<1> QED BY <1>3, <1>4

\* A non-empty set of sources has one that the search of plic_best_source
\* prefers to all others: the least number among those of highest priority.
LEMMA BestExists ==
    ASSUME TypeOK, NEW C \in SUBSET Sources, C # {}
    PROVE  \E s \in C : \A t \in C : \/ priority[t] < priority[s]
                                     \/ priority[t] = priority[s] /\ s <= t
<1> DEFINE Lag == {MaxPriority - priority[s] : s \in C}
<1>1. Lag \subseteq Nat /\ Lag # {}
  BY PlicAssumption DEF TypeOK
<1>2. PICK n \in Lag : \A m \in Lag : n <= m
  <2> HIDE DEF Lag
  <2> QED BY <1>1, LeastNatural
<1>3. PICK top \in C : n = MaxPriority - priority[top]
  BY <1>2
<1>4. ASSUME NEW t \in C PROVE priority[t] <= priority[top]
  <2>1. n <= MaxPriority - priority[t]
    BY <1>2
  <2>2. priority[t] \in 0 .. MaxPriority /\ priority[top] \in 0 .. MaxPriority
    BY <1>3 DEF TypeOK
  <2> QED BY <1>3, <2>1, <2>2, PlicAssumption
<1> DEFINE Ties == {s \in C : priority[s] = priority[top]}
<1>5. Ties \subseteq Nat /\ Ties # {}
  BY <1>3, PlicAssumption DEF Sources
<1>6. PICK s \in Ties : \A t \in Ties : s <= t
  <2> HIDE DEF Ties
  <2> QED BY <1>5, LeastNatural
<1>7. ASSUME NEW t \in C
      PROVE  priority[t] < priority[s] \/ (priority[t] = priority[s] /\ s <= t)
  <2>1. priority[t] \in Nat /\ priority[top] \in Nat
    BY <1>3, PlicAssumption DEF TypeOK
  <2>2. CASE priority[t] = priority[top]
    BY <1>6, <2>2
  <2>3. CASE priority[t] # priority[top]
    BY <1>4, <1>6, <2>1, <2>3
  <2> QED BY <2>2, <2>3
<1> QED BY <1>6, <1>7

\* The search answers 0 or one of the candidates, hence a source nobody has
\* claimed.
LEMMA BestIsCandidate ==
    ASSUME TypeOK, NEW c \in Contexts
    PROVE  \/ plic_best_source(c) = 0
           \/ plic_best_source(c) \in Sources \ claimed
<1> DEFINE C == Candidates(c)
<1>1. C \in SUBSET (Sources \ claimed)
  BY DEF TypeOK, Candidates
<1>2. CASE C = {}
  BY <1>2 DEF plic_best_source
<1>3. CASE C # {}
  <2> DEFINE Best(s) == \A t \in C : \/ priority[t] < priority[s]
                                     \/ priority[t] = priority[s] /\ s <= t
  <2>1. \E s \in C : Best(s)
    BY <1>1, <1>3, BestExists
  <2>2. plic_best_source(c) = CHOOSE s \in C : Best(s)
    BY <1>3 DEF plic_best_source
  <2>3. plic_best_source(c) \in C
    <3> HIDE DEF Best, C
    <3> QED BY <2>1, <2>2
  <2> QED BY <2>3, <1>1
<1> QED BY <1>2, <1>3

\* Everything is clear at reset.
LEMMA PlicInit == plic_init => PlicInv
  BY PlicAssumption DEF plic_init, PlicInv, TypeOK, LevelTriggered,
     ClaimIsExclusive, Sources

\* Each operation keeps the three properties.
LEMMA PlicStep == PlicInv /\ [Next]_vars => PlicInv'
<1> SUFFICES ASSUME PlicInv, [Next]_vars PROVE PlicInv'
  OBVIOUS
<1> USE DEF PlicInv, LevelTriggered, ClaimIsExclusive, config_vars, level_vars
<1>1. ASSUME NEW s \in Sources, NEW level \in BOOLEAN, Device(s, level)
      PROVE  PlicInv'
  BY <1>1 DEF Device, plic_set_pending, TypeOK
<1>2. CASE Refresh
  BY <1>2 DEF Refresh, plic_refresh_pending, TypeOK
<1>3. ASSUME NEW c \in Contexts, Claim(c) PROVE PlicInv'
  <2> DEFINE best == plic_best_source(c)
  <2>1. CASE best = 0
    BY <1>3, <2>1 DEF Claim, plic_claim, TypeOK
  <2>2. CASE best # 0
    <3>1. best \in Sources \ claimed
      BY <2>2, BestIsCandidate
    <3>2. /\ claimed' = claimed \cup {best}
          /\ outstanding' = [outstanding EXCEPT ![best] = @ + 1]
          /\ UNCHANGED <<asserted, pending, config_vars, ipending>>
      BY <1>3, <2>2 DEF Claim, plic_claim
    <3> HIDE DEF best
    <3> QED BY <3>1, <3>2 DEF TypeOK
  <2> QED BY <2>1, <2>2
<1>4. ASSUME NEW c \in Contexts, NEW s \in 0 .. NrSources, Complete(c, s)
      PROVE  PlicInv'
  <2>1. CASE s \notin Sources
    BY <1>4, <2>1 DEF Complete, plic_complete, TypeOK
  <2>2. CASE s \in Sources
    <3>1. /\ claimed' = claimed \ {s}
          /\ pending' = IF s \in asserted THEN pending \cup {s} ELSE pending \ {s}
          /\ outstanding' = [outstanding EXCEPT ![s] = 0]
          /\ UNCHANGED <<asserted, priority, enable, threshold, ipending>>
      BY <1>4, <2>2 DEF Complete, plic_complete
    <3>2. TypeOK'
      BY <2>2, <3>1 DEF TypeOK
    <3>3. LevelTriggered'
      BY <3>1
    <3>4. ClaimIsExclusive'
      BY <2>2, <3>1 DEF TypeOK
    <3> QED BY <3>2, <3>3, <3>4
  <2> QED BY <2>1, <2>2
<1>5. ASSUME NEW s \in Sources, NEW v \in 0 .. MaxPriority, WritePriority(s, v)
      PROVE  PlicInv'
  BY <1>5 DEF WritePriority, TypeOK
<1>6. ASSUME NEW c \in Contexts, NEW v \in SUBSET (0 .. NrSources - 1),
             WriteEnable(c, v)
      PROVE  PlicInv'
  BY <1>6 DEF WriteEnable, TypeOK
<1>7. ASSUME NEW c \in Contexts, NEW v \in 0 .. MaxPriority,
             WriteThreshold(c, v)
      PROVE  PlicInv'
  BY <1>7 DEF WriteThreshold, TypeOK
<1>8. CASE UNCHANGED vars
  BY <1>8 DEF vars, TypeOK
<1> QED BY <1>1, <1>2, <1>3, <1>4, <1>5, <1>6, <1>7, <1>8 DEF Next

\* The registers of the PLIC stay in their ranges, whatever the guest and the
\* devices do (plic_mmio_read, plic_mmio_write).
THEOREM PlicTypeTheorem == Spec => []TypeOK
  BY PlicInit, PlicStep, PTL DEF Spec, PlicInv

\* A source is never in the hands of two handlers, for any number of sources
\* and contexts (plic_claim, plic_complete).
THEOREM ClaimTheorem == Spec => []ClaimIsExclusive
  BY PlicInit, PlicStep, PTL DEF Spec, PlicInv

\* No interrupt is lost by a completion that races its device: pending
\* follows the line (plic_set_pending, plic_complete).
THEOREM LevelTheorem == Spec => []LevelTriggered
  BY PlicInit, PlicStep, PTL DEF Spec, PlicInv
=============================================================================
