----------------------------- MODULE MmuProofs ------------------------------
(***************************************************************************)
(* Proofs about the MMU, for page tables of any size, any memory layout,   *)
(* any capacities of the TLBs and any number of stores.  That a lookup     *)
(* answers for its own page needs the condition that no two pages the      *)
(* guest uses compete for a TLB entry (NoAlias); where the callbacks of    *)
(* ram are led, and that a fault installs nothing, does not.               *)
(*                                                                         *)
(* That a hit is licensed is not inductive: it says nothing of an entry    *)
(* that no lookup reaches today.  TlbInv speaks of every entry, with the   *)
(* page it was installed for, and of the current translations, which is    *)
(* what the next walk installs.  EntriesNearRam says what an entry does to   *)
(* whichever page finds it, its own or another.                            *)
(***************************************************************************)
EXTENDS Mmu, TLAPS

TLB(cap) == [0 .. cap - 1 -> Entry]

\* No entry leads the callbacks of ram anywhere but to ram and the rest of the
\* 4M page it ends in, whichever page finds it.
EntriesNearRam(tlb, cap) ==
    \A i \in 0 .. cap - 1 :
        tlb[i].valid => \A p \in Pages : RamOrItsEnd(PhysicalOf(tlb[i], p))

\* Both indices lie in the TLB.
LEMMA IndexInRange ==
    ASSUME NEW cap \in Nat \ {0}, NEW p \in Space!Frame
    PROVE  /\ va_to_4k_tlb_entry(cap, p) \in 0 .. cap - 1
           /\ va_to_4m_tlb_entry(cap, p) \in 0 .. cap - 1
<1>1. p[1] \in Nat /\ p[2] \in Nat
  BY FanAssumption DEF Space!Frame, Space!Idx
<1>2. p[1] * Fan \in Nat
  BY <1>1, FanAssumption
<1> DEFINE n == p[1] * Fan + p[2]
<1>3. n \in Nat
  BY <1>1, <1>2
<1>4. \A k \in Nat : k % cap \in 0 .. cap - 1
  OBVIOUS
<1> QED BY <1>1, <1>3, <1>4 DEF va_to_4k_tlb_entry, va_to_4m_tlb_entry

\* If no two pages compete, a lookup that hits ends at an entry of its own
\* page, and what that entry answers is licensed.
LEMMA HitLemma ==
    ASSUME NEW cap \in Nat \ {0}, NEW tlb, NEW s, NEW p \in Pages,
           NoAlias(cap), EntriesAreLicensed(tlb, cap, s), Hit(tlb, cap, p)
    PROVE  /\ Found(tlb, cap, p) \in s[p]
           /\ TagMatches(tlb[va_to_tlb_entry(tlb, cap, p)], p)
<1> DEFINE i == va_to_tlb_entry(tlb, cap, p)
<1>1. p \in Space!Frame
  BY GuestAssumption
<1>2. i \in 0 .. cap - 1 /\ tlb[i].valid
  BY <1>1, IndexInRange DEF Hit, va_to_tlb_entry
<1>3. \/ i = va_to_4k_tlb_entry(cap, p)
      \/ i = va_to_4m_tlb_entry(cap, p)
  BY DEF va_to_tlb_entry
<1>4. PICK q \in Pages : BelongsTo(tlb[i], i, cap, q, s)
  BY <1>2 DEF EntriesAreLicensed
<1>5. Found(tlb, cap, p) = PhysicalOf(tlb[i], p)
  BY DEF Found
<1> HIDE DEF i
<1>6. CASE tlb[i].page_mask = "4K"
  <2>1. q = p
    BY <1>3, <1>4, <1>6 DEF NoAlias, BelongsTo
  <2> QED BY <1>4, <1>5, <1>6, <2>1 DEF i, BelongsTo, TagMatches
<1>7. CASE tlb[i].page_mask = "4M"
  <2>1. q[1] = p[1]
    BY <1>3, <1>4, <1>7 DEF NoAlias, BelongsTo
  <2>2. <<q[1], 0>>[1] = q[1]
    OBVIOUS
  <2> QED BY <1>4, <1>5, <1>7, <2>1, <2>2 DEF i, BelongsTo, TagMatches
<1> QED BY <1>4, <1>6, <1>7 DEF BelongsTo

\* What a lookup answers is a place in a region, and in ram or at its end if it
\* is served as ram, also if the entry it found is another page's.
LEMMA HitNearRam ==
    ASSUME NEW cap \in Nat \ {0}, NEW tlb \in TLB(cap), NEW p \in Pages,
           EntriesNearRam(tlb, cap), Hit(tlb, cap, p)
    PROVE  Found(tlb, cap, p) \in Space!Physical /\ RamOrItsEnd(Found(tlb, cap, p))
<1> DEFINE i == va_to_tlb_entry(tlb, cap, p)
<1>1. p \in Space!Frame
  BY GuestAssumption
<1>2. i \in 0 .. cap - 1 /\ tlb[i].valid
  BY <1>1, IndexInRange DEF Hit, va_to_tlb_entry
<1>3. Found(tlb, cap, p) = PhysicalOf(tlb[i], p)
  BY DEF Found
<1> HIDE DEF i
<1>4. tlb[i] \in [valid : {TRUE}, page_mask : {"4K", "4M"}, va_tag : Space!Frame,
                 pa_tag : Space!Frame, pmr : {"ram", "io"}]
  <2>1. tlb[i] \in Entry
    BY <1>2 DEF TLB
  <2>2. ~NoEntry.valid
    BY DEF NoEntry
  <2>3. tlb[i] # NoEntry
    BY <1>2, <2>2
  <2> QED BY <2>1, <2>3 DEF Entry
<1>5. p[2] \in Space!Idx
  BY <1>1 DEF Space!Frame
<1>6. <<tlb[i].pa_tag[1], p[2]>> \in Space!Frame
  BY <1>4, <1>5 DEF Space!Frame
<1>7. PhysicalOf(tlb[i], p) \in Space!Physical
  BY <1>4, <1>6 DEF PhysicalOf, Space!Physical
<1>8. RamOrItsEnd(PhysicalOf(tlb[i], p))
  BY <1>2 DEF EntriesNearRam
<1> QED BY <1>3, <1>7, <1>8

\* An entry made for a frame in ram leads to ram or, for a 4M page, to the rest
\* of that page.
LEMMA EntryNearRam ==
    ASSUME NEW e, NEW pa \in Space!Frame, NEW q \in Pages,
           e.pa_tag = pa, e.pmr = Region[pa],
           e.page_mask = "4M" => pa = <<pa[1], 0>>
    PROVE  RamOrItsEnd(PhysicalOf(e, q))
<1>1. SUFFICES ASSUME Region[pa] = "ram"
               PROVE  LET f == PhysicalOf(e, q).frame
                      IN  f \in Space!Ram \/ Region[<<f[1], 0>>] = "ram"
  BY DEF RamOrItsEnd, PhysicalOf
<1>2. CASE e.page_mask = "4M"
  <2> DEFINE f == <<pa[1], q[2]>>
  <2>1. f[1] = pa[1] /\ PhysicalOf(e, q).frame = f
    BY <1>2 DEF PhysicalOf
  <2>2. Region[<<f[1], 0>>] = "ram"
    BY <1>1, <1>2, <2>1
  <2> HIDE DEF f
  <2> QED BY <2>1, <2>2
<1>3. CASE e.page_mask # "4M"
  BY <1>1, <1>3 DEF PhysicalOf, Space!Ram
<1> QED BY <1>2, <1>3

\* More licences keep the entries licensed.
LEMMA LicenceGrows ==
    ASSUME NEW cap, NEW tlb, NEW s, NEW t,
           EntriesAreLicensed(tlb, cap, s), \A p \in Pages : s[p] \subseteq t[p]
    PROVE  EntriesAreLicensed(tlb, cap, t)
<1> SUFFICES ASSUME NEW i \in 0 .. cap - 1, tlb[i].valid
             PROVE  \E p \in Pages : BelongsTo(tlb[i], i, cap, p, t)
  BY DEF EntriesAreLicensed
<1>1. PICK p \in Pages : BelongsTo(tlb[i], i, cap, p, s)
  BY DEF EntriesAreLicensed
<1>2. BelongsTo(tlb[i], i, cap, p, t)
  BY <1>1 DEF BelongsTo
<1> QED BY <1>2

\* The entry a walk installs is licensed by the translations of the moment.
LEMMA InstallLemma ==
    ASSUME NEW cap \in Nat \ {0}, NEW tlb \in TLB(cap), NEW s, NEW i \in 0 .. cap - 1,
           NEW size \in {"4K", "4M"}, NEW va \in Space!Frame, NEW pa \in Space!Frame,
           EntriesAreLicensed(tlb, cap, s), EntriesNearRam(tlb, cap),
           size = "4M" => pa = <<pa[1], 0>>,
           Region[pa] # "none" =>
             \E p \in Pages : BelongsTo([valid |-> TRUE, page_mask |-> size,
                                        va_tag |-> va, pa_tag |-> pa,
                                        pmr |-> Region[pa]], i, cap, p, s)
    PROVE  /\ Install(tlb, i, size, va, pa) \in TLB(cap)
           /\ EntriesAreLicensed(Install(tlb, i, size, va, pa), cap, s)
           /\ EntriesNearRam(Install(tlb, i, size, va, pa), cap)
           /\ Region[pa] # "none" => Install(tlb, i, size, va, pa)[i].valid
<1> DEFINE e == [valid |-> TRUE, page_mask |-> size, va_tag |-> va,
                 pa_tag |-> pa, pmr |-> Region[pa]]
<1>1. CASE Region[pa] = "none"
  BY <1>1 DEF Install
<1>2. CASE Region[pa] # "none"
  <2>1. Install(tlb, i, size, va, pa) = [tlb EXCEPT ![i] = e]
    BY <1>2 DEF Install
  <2>2. e \in Entry /\ e.valid
    BY <1>2, RegionAssumption DEF Entry
  <2>3. \E p \in Pages : BelongsTo(e, i, cap, p, s)
    BY <1>2
  <2>4. \A q \in Pages : RamOrItsEnd(PhysicalOf(e, q))
    BY EntryNearRam
  <2> HIDE DEF e
  <2>5. [tlb EXCEPT ![i] = e] \in TLB(cap) /\ [tlb EXCEPT ![i] = e][i] = e
    BY <2>2 DEF TLB
  <2>6. ASSUME NEW j \in 0 .. cap - 1, [tlb EXCEPT ![i] = e][j].valid
        PROVE  \E p \in Pages : BelongsTo([tlb EXCEPT ![i] = e][j], j, cap, p, s)
    <3>1. CASE j = i
      BY <2>3, <2>5, <3>1
    <3>2. CASE j # i
      <4>1. [tlb EXCEPT ![i] = e][j] = tlb[j]
        BY <3>2 DEF TLB
      <4> QED BY <2>6, <4>1 DEF EntriesAreLicensed
    <3> QED BY <3>1, <3>2
  <2>7. EntriesNearRam([tlb EXCEPT ![i] = e], cap)
    BY <2>4, <2>5 DEF EntriesNearRam, TLB
  <2> QED BY <1>2, <2>1, <2>2, <2>5, <2>6, <2>7 DEF EntriesAreLicensed
<1> QED BY <1>1, <1>2

\* The walk keeps a TLB licensed, and unless it fails, which it does only for
\* a page without translation, the page is found afterwards.
LEMMA WalkLemma ==
    ASSUME TypeOK, SeenIsCurrent, satp.mode,
           NEW cap \in Nat \ {0}, NEW tlb \in TLB(cap), NEW p \in Pages,
           EntriesAreLicensed(tlb, cap, seen), EntriesNearRam(tlb, cap)
    PROVE  LET after == walk_page_table(tlb, cap, p)
           IN  /\ after \in TLB(cap)
               /\ EntriesAreLicensed(after, cap, seen)
               /\ EntriesNearRam(after, cap)
               /\ \/ Hit(after, cap, p)
                  \/ Space!Translations(mem, satp, p) = {} /\ after = tlb
<1> DEFINE l1 == mem[satp.ppn][p[1]]
           l2 == mem[l1.ppn][p[2]]
           after == walk_page_table(tlb, cap, p)
           Root == satp.ppn \in Space!Ram
           Second == l1.ppn \in Space!Ram
<1>1. p \in Space!Frame /\ p[1] \in Space!Idx /\ p[2] \in Space!Idx
  BY GuestAssumption DEF Space!Frame
<1>2. Root => l1 \in Space!Pte
  BY <1>1 DEF TypeOK, Space!Memory
<1>3. Root /\ Second => l2 \in Space!Pte
  BY <1>1 DEF TypeOK, Space!Memory
<1>4. Space!Translations(mem, satp, p)
        = {t \in Space!Physical : Space!Maps(mem, satp.ppn, p, t)}
  BY DEF Space!Translations
<1>5. CASE ~Root \/ ~l1.valid
  <2>1. after = tlb
    BY <1>5 DEF walk_page_table, pte_at
  <2>2. Space!Translations(mem, satp, p) = {}
    BY <1>4, <1>5 DEF Space!Maps
  <2> QED BY <2>1, <2>2
<1>6. CASE Root /\ l1.valid /\ l1.leaf
  <2> DEFINE pa == <<l1.ppn[1], 0>>
             va == <<p[1], 0>>
             idx == va_to_4m_tlb_entry(cap, p)
             e == [valid |-> TRUE, page_mask |-> "4M", va_tag |-> va,
                   pa_tag |-> pa, pmr |-> Region[pa]]
  <2>1. after = Install(tlb, idx, "4M", va, pa)
    BY <1>6 DEF walk_page_table, pte_at
  <2>2. 0 \in Space!Idx
    BY FanAssumption DEF Space!Idx
  <2>3. l1.ppn[1] \in Space!Idx
    BY <1>2, <1>6 DEF Space!Pte, Space!Frame
  <2>4. pa \in Space!Frame /\ va \in Space!Frame
    BY <1>1, <2>2, <2>3 DEF Space!Frame
  <2>5. idx \in 0 .. cap - 1
    BY <1>1, IndexInRange
  <2>6. ASSUME Region[pa] # "none", NEW q \in Pages, q[1] = p[1]
        PROVE  PhysicalOf(e, q) \in seen[q]
    <3> DEFINE t == [frame |-> <<l1.ppn[1], q[2]>>, pmr |-> Region[pa]]
    <3>1. PhysicalOf(e, q) = t
      BY DEF PhysicalOf
    <3>2. Region[pa] \in {"ram", "io"}
      BY <2>4, <2>6, RegionAssumption
    <3>3. q[2] \in Space!Idx
      BY GuestAssumption DEF Space!Frame
    <3>4. t \in Space!Physical
      BY <2>3, <3>2, <3>3 DEF Space!Physical, Space!Frame
    <3>5. Space!Maps(mem, satp.ppn, q, t)
      BY <1>6, <2>6 DEF Space!Maps
    <3>6. t \in Space!Translations(mem, satp, q)
      BY <3>4, <3>5 DEF Space!Translations
    <3> QED BY <3>1, <3>6 DEF SeenIsCurrent
  <2>7. ASSUME Region[pa] # "none" PROVE BelongsTo(e, idx, cap, p, seen)
    <3>1. \A q \in Pages : q[1] = p[1] => PhysicalOf(e, q) \in seen[q]
      BY <2>6, <2>7
    <3>2. e.page_mask = "4M" /\ e.va_tag = <<p[1], 0>>
      OBVIOUS
    <3> HIDE DEF e
    <3> QED BY <3>1, <3>2 DEF BelongsTo
  <2>8. /\ after \in TLB(cap)
        /\ EntriesAreLicensed(after, cap, seen)
        /\ EntriesNearRam(after, cap)
        /\ Region[pa] # "none" => after[idx].valid
    <3>1. pa = <<pa[1], 0>>
      OBVIOUS
    <3> HIDE DEF pa, va, idx
    <3> QED BY <3>1, <2>1, <2>4, <2>5, <2>7, InstallLemma
  <2>9. CASE Region[pa] # "none"
    BY <2>8, <2>9 DEF Hit, va_to_tlb_entry
  <2>10. CASE Region[pa] = "none"
    <3>1. after = tlb
      BY <2>1, <2>10 DEF Install
    <3>2. Space!Translations(mem, satp, p) = {}
      BY <1>4, <1>6, <2>10 DEF Space!Maps, Space!Physical
    <3> QED BY <2>8, <3>1, <3>2
  <2> QED BY <2>8, <2>9, <2>10
<1>7. CASE Root /\ l1.valid /\ ~l1.leaf /\ (~Second \/ ~l2.valid)
  <2>1. after = tlb
    BY <1>7 DEF walk_page_table, pte_at
  <2>2. Space!Translations(mem, satp, p) = {}
    BY <1>4, <1>7 DEF Space!Maps
  <2> QED BY <2>1, <2>2
<1>8. CASE Root /\ l1.valid /\ ~l1.leaf /\ Second /\ l2.valid
  <2> DEFINE pa == l2.ppn
             idx == va_to_4k_tlb_entry(cap, p)
             e == [valid |-> TRUE, page_mask |-> "4K", va_tag |-> p,
                   pa_tag |-> pa, pmr |-> Region[pa]]
  <2>1. after = Install(tlb, idx, "4K", p, pa)
    BY <1>8 DEF walk_page_table, pte_at
  <2>2. pa \in Space!Frame
    BY <1>3, <1>8 DEF Space!Pte
  <2>3. idx \in 0 .. cap - 1
    BY <1>1, IndexInRange
  <2>4. ASSUME Region[pa] # "none" PROVE BelongsTo(e, idx, cap, p, seen)
    <3> DEFINE t == [frame |-> pa, pmr |-> Region[pa]]
    <3>1. PhysicalOf(e, p) = t
      BY DEF PhysicalOf
    <3>2. t \in Space!Physical
      BY <2>2, <2>4, RegionAssumption DEF Space!Physical
    <3>3. Space!Maps(mem, satp.ppn, p, t)
      BY <1>8 DEF Space!Maps
    <3>4. PhysicalOf(e, p) \in seen[p]
      BY <1>4, <3>1, <3>2, <3>3 DEF SeenIsCurrent
    <3>5. e.page_mask = "4K" /\ e.va_tag = p
      OBVIOUS
    <3> HIDE DEF e
    <3> QED BY <3>4, <3>5 DEF BelongsTo
  <2>5. /\ after \in TLB(cap)
        /\ EntriesAreLicensed(after, cap, seen)
        /\ EntriesNearRam(after, cap)
        /\ Region[pa] # "none" => after[idx].valid
    <3> HIDE DEF pa, idx
    <3> QED BY <1>1, <2>1, <2>2, <2>3, <2>4, InstallLemma
  <2>6. CASE Region[pa] # "none"
    BY <2>5, <2>6 DEF Hit, va_to_tlb_entry
  <2>7. CASE Region[pa] = "none"
    <3>1. after = tlb
      BY <2>1, <2>7 DEF Install
    <3>2. Space!Translations(mem, satp, p) = {}
      BY <1>4, <1>8, <2>7 DEF Space!Maps, Space!Physical
    <3> QED BY <2>5, <3>1, <3>2
  <2> QED BY <2>5, <2>6, <2>7
<1> HIDE DEF l1, l2, after, Root, Second
<1>9. \/ ~Root \/ ~l1.valid
      \/ Root /\ l1.valid /\ l1.leaf
      \/ Root /\ l1.valid /\ ~l1.leaf /\ (~Second \/ ~l2.valid)
      \/ Root /\ l1.valid /\ ~l1.leaf /\ Second /\ l2.valid
  OBVIOUS
<1> QED BY <1>5, <1>6, <1>7, <1>8, <1>9 DEF after

\* What an access finds: a place in a region, which is a licensed translation if
\* no two pages compete, or none and then there is none.
LEMMA LoadLemma ==
    ASSUME TypeOK, SeenIsCurrent, satp.mode,
           NEW cap \in Nat \ {0}, NEW tlb \in TLB(cap), NEW p \in Pages,
           EntriesAreLicensed(tlb, cap, seen), EntriesNearRam(tlb, cap)
    PROVE  LET after == Loaded(tlb, cap, p)
           IN  /\ after \in TLB(cap)
               /\ EntriesAreLicensed(after, cap, seen)
               /\ EntriesNearRam(after, cap)
               /\ Hit(after, cap, p) =>
                    /\ Found(after, cap, p) \in Space!Physical
                    /\ RamOrItsEnd(Found(after, cap, p))
                    /\ NoAlias(cap) => Found(after, cap, p) \in seen[p]
               /\ ~Hit(after, cap, p) =>
                    /\ Space!Translations(mem, satp, p) = {}
                    /\ after = tlb
<1> DEFINE after == Loaded(tlb, cap, p)
<1>1. /\ after \in TLB(cap)
      /\ EntriesAreLicensed(after, cap, seen)
      /\ EntriesNearRam(after, cap)
      /\ ~Hit(after, cap, p) => Space!Translations(mem, satp, p) = {} /\ after = tlb
  <2>1. CASE Hit(tlb, cap, p)
    BY <2>1 DEF Loaded
  <2>2. CASE ~Hit(tlb, cap, p)
    BY <2>2, WalkLemma DEF Loaded
  <2> QED BY <2>1, <2>2
<1> HIDE DEF after
<1>2. Hit(after, cap, p) /\ NoAlias(cap) => Found(after, cap, p) \in seen[p]
  BY <1>1, HitLemma
<1>3. Hit(after, cap, p) =>
          Found(after, cap, p) \in Space!Physical /\ RamOrItsEnd(Found(after, cap, p))
  BY <1>1, HitNearRam
<1> QED BY <1>1, <1>2, <1>3 DEF after

\* A translation in ram leads to ram or, for a 4M page, to the rest of that page.
LEMMA TranslationNearRam ==
    ASSUME NEW m \in Space!Memory, NEW s \in [mode : BOOLEAN, ppn : Space!Frame],
           NEW p \in Pages, NEW t \in Space!Translations(m, s, p)
    PROVE  t \in Space!Physical /\ RamOrItsEnd(t)
<1>1. t \in Space!Physical /\ Space!Maps(m, s.ppn, p, t)
  BY DEF Space!Translations
<1>2. t.frame \in Space!Frame
  BY <1>1 DEF Space!Physical
<1>3. SUFFICES ASSUME t.pmr = "ram"
               PROVE  t.frame \in Space!Ram \/ Region[<<t.frame[1], 0>>] = "ram"
  BY <1>1 DEF RamOrItsEnd
<1> DEFINE ppn == m[s.ppn][p[1]].ppn
<1>4. CASE t.frame = <<ppn[1], p[2]>> /\ t.pmr = Region[<<ppn[1], 0>>]
  <2>1. t.frame[1] = ppn[1]
    BY <1>4
  <2> HIDE DEF ppn
  <2> QED BY <1>3, <1>4, <2>1
<1>5. CASE t.pmr = Region[t.frame]
  BY <1>2, <1>3, <1>5 DEF Space!Ram
<1> QED BY <1>1, <1>4, <1>5 DEF Space!Maps

Distinct == NoAlias(ItlbCap) /\ NoAlias(DtlbCap)

MmuInv ==
    /\ TypeOK
    /\ TlbInv
    /\ EntriesNearRam(itlb, ItlbCap)
    /\ EntriesNearRam(dtlb, DtlbCap)

\* An emptied TLB is licensed by anything.
LEMMA InvalidatedIsLicensed ==
    ASSUME NEW cap \in Nat \ {0}, NEW s
    PROVE  /\ invalidate_tlb(cap) \in TLB(cap)
           /\ EntriesAreLicensed(invalidate_tlb(cap), cap, s)
           /\ EntriesNearRam(invalidate_tlb(cap), cap)
  BY DEF invalidate_tlb, TLB, Entry, NoEntry, EntriesAreLicensed, EntriesNearRam

\* The history after a fence holds what the tables say and nothing else.
LEMMA FencedHistory ==
    ASSUME NEW m \in Space!Memory, NEW s \in [mode : BOOLEAN, ppn : Space!Frame]
    PROVE  /\ Space!AllTranslations(m, s) \in [Pages -> SUBSET Space!Physical]
           /\ \A p \in Pages :
                /\ Space!AllTranslations(m, s)[p] = Space!Translations(m, s, p)
                /\ \A t \in Space!AllTranslations(m, s)[p] : RamOrItsEnd(t)
<1>1. \A p \in Pages : \A t \in Space!Translations(m, s, p) :
          t \in Space!Physical /\ RamOrItsEnd(t)
  BY TranslationNearRam
<1> QED BY <1>1 DEF Space!AllTranslations

\* The emulator is there or not.
LEMMA StoppedType ==
    ASSUME NEW t PROVE Space!StoppedBy(t) \subseteq BOOLEAN
BY Zenon DEF Space!StoppedBy

\* A store keeps the memory typed and only adds licences.
LEMMA StoreLemma ==
    ASSUME MmuInv, NEW t \in Space!Physical, RamOrItsEnd(t),
           NEW w \in Space!Idx, NEW v \in Words, StoreTo(t, w, v), UNCHANGED satp
    PROVE  /\ mem' \in Space!Memory
           /\ seen' \in [Pages -> SUBSET Space!Physical]
           /\ \A p \in Pages : seen[p] \subseteq seen'[p]
           /\ SeenIsCurrent'
           /\ \A p \in Pages : \A u \in seen'[p] : RamOrItsEnd(u)
           /\ answer' \in Space!Physical /\ RamOrItsEnd(answer')
           /\ mem' = Space!Stored(answer', w, v)
           /\ stopped' \in Space!StoppedBy(answer')
           /\ stopped' \in BOOLEAN
<1> USE DEF MmuInv
<1>1. mem' \in Space!Memory
  <2>1. mem \in Space!Memory /\ v \in Space!Pte
    BY GuestAssumption DEF TypeOK
  <2>2. CASE t.pmr = "ram" /\ t.frame \in Space!Ram
    <3>1. mem' = [mem EXCEPT ![t.frame][w] = v]
      BY <2>2 DEF StoreTo, Space!Stored, Space!Overruns
    <3> QED BY <2>1, <2>2, <3>1 DEF Space!Memory
  <2>3. CASE ~(t.pmr = "ram" /\ t.frame \in Space!Ram)
    BY <2>1, <2>3 DEF StoreTo, Space!Stored, Space!Overruns
  <2> QED BY <2>2, <2>3
<1>2. /\ answer' = t
      /\ mem' = Space!Stored(t, w, v)
      /\ seen' = [q \in Pages |-> seen[q] \cup Space!Translations(mem', satp, q)]
  BY DEF StoreTo
<1>3. \A p \in Pages : \A u \in Space!Translations(mem', satp, p) :
          u \in Space!Physical /\ RamOrItsEnd(u)
  BY <1>1, TranslationNearRam DEF TypeOK
<1>4. seen \in [Pages -> SUBSET Space!Physical]
  BY DEF TypeOK
<1>5. \A p \in Pages : seen'[p] = seen[p] \cup Space!Translations(mem', satp, p)
  BY <1>2
<1>6. seen' \in [Pages -> SUBSET Space!Physical]
  BY <1>2, <1>3, <1>4
<1>7. \A p \in Pages : \A u \in seen'[p] : RamOrItsEnd(u)
  BY <1>3, <1>5 DEF TlbInv
<1>8. SeenIsCurrent'
  BY <1>5 DEF SeenIsCurrent
<1>9. stopped' \in Space!StoppedBy(answer') /\ stopped' \in BOOLEAN
  BY <1>2, StoppedType DEF StoreTo
<1> QED BY <1>1, <1>2, <1>5, <1>6, <1>7, <1>8, <1>9

\* The MMU starts with empty TLBs and paging off.
LEMMA MmuInit == Init => MmuInv
<1> SUFFICES ASSUME Init PROVE MmuInv
  OBVIOUS
<1>1. TypeOK
  <2>1. itlb \in TLB(ItlbCap) /\ dtlb \in TLB(DtlbCap)
    BY InvalidatedIsLicensed, CapAssumption DEF Init
  <2>2. <<0, 0>> \in Space!Frame
    BY FanAssumption DEF Space!Frame, Space!Idx
  <2>3. seen \in [Pages -> SUBSET Space!Physical]
    BY DEF Init, Space!Init
  <2>4. satp \in [mode : BOOLEAN, ppn : Space!Frame]
    BY <2>2 DEF Init, Space!Init
  <2>5. mem \in Space!Memory /\ answer = Space!Fault /\ stores \in 0 .. MaxStores
    BY CapAssumption, GuestAssumption DEF Init, Space!Init
  <2>6. machine \in BOOLEAN /\ stopped \in BOOLEAN
    BY Zenon DEF Init, Space!Init
  <2> QED BY <2>1, <2>3, <2>4, <2>5, <2>6 DEF TypeOK, TLB
<1>2. /\ EntriesAreLicensed(itlb, ItlbCap, seen) /\ EntriesAreLicensed(dtlb, DtlbCap, seen)
      /\ EntriesNearRam(itlb, ItlbCap) /\ EntriesNearRam(dtlb, DtlbCap)
  BY InvalidatedIsLicensed, CapAssumption DEF Init
<1>3. SeenIsCurrent
  BY DEF SeenIsCurrent, Space!Translations, Init, Space!Init
<1>4. RamOrItsEnd(answer) /\ \A p \in Pages : seen[p] = {}
  BY DEF RamOrItsEnd, Init, Space!Init, Space!Fault
<1> QED BY <1>1, <1>2, <1>3, <1>4 DEF MmuInv, TlbInv

\* The parts of the invariant that an access through a TLB leaves alone.
LEMMA AccessStep ==
    ASSUME MmuInv, UNCHANGED <<mem, satp, seen, stores>>,
           itlb' \in TLB(ItlbCap), EntriesAreLicensed(itlb', ItlbCap, seen),
           dtlb' \in TLB(DtlbCap), EntriesAreLicensed(dtlb', DtlbCap, seen),
           EntriesNearRam(itlb', ItlbCap), EntriesNearRam(dtlb', DtlbCap),
           machine' \in BOOLEAN, stopped' \in BOOLEAN,
           answer' \in Space!Physical \cup {Space!Fault}, RamOrItsEnd(answer')
    PROVE  MmuInv'
<1>1. TypeOK'
  BY DEF MmuInv, TypeOK, TLB
<1>2. EntriesAreLicensed(itlb', ItlbCap, seen') /\ EntriesAreLicensed(dtlb', DtlbCap, seen')
  OBVIOUS
<1>3. SeenIsCurrent'
  BY DEF MmuInv, TlbInv, SeenIsCurrent
<1>4. (\A p \in Pages : \A t \in seen[p] : RamOrItsEnd(t))'
  BY DEF MmuInv, TlbInv
<1> QED BY <1>1, <1>2, <1>3, <1>4 DEF MmuInv, TlbInv

\* Each operation keeps the invariant.
LEMMA MmuStep ==
    ASSUME MmuInv, [Next]_vars
    PROVE  MmuInv'
<1> USE CapAssumption
<1>1. /\ itlb \in TLB(ItlbCap) /\ EntriesAreLicensed(itlb, ItlbCap, seen)
      /\ dtlb \in TLB(DtlbCap) /\ EntriesAreLicensed(dtlb, DtlbCap, seen)
      /\ EntriesNearRam(itlb, ItlbCap) /\ EntriesNearRam(dtlb, DtlbCap)
  BY DEF MmuInv, TlbInv, TypeOK, TLB
<1>2. RamOrItsEnd(Space!Fault)
  BY DEF RamOrItsEnd, Space!Fault
<1>3. \A p \in Pages : Region[p] # "none" =>
          Space!Direct(p) \in Space!Physical /\ RamOrItsEnd(Space!Direct(p))
  BY RegionAssumption, GuestAssumption
     DEF Space!Direct, Space!Physical, RamOrItsEnd, Space!Ram
<1>4. ASSUME NEW p \in Pages, mmu_instruction_read32(p) PROVE MmuInv'
  <2> DEFINE after == Loaded(itlb, ItlbCap, p)
  <2>1. /\ after \in TLB(ItlbCap) /\ EntriesAreLicensed(after, ItlbCap, seen)
        /\ EntriesNearRam(after, ItlbCap)
        /\ Hit(after, ItlbCap, p) =>
             Found(after, ItlbCap, p) \in Space!Physical /\ RamOrItsEnd(Found(after, ItlbCap, p))
    BY <1>1, <1>4, LoadLemma
       DEF mmu_instruction_read32, Space!Paging, MmuInv, TlbInv
  <2>2. /\ itlb' = after /\ UNCHANGED <<mem, satp, seen, dtlb, stores>>
        /\ \/ Hit(after, ItlbCap, p) /\ ReadFrom(Found(after, ItlbCap, p))
           \/ raise_page_fault
    BY <1>4 DEF mmu_instruction_read32
  <2> HIDE DEF after
  <2>3. machine' \in BOOLEAN /\ stopped' \in BOOLEAN
    BY <2>2, StoppedType DEF ReadFrom, raise_page_fault, MmuInv, TypeOK
  <2>4. answer' \in Space!Physical \cup {Space!Fault} /\ RamOrItsEnd(answer')
    BY <1>2, <2>1, <2>2 DEF ReadFrom, raise_page_fault
  <2> QED BY <1>1, <2>1, <2>2, <2>3, <2>4, AccessStep
<1>5. ASSUME NEW p \in Pages, vmread(p) PROVE MmuInv'
  <2> DEFINE after == Loaded(dtlb, DtlbCap, p)
  <2>1. /\ after \in TLB(DtlbCap) /\ EntriesAreLicensed(after, DtlbCap, seen)
        /\ EntriesNearRam(after, DtlbCap)
        /\ Hit(after, DtlbCap, p) =>
             Found(after, DtlbCap, p) \in Space!Physical /\ RamOrItsEnd(Found(after, DtlbCap, p))
    BY <1>1, <1>5, LoadLemma DEF vmread, Space!Paging, MmuInv, TlbInv
  <2>2. /\ dtlb' = after /\ UNCHANGED <<mem, satp, seen, itlb, stores>>
        /\ \/ Hit(after, DtlbCap, p) /\ ReadFrom(Found(after, DtlbCap, p))
           \/ raise_page_fault
    BY <1>5 DEF vmread
  <2> HIDE DEF after
  <2>3. machine' \in BOOLEAN /\ stopped' \in BOOLEAN
    BY <2>2, StoppedType DEF ReadFrom, raise_page_fault, MmuInv, TypeOK
  <2>4. answer' \in Space!Physical \cup {Space!Fault} /\ RamOrItsEnd(answer')
    BY <1>2, <2>1, <2>2 DEF ReadFrom, raise_page_fault
  <2> QED BY <1>1, <2>1, <2>2, <2>3, <2>4, AccessStep
<1>6. ASSUME NEW t \in Space!Physical, RamOrItsEnd(t), NEW w \in Space!Idx, NEW v \in Words,
             StoreTo(t, w, v), stores < MaxStores, UNCHANGED <<satp, itlb>>,
             dtlb' \in TLB(DtlbCap), EntriesAreLicensed(dtlb', DtlbCap, seen),
             EntriesNearRam(dtlb', DtlbCap)
      PROVE  MmuInv'
  <2>1. /\ mem' \in Space!Memory
        /\ seen' \in [Pages -> SUBSET Space!Physical]
        /\ \A p \in Pages : seen[p] \subseteq seen'[p]
        /\ SeenIsCurrent'
        /\ \A p \in Pages : \A u \in seen'[p] : RamOrItsEnd(u)
        /\ answer' \in Space!Physical /\ RamOrItsEnd(answer')
        /\ stopped' \in BOOLEAN
    BY <1>6, StoreLemma
  <2>2. stores' \in 0 .. MaxStores /\ UNCHANGED machine
    BY <1>6 DEF StoreTo, MmuInv, TypeOK
  <2>3. EntriesAreLicensed(itlb', ItlbCap, seen') /\ EntriesAreLicensed(dtlb', DtlbCap, seen')
    BY <1>1, <1>6, <2>1, LicenceGrows
  <2>4. TypeOK'
    BY <1>1, <1>6, <2>1, <2>2 DEF MmuInv, TypeOK, TLB
  <2> QED BY <1>1, <1>6, <2>1, <2>3, <2>4 DEF MmuInv, TlbInv
<1>7. ASSUME NEW p \in Pages, NEW w \in Space!Idx, NEW v \in Words, vmwrite(p, w, v)
      PROVE  MmuInv'
  <2> DEFINE after == Loaded(dtlb, DtlbCap, p)
  <2>1. /\ after \in TLB(DtlbCap) /\ EntriesAreLicensed(after, DtlbCap, seen)
        /\ EntriesNearRam(after, DtlbCap)
        /\ Hit(after, DtlbCap, p) =>
             Found(after, DtlbCap, p) \in Space!Physical /\ RamOrItsEnd(Found(after, DtlbCap, p))
    BY <1>1, <1>7, LoadLemma DEF vmwrite, Space!Paging, MmuInv, TlbInv
  <2>2. /\ dtlb' = after /\ UNCHANGED <<satp, itlb>> /\ stores < MaxStores
        /\ \/ /\ Hit(after, DtlbCap, p)
              /\ StoreTo(Found(after, DtlbCap, p), w, v)
           \/ raise_page_fault /\ UNCHANGED <<mem, seen, stores>>
    BY <1>7 DEF vmwrite
  <2> HIDE DEF after
  <2>3. CASE Hit(after, DtlbCap, p) /\ StoreTo(Found(after, DtlbCap, p), w, v)
    BY <1>6, <2>1, <2>2, <2>3
  <2>4. CASE raise_page_fault /\ UNCHANGED <<mem, seen, stores>>
    <3>1. machine' \in BOOLEAN /\ stopped' \in BOOLEAN /\ answer' = Space!Fault
      BY <2>4 DEF raise_page_fault, MmuInv, TypeOK
    <3> QED BY <1>1, <1>2, <2>1, <2>2, <2>4, <3>1, AccessStep
  <2> QED BY <2>2, <2>3, <2>4
<1>8. ASSUME NEW p \in Pages, direct_read(p) PROVE MmuInv'
  <2>1. /\ UNCHANGED <<mem, satp, machine, seen, itlb, dtlb, stores>>
        /\ answer' \in Space!Physical /\ RamOrItsEnd(answer') /\ stopped' \in BOOLEAN
    BY <1>3, <1>8, StoppedType DEF direct_read, ReadFrom
  <2> QED BY <1>1, <2>1, AccessStep DEF MmuInv, TypeOK
<1>9. ASSUME NEW p \in Pages, NEW w \in Space!Idx, NEW v \in Words, direct_write(p, w, v)
       PROVE  MmuInv'
  <2>1. /\ Space!Direct(p) \in Space!Physical /\ RamOrItsEnd(Space!Direct(p))
        /\ StoreTo(Space!Direct(p), w, v) /\ stores < MaxStores
        /\ UNCHANGED <<satp, itlb, dtlb>>
    BY <1>3, <1>9 DEF direct_write
  <2> QED BY <1>1, <1>6, <2>1
<1>10. ASSUME NEW p \in Pages, direct_abort(p) PROVE MmuInv'
  BY <1>10 DEF direct_abort, MmuInv, TypeOK, TlbInv, SeenIsCurrent
<1>11. ASSUME NEW s \in [mode : BOOLEAN, ppn : Space!Frame],
              satp' = s, itlb' = invalidate_tlb(ItlbCap), dtlb' = invalidate_tlb(DtlbCap),
              seen' = Space!AllTranslations(mem, s),
              UNCHANGED <<mem, machine, stopped, answer, stores>>
       PROVE  MmuInv'
  <2>1. mem \in Space!Memory
    BY DEF MmuInv, TypeOK
  <2>2. /\ seen' \in [Pages -> SUBSET Space!Physical]
        /\ \A p \in Pages : seen'[p] = Space!Translations(mem', satp', p)
        /\ \A p \in Pages : \A t \in seen'[p] : RamOrItsEnd(t)
    BY <1>11, <2>1, FencedHistory
  <2>3. /\ itlb' \in TLB(ItlbCap) /\ EntriesAreLicensed(itlb', ItlbCap, seen')
        /\ dtlb' \in TLB(DtlbCap) /\ EntriesAreLicensed(dtlb', DtlbCap, seen')
        /\ EntriesNearRam(itlb', ItlbCap) /\ EntriesNearRam(dtlb', DtlbCap)
    BY <1>11, InvalidatedIsLicensed
  <2>4. TypeOK'
    BY <1>11, <2>2, <2>3 DEF MmuInv, TypeOK, TLB
  <2>5. SeenIsCurrent'
    BY <2>2 DEF SeenIsCurrent
  <2> QED BY <1>11, <2>2, <2>3, <2>4, <2>5 DEF MmuInv, TlbInv
<1>12. ASSUME NEW s \in SatpValues, csr_satp_write(s) PROVE MmuInv'
  BY <1>11, <1>12, GuestAssumption DEF csr_satp_write
<1>13. CASE sfence_vma_callback
  BY <1>11, <1>13 DEF sfence_vma_callback, MmuInv, TypeOK
<1>14. CASE ChangeLevel
  BY <1>14 DEF ChangeLevel, MmuInv, TypeOK, TlbInv, SeenIsCurrent
<1>15. CASE UNCHANGED vars
  BY <1>15 DEF vars, space_vars, MmuInv, TypeOK, TlbInv, SeenIsCurrent
<1> QED BY <1>4, <1>5, <1>7, <1>8, <1>9, <1>10, <1>12, <1>13, <1>14, <1>15
        DEF Next, Stopped

\* Every step of the MMU is a step of the memory without a TLB, or none.
LEMMA MmuRefines ==
    ASSUME Distinct, MmuInv, [Next]_vars
    PROVE  [Space!Next]_(Space!vars)
<1> USE CapAssumption
<1>1. /\ itlb \in TLB(ItlbCap) /\ EntriesAreLicensed(itlb, ItlbCap, seen)
      /\ dtlb \in TLB(DtlbCap) /\ EntriesAreLicensed(dtlb, DtlbCap, seen)
      /\ EntriesNearRam(itlb, ItlbCap) /\ EntriesNearRam(dtlb, DtlbCap)
  BY DEF MmuInv, TlbInv, TypeOK, TLB
<1>2. \A p \in Pages : Region[p] # "none" => Space!Direct(p) \in Space!Physical
  BY RegionAssumption, GuestAssumption DEF Space!Direct, Space!Physical
<1>3. ASSUME NEW p \in Pages, mmu_instruction_read32(p) PROVE Space!Next
  <2> DEFINE after == Loaded(itlb, ItlbCap, p)
  <2>1. /\ Hit(after, ItlbCap, p) => Found(after, ItlbCap, p) \in seen[p]
        /\ ~Hit(after, ItlbCap, p) => Space!Translations(mem, satp, p) = {}
    BY <1>1, <1>3, LoadLemma
       DEF mmu_instruction_read32, Space!Paging, Distinct, MmuInv, TlbInv
  <2>2. /\ ~stopped /\ Space!Paging /\ UNCHANGED <<mem, satp, seen>>
        /\ \/ Hit(after, ItlbCap, p) /\ ReadFrom(Found(after, ItlbCap, p))
           \/ ~Hit(after, ItlbCap, p) /\ raise_page_fault
    BY <1>3 DEF mmu_instruction_read32
  <2> HIDE DEF after
  <2>3. Space!Read(p) \/ Space!PageFault(p)
    BY <2>1, <2>2 DEF Space!Read, Space!Allowed, Space!PageFault, ReadFrom, raise_page_fault
  <2> QED BY <2>2, <2>3 DEF Space!Next
<1>4. ASSUME NEW p \in Pages, vmread(p) PROVE Space!Next
  <2> DEFINE after == Loaded(dtlb, DtlbCap, p)
  <2>1. /\ Hit(after, DtlbCap, p) => Found(after, DtlbCap, p) \in seen[p]
        /\ ~Hit(after, DtlbCap, p) => Space!Translations(mem, satp, p) = {}
    BY <1>1, <1>4, LoadLemma DEF vmread, Space!Paging, Distinct, MmuInv, TlbInv
  <2>2. /\ ~stopped /\ Space!Paging /\ UNCHANGED <<mem, satp, seen>>
        /\ \/ Hit(after, DtlbCap, p) /\ ReadFrom(Found(after, DtlbCap, p))
           \/ ~Hit(after, DtlbCap, p) /\ raise_page_fault
    BY <1>4 DEF vmread
  <2> HIDE DEF after
  <2>3. Space!Read(p) \/ Space!PageFault(p)
    BY <2>1, <2>2 DEF Space!Read, Space!Allowed, Space!PageFault, ReadFrom, raise_page_fault
  <2> QED BY <2>2, <2>3 DEF Space!Next
<1>5. ASSUME NEW p \in Pages, NEW w \in Space!Idx, NEW v \in Words, vmwrite(p, w, v)
      PROVE  Space!Next
  <2> DEFINE after == Loaded(dtlb, DtlbCap, p)
  <2>1. /\ Hit(after, DtlbCap, p) => Found(after, DtlbCap, p) \in seen[p]
        /\ ~Hit(after, DtlbCap, p) => Space!Translations(mem, satp, p) = {}
    BY <1>1, <1>5, LoadLemma DEF vmwrite, Space!Paging, Distinct, MmuInv, TlbInv
  <2>2. /\ ~stopped /\ Space!Paging /\ UNCHANGED satp
        /\ \/ /\ Hit(after, DtlbCap, p)
              /\ StoreTo(Found(after, DtlbCap, p), w, v)
           \/ ~Hit(after, DtlbCap, p) /\ raise_page_fault /\ UNCHANGED <<mem, seen>>
    BY <1>5 DEF vmwrite
  <2> HIDE DEF after
  <2>3. CASE Hit(after, DtlbCap, p) /\ StoreTo(Found(after, DtlbCap, p), w, v)
    <3>1. Space!Write(p, w, v)
      BY <2>1, <2>2, <2>3 DEF Space!Write, Space!Allowed, StoreTo
    <3> QED BY <2>2, <3>1 DEF Space!Next
  <2>4. CASE ~Hit(after, DtlbCap, p) /\ raise_page_fault /\ UNCHANGED <<mem, seen>>
    <3>1. Space!PageFault(p)
      BY <2>1, <2>2, <2>4 DEF Space!PageFault, raise_page_fault
    <3> QED BY <2>2, <3>1 DEF Space!Next
  <2> QED BY <2>2, <2>3, <2>4
<1>6. ASSUME NEW p \in Pages, direct_read(p) PROVE Space!Next
  <2>1. Space!Read(p)
    BY <1>2, <1>6 DEF direct_read, ReadFrom, Space!Read, Space!Allowed
  <2> QED BY <1>6, <2>1 DEF Space!Next, direct_read
<1>7. ASSUME NEW p \in Pages, NEW w \in Space!Idx, NEW v \in Words, direct_write(p, w, v)
      PROVE  Space!Next
  <2>1. Space!Write(p, w, v)
    BY <1>2, <1>7 DEF direct_write, StoreTo, Space!Write, Space!Allowed
  <2> QED BY <1>7, <2>1 DEF Space!Next, direct_write
<1>8. ASSUME NEW p \in Pages, direct_abort(p) PROVE Space!Next
  <2>1. Space!Abort(p)
    BY <1>8 DEF direct_abort, Space!Abort
  <2> QED BY <1>8, <2>1 DEF Space!Next, direct_abort
<1>9. ASSUME NEW s \in SatpValues, csr_satp_write(s) PROVE Space!Next
  <2>1. Space!WriteSatp(s)
    BY <1>9 DEF csr_satp_write, Space!WriteSatp
  <2> QED BY <1>9, <2>1 DEF Space!Next, csr_satp_write
<1>10. CASE sfence_vma_callback
  BY <1>10 DEF sfence_vma_callback, Space!Fence, Space!Next
<1>11. CASE ChangeLevel
  BY <1>11 DEF ChangeLevel, Space!ChangeLevel, Space!Next
<1>12. CASE UNCHANGED vars
  BY <1>12 DEF vars, space_vars, Space!vars
<1> QED BY <1>3, <1>4, <1>5, <1>6, <1>7, <1>8, <1>9, <1>10, <1>11, <1>12
        DEF Next, Stopped

\* A lookup in a licensed TLB answers with a licensed translation, from the
\* entry of the page it was asked for.
LEMMA InvImplies ==
    ASSUME Distinct, MmuInv
    PROVE  TlbIsLicensed /\ LookupFindsItsPage
<1>1. /\ EntriesAreLicensed(itlb, ItlbCap, seen) /\ NoAlias(ItlbCap)
      /\ EntriesAreLicensed(dtlb, DtlbCap, seen) /\ NoAlias(DtlbCap)
      /\ ItlbCap \in Nat \ {0} /\ DtlbCap \in Nat \ {0}
  BY CapAssumption DEF MmuInv, TlbInv, Distinct
<1>2. TlbIsLicensed
  BY <1>1, HitLemma DEF TlbIsLicensed, HitsAreLicensed
<1>3. ASSUME NEW cap \in Nat \ {0}, NEW tlb,
             EntriesAreLicensed(tlb, cap, seen), NoAlias(cap)
      PROVE  HitMatchesTag(tlb, cap)
  BY <1>3, HitLemma DEF HitMatchesTag
<1>4. LookupFindsItsPage
  BY <1>1, <1>3 DEF LookupFindsItsPage
<1> QED BY <1>2, <1>4

\* Whatever either TLB would answer is a translation its page has had since
\* the last sfence.vma or write of satp, for every guest whose pages do not
\* compete for an entry.
THEOREM TlbTheorem ==
    ASSUME Distinct
    PROVE  Spec => []TlbIsLicensed
<1>1. MmuInv /\ [Next]_vars => MmuInv'
  BY MmuStep
<1>2. MmuInv => TlbIsLicensed
  BY InvImplies DEF MmuInv, TlbInv
<1> QED BY MmuInit, <1>1, <1>2, PTL DEF Spec

\* The callbacks of ram (emulate_ram.c), which check no bound, are led to ram and
\* to the rest of a 4M page that starts in ram, and nowhere else, wherever ram
\* starts and ends and whichever pages compete for an entry of a TLB.
THEOREM RamTheorem == Spec => []RamIsLeftOnlyAtItsEnd
<1>1. MmuInv /\ [Next]_vars => MmuInv'
  BY MmuStep
<1>2. MmuInv => RamIsLeftOnlyAtItsEnd
  BY DEF MmuInv, TlbInv, RamIsLeftOnlyAtItsEnd
<1> QED BY MmuInit, <1>1, <1>2, PTL DEF Spec

\* If the configuration gives ram_init a ram that no 4M page overlaps, no access
\* the callbacks of ram serve leaves the memory they were given.
THEOREM AlignedRamTheorem ==
    ASSUME RamEndsOnLargePage
    PROVE  Spec => []RamAccessIsToRam
<1>1. MmuInv /\ [Next]_vars => MmuInv'
  BY MmuStep
<1>2. MmuInv => RamAccessIsToRam
  <2> SUFFICES ASSUME MmuInv, answer.pmr = "ram" PROVE answer.frame \in Space!Ram
    BY DEF RamAccessIsToRam, Space!Overruns
  <2>1. answer \in Space!Physical
    BY DEF MmuInv, TypeOK, Space!Fault
  <2>2. answer.frame \in Space!Frame
    BY <2>1 DEF Space!Physical
  <2>3. answer.frame \in Space!Ram \/ Region[<<answer.frame[1], 0>>] = "ram"
    BY DEF MmuInv, TlbInv, RamOrItsEnd
  <2> QED BY <2>2, <2>3 DEF RamEndsOnLargePage
<1> QED BY MmuInit, <1>1, <1>2, PTL DEF Spec

\* Both TLBs keep well formed entries, and memory holds words.
THEOREM MmuTypeTheorem == Spec => []TypeOK
<1>1. MmuInv /\ [Next]_vars => MmuInv'
  BY MmuStep
<1>2. MmuInv => TypeOK
  BY DEF MmuInv, TlbInv
<1> QED BY MmuInit, <1>1, <1>2, PTL DEF Spec

\* The missing comparison of va_tag does no harm to such a guest: a lookup
\* finds the entry of the page it was asked for.
THEOREM LookupTheorem ==
    ASSUME Distinct
    PROVE  Spec => []LookupFindsItsPage
<1>1. MmuInv /\ [Next]_vars => MmuInv'
  BY MmuStep
<1>2. MmuInv => LookupFindsItsPage
  BY InvImplies
<1> QED BY MmuInit, <1>1, <1>2, PTL DEF Spec

\* The MMU with its TLBs implements the memory without one: in particular a
\* page fault is raised only for a page without translation.
THEOREM MmuRefinementTheorem ==
    ASSUME Distinct
    PROVE  Spec => ImplementsAddressSpace
<1>1. MmuInv /\ [Next]_vars => MmuInv'
  BY MmuStep
<1>2. MmuInv /\ [Next]_vars => [Space!Next]_(Space!vars)
  BY MmuRefines
<1>3. Init => Space!Init
  BY DEF Init
<1> QED BY MmuInit, <1>1, <1>2, <1>3, PTL DEF Spec, ImplementsAddressSpace, Space!Spec

\* An access that faults leaves both TLBs as they are.
LEMMA FaultStep ==
    ASSUME MmuInv, [Next]_vars,
           Installs(itlb, itlb', ItlbCap) \/ Installs(dtlb, dtlb', DtlbCap)
    PROVE  answer' # Space!Fault
<1> USE CapAssumption
<1>1. /\ itlb \in TLB(ItlbCap) /\ EntriesAreLicensed(itlb, ItlbCap, seen)
      /\ dtlb \in TLB(DtlbCap) /\ EntriesAreLicensed(dtlb, DtlbCap, seen)
      /\ EntriesNearRam(itlb, ItlbCap) /\ EntriesNearRam(dtlb, DtlbCap)
  BY DEF MmuInv, TlbInv, TypeOK, TLB
<1>2. \A t \in Space!Physical : t # Space!Fault
  BY DEF Space!Physical, Space!Fault
<1>3. itlb' # itlb \/ dtlb' # dtlb
  BY DEF Installs
<1>4. ASSUME NEW cap \in Nat \ {0} PROVE ~Installs(itlb, invalidate_tlb(cap), cap)
                                      /\ ~Installs(dtlb, invalidate_tlb(cap), cap)
  BY DEF Installs, invalidate_tlb, NoEntry
<1>5. ASSUME NEW p \in Pages, mmu_instruction_read32(p) PROVE answer' # Space!Fault
  <2> DEFINE after == Loaded(itlb, ItlbCap, p)
  <2>1. /\ Hit(after, ItlbCap, p) => Found(after, ItlbCap, p) \in Space!Physical
        /\ ~Hit(after, ItlbCap, p) => after = itlb
    BY <1>1, <1>5, LoadLemma
       DEF mmu_instruction_read32, Space!Paging, MmuInv, TlbInv
  <2>2. /\ itlb' = after /\ dtlb' = dtlb
        /\ Hit(after, ItlbCap, p) => answer' = Found(after, ItlbCap, p)
    BY <1>5 DEF mmu_instruction_read32, ReadFrom
  <2> HIDE DEF after
  <2> QED BY <1>2, <1>3, <2>1, <2>2
<1>6. ASSUME NEW p \in Pages, vmread(p) \/ \E w \in Space!Idx, v \in Words : vmwrite(p, w, v)
      PROVE  answer' # Space!Fault
  <2> DEFINE after == Loaded(dtlb, DtlbCap, p)
  <2>1. Space!Paging
    BY <1>6 DEF vmread, vmwrite
  <2>2. /\ Hit(after, DtlbCap, p) => Found(after, DtlbCap, p) \in Space!Physical
        /\ ~Hit(after, DtlbCap, p) => after = dtlb
    BY <1>1, <2>1, LoadLemma DEF Space!Paging, MmuInv, TlbInv
  <2>3. /\ dtlb' = after /\ itlb' = itlb
        /\ Hit(after, DtlbCap, p) => answer' = Found(after, DtlbCap, p)
    BY <1>6 DEF vmread, vmwrite, ReadFrom, StoreTo
  <2> HIDE DEF after
  <2> QED BY <1>2, <1>3, <2>2, <2>3
<1>7. ASSUME UNCHANGED <<itlb, dtlb>> PROVE FALSE
  BY <1>3, <1>7
<1>8. ASSUME itlb' = invalidate_tlb(ItlbCap), dtlb' = invalidate_tlb(DtlbCap) PROVE FALSE
  BY <1>4, <1>8
<1> QED BY <1>5, <1>6, <1>7, <1>8
        DEF Next, Stopped, direct_read, direct_write, direct_abort, csr_satp_write,
            sfence_vma_callback, ChangeLevel, vars

\* A walk that fails installs no entry: neither TLB gains one in a step that
\* ends in a page fault, whichever pages the guest uses.
THEOREM FaultTheorem == Spec => FaultInstallsNothing
<1>1. MmuInv /\ [Next]_vars => MmuInv'
  BY MmuStep
<1>2. MmuInv /\ [Next]_vars =>
          [Installs(itlb, itlb', ItlbCap) \/ Installs(dtlb, dtlb', DtlbCap)
             => answer' # Space!Fault]_vars
  BY FaultStep
<1> QED BY MmuInit, <1>1, <1>2, PTL DEF Spec, FaultInstallsNothing
=============================================================================
