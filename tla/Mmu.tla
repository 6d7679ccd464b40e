-------------------------------- MODULE Mmu --------------------------------
(***************************************************************************)
(* The software MMU: instruction and data TLB (mmu_tlb.h, mmu_tlb.c), the  *)
(* accesses that go through them (mmu.h, mmu.c), the page walk             *)
(* (mmu_pagewalker.c), and the two places that invalidate them, sfence.vma *)
(* and the write of satp.                                                  *)
(*                                                                         *)
(* A TLB is one array for both page sizes: a 4K page is looked up by the   *)
(* low bits of its page number and, when that entry is not valid, by those *)
(* of its 4M page number.  The lookup never compares va_tag.               *)
(***************************************************************************)
EXTENDS Integers

CONSTANTS
    Fan, Region, Pages, Words, SatpValues, Image,  \* see AddressSpace
    ItlbCap,      \* hartptr->itlb_cap
    DtlbCap,      \* hartptr->dtlb_cap
    MaxStores     \* bound of the model: stores the guest makes

VARIABLES
    mem, satp, machine, stopped, answer, seen,  \* see AddressSpace
    itlb,     \* hartptr->itlb
    dtlb,     \* hartptr->dtlb
    stores    \* history: number of stores made, bounded by MaxStores

space_vars == <<mem, satp, machine, stopped, answer, seen>>
vars == <<space_vars, itlb, dtlb, stores>>

Space == INSTANCE AddressSpace

ASSUME FanAssumption == Fan \in Nat \ {0}

\* Nothing is assumed of where ram starts and ends: ram_init takes both from
\* the configuration.
ASSUME RegionAssumption == Region \in [Space!Frame -> {"ram", "io", "none"}]

ASSUME GuestAssumption ==
    /\ Pages \subseteq Space!Frame
    /\ Words \subseteq Space!Pte
    /\ SatpValues \subseteq [mode : BOOLEAN, ppn : Space!Frame]
    /\ Image \in Space!Memory

\* The index is masked with the capacity less one, so it is a power of two.
ASSUME CapAssumption ==
    /\ ItlbCap \in Nat \ {0} /\ \E k \in 0 .. 20 : ItlbCap = 2^k
    /\ DtlbCap \in Nat \ {0} /\ \E k \in 0 .. 20 : DtlbCap = 2^k
    /\ MaxStores \in Nat

----------------------------------------------------------------------------
(* The TLB.  The fields of an entry that is not valid are never read. *)

NoEntry == [valid |-> FALSE, page_mask |-> "4K", va_tag |-> <<0, 0>>,
            pa_tag |-> <<0, 0>>, pmr |-> "none"]

Entry == [valid : {TRUE}, page_mask : {"4K", "4M"}, va_tag : Space!Frame,
          pa_tag : Space!Frame, pmr : {"ram", "io"}] \cup {NoEntry}

va_to_4k_tlb_entry(cap, p) == (p[1] * Fan + p[2]) % cap

va_to_4m_tlb_entry(cap, p) == p[1] % cap

\* The index at which the lookup of page p ends, valid or not.
va_to_tlb_entry(tlb, cap, p) ==
    IF tlb[va_to_4k_tlb_entry(cap, p)].valid
    THEN va_to_4k_tlb_entry(cap, p)
    ELSE va_to_4m_tlb_entry(cap, p)

\* (A lookup that forgets the 4M index.)
HitSmallPagesOnly(tlb, cap, p) == tlb[va_to_4k_tlb_entry(cap, p)].valid

Hit(tlb, cap, p) == tlb[va_to_tlb_entry(tlb, cap, p)].valid

\* (An offset taken with the wrong mask.)
PhysicalKeepsVa(entry, p) ==
    [frame |-> IF entry.page_mask = "4M" THEN p ELSE entry.pa_tag, pmr |-> entry.pmr]

\* The frame an entry leads to: pa_tag | (linear_address & ~page_mask).
PhysicalOf(entry, p) ==
    [frame |-> IF entry.page_mask = "4M" THEN <<entry.pa_tag[1], p[2]>>
                                         ELSE entry.pa_tag,
     pmr |-> entry.pmr]

invalidate_tlb(cap) == [i \in 0 .. cap - 1 |-> NoEntry]

----------------------------------------------------------------------------
(* The page walk *)

\* Entry i of the table at frame f: not valid when the table cannot be read.
pte_at(f, i) ==
    IF f \in Space!Ram THEN mem[f][i]
                       ELSE [valid |-> FALSE, leaf |-> FALSE, ppn |-> <<0, 0>>]

\* (An installation that does not look whether the frame is backed.)
InstallUnchecked(tlb, i, size, va, pa) ==
    [tlb EXCEPT ![i] = [valid |-> TRUE, page_mask |-> size, va_tag |-> va,
                        pa_tag |-> pa, pmr |-> Region[pa]]]

Install(tlb, i, size, va, pa) ==
    IF Region[pa] = "none"
    THEN tlb
    ELSE [tlb EXCEPT ![i] = [valid |-> TRUE, page_mask |-> size, va_tag |-> va,
                             pa_tag |-> pa, pmr |-> Region[pa]]]

\* The TLB after a walk for page p, unchanged if the walk fails.
walk_page_table(tlb, cap, p) ==
    LET level1_pte == pte_at(satp.ppn, p[1])
        level2_pte == pte_at(level1_pte.ppn, p[2])
    IN  IF ~level1_pte.valid
        THEN tlb
        ELSE IF level1_pte.leaf
        THEN Install(tlb, va_to_4m_tlb_entry(cap, p), "4M",
                     <<p[1], 0>>, <<level1_pte.ppn[1], 0>>)
        ELSE IF ~level2_pte.valid
        THEN tlb
        ELSE Install(tlb, va_to_4k_tlb_entry(cap, p), "4K", p, level2_pte.ppn)

\* (A miss that is not followed by a walk.)
LoadedWithoutWalk(tlb, cap, p) == tlb

\* The TLB by the time an access to page p looks for its entry for the last
\* time.
Loaded(tlb, cap, p) ==
    IF Hit(tlb, cap, p) THEN tlb ELSE walk_page_table(tlb, cap, p)

Found(tlb, cap, p) == PhysicalOf(tlb[va_to_tlb_entry(tlb, cap, p)], p)

----------------------------------------------------------------------------
(* Accesses *)

Init ==
    /\ Space!Init
    /\ itlb = invalidate_tlb(ItlbCap)
    /\ dtlb = invalidate_tlb(DtlbCap)
    /\ stores = 0

\* raise_exception_with_tvalue: the trap may be delegated.
raise_page_fault ==
    /\ answer' = Space!Fault
    /\ machine' \in BOOLEAN
    /\ UNCHANGED stopped

\* pmr_read: the callback of the region that serves t.
ReadFrom(t) ==
    /\ answer' = t
    /\ stopped' \in Space!StoppedBy(t)
    /\ UNCHANGED machine

mmu_instruction_read32(p) ==
    /\ ~stopped
    /\ Space!Paging
    /\ itlb' = Loaded(itlb, ItlbCap, p)
    /\ \/ /\ Hit(itlb', ItlbCap, p)
          /\ ReadFrom(Found(itlb', ItlbCap, p))
       \/ /\ ~Hit(itlb', ItlbCap, p)
          /\ raise_page_fault
    /\ UNCHANGED <<mem, satp, seen, dtlb, stores>>

vmread(p) ==
    /\ ~stopped
    /\ Space!Paging
    /\ dtlb' = Loaded(dtlb, DtlbCap, p)
    /\ \/ /\ Hit(dtlb', DtlbCap, p)
          /\ ReadFrom(Found(dtlb', DtlbCap, p))
       \/ /\ ~Hit(dtlb', DtlbCap, p)
          /\ raise_page_fault
    /\ UNCHANGED <<mem, satp, seen, itlb, stores>>

\* What a store does once its place is known; it may write a page table.
StoreTo(t, w, v) ==
    /\ answer' = t
    /\ mem' = Space!Stored(t, w, v)
    /\ seen' = [q \in Pages |-> seen[q] \cup Space!Translations(mem', satp, q)]
    /\ stores' = stores + 1
    /\ stopped' \in Space!StoppedBy(t)
    /\ UNCHANGED machine

vmwrite(p, w, v) ==
    /\ ~stopped
    /\ Space!Paging
    /\ stores < MaxStores
    /\ dtlb' = Loaded(dtlb, DtlbCap, p)
    /\ \/ /\ Hit(dtlb', DtlbCap, p)
          /\ StoreTo(Found(dtlb', DtlbCap, p), w, v)
       \/ /\ ~Hit(dtlb', DtlbCap, p)
          /\ raise_page_fault
          /\ UNCHANGED <<mem, seen, stores>>
    /\ UNCHANGED <<satp, itlb>>

direct_read(p) ==
    /\ ~stopped
    /\ ~Space!Paging
    /\ Region[p] # "none"
    /\ ReadFrom(Space!Direct(p))
    /\ UNCHANGED <<mem, satp, seen, itlb, dtlb, stores>>

direct_write(p, w, v) ==
    /\ ~stopped
    /\ ~Space!Paging
    /\ Region[p] # "none"
    /\ stores < MaxStores
    /\ StoreTo(Space!Direct(p), w, v)
    /\ UNCHANGED <<satp, itlb, dtlb>>

\* dump_hart and __not_reach, in an access that no region serves.
direct_abort(p) ==
    /\ ~stopped
    /\ ~Space!Paging
    /\ Region[p] = "none"
    /\ stopped' = TRUE
    /\ UNCHANGED <<mem, satp, machine, answer, seen, itlb, dtlb, stores>>

----------------------------------------------------------------------------
(* Address space changes.  Both flush the translation cache as well, see   *)
(* ExecSfenceVma and ExecCsrSatp of TranslationCache.                      *)

csr_satp_write(s) ==
    /\ ~stopped
    /\ satp' = s
    /\ itlb' = invalidate_tlb(ItlbCap)
    /\ dtlb' = invalidate_tlb(DtlbCap)
    /\ seen' = Space!AllTranslations(mem, s)
    /\ UNCHANGED <<mem, machine, stopped, answer, stores>>

\* (A fence that forgets the data TLB.)
SfenceKeepsDtlb ==
    /\ ~stopped
    /\ itlb' = invalidate_tlb(ItlbCap)
    /\ seen' = Space!AllTranslations(mem, satp)
    /\ UNCHANGED <<mem, satp, machine, stopped, answer, dtlb, stores>>

sfence_vma_callback ==
    /\ ~stopped
    /\ itlb' = invalidate_tlb(ItlbCap)
    /\ dtlb' = invalidate_tlb(DtlbCap)
    /\ seen' = Space!AllTranslations(mem, satp)
    /\ UNCHANGED <<mem, satp, machine, stopped, answer, stores>>

\* A trap to machine mode or a return from it turns paging off or on and
\* leaves both TLBs alone.
ChangeLevel ==
    /\ ~stopped
    /\ machine' = ~machine
    /\ UNCHANGED <<mem, satp, stopped, answer, seen, itlb, dtlb, stores>>

Stopped == stopped /\ UNCHANGED vars

Next ==
    \/ \E p \in Pages :
        \/ mmu_instruction_read32(p)
        \/ vmread(p)
        \/ direct_read(p)
        \/ direct_abort(p)
        \/ \E w \in Space!Idx, v \in Words : vmwrite(p, w, v) \/ direct_write(p, w, v)
    \/ \E s \in SatpValues : csr_satp_write(s)
    \/ sfence_vma_callback
    \/ ChangeLevel
    \/ Stopped

Spec == Init /\ [][Next]_vars

----------------------------------------------------------------------------
(* Properties *)

\* No two pages the guest uses compete for an entry: not as 4K pages, not as
\* 4M pages, and not one as the one and the other as the other.  A page may
\* have its own 4M page's index.
NoAlias(cap) ==
    \A p, q \in Pages :
        /\ p # q => /\ va_to_4k_tlb_entry(cap, p) # va_to_4k_tlb_entry(cap, q)
                    /\ va_to_4k_tlb_entry(cap, p) # va_to_4m_tlb_entry(cap, q)
        /\ p[1] # q[1] => va_to_4m_tlb_entry(cap, p) # va_to_4m_tlb_entry(cap, q)

\* The state keeps its types.
TypeOK ==
    /\ mem \in Space!Memory
    /\ satp \in [mode : BOOLEAN, ppn : Space!Frame]
    /\ machine \in BOOLEAN
    /\ stopped \in BOOLEAN
    /\ answer \in Space!Physical \cup {Space!Fault}
    /\ seen \in [Pages -> SUBSET Space!Physical]
    /\ itlb \in [0 .. ItlbCap - 1 -> Entry]
    /\ dtlb \in [0 .. DtlbCap - 1 -> Entry]
    /\ stores \in 0 .. MaxStores

HitsAreLicensed(tlb, cap, s) ==
    \A p \in Pages : Hit(tlb, cap, p) => Found(tlb, cap, p) \in s[p]

\* Whatever either TLB would answer for a page is a translation the page has
\* had since the last sfence.vma or write of satp.
TlbIsLicensed ==
    HitsAreLicensed(itlb, ItlbCap, seen) /\ HitsAreLicensed(dtlb, DtlbCap, seen)

RamOrItsEnd(t) ==
    t.pmr = "ram" => t.frame \in Space!Ram \/ Region[<<t.frame[1], 0>>] = "ram"

\* The callbacks of ram, which check no bound, serve accesses to ram and, if ram
\* ends inside a 4M page, accesses to the rest of that page: no translation of
\* another region or of a 4K page, no stale entry and no entry of another page
\* leads them anywhere else.
RamIsLeftOnlyAtItsEnd == RamOrItsEnd(answer)

\* The condition on the configuration that closes the gap: no 4M page starts in
\* ram and ends behind it.
RamEndsOnLargePage ==
    \A f \in Space!Frame : Region[<<f[1], 0>>] = "ram" => f \in Space!Ram

\* Under that condition, an access served as ram is to ram.
RamAccessIsToRam == ~Space!Overruns(answer)

Installs(tlb, after, cap) ==
    \E i \in 0 .. cap - 1 : after[i].valid /\ after[i] # tlb[i]

\* An access that faults installs no entry in either TLB: what the comment
\* above walk_page_table says of a walk that fails.
FaultInstallsNothing ==
    [][Installs(itlb, itlb', ItlbCap) \/ Installs(dtlb, dtlb', DtlbCap)
         => answer' # Space!Fault]_vars

\* The MMU with its TLBs implements the memory without one.
ImplementsAddressSpace == Space!Spec

\* Why TlbIsLicensed holds: every entry belongs to a page the guest uses, is at
\* that page's index, and was right for all that it covers.
BelongsTo(entry, i, cap, p, s) ==
    \/ /\ entry.page_mask = "4K"
       /\ entry.va_tag = p
       /\ i = va_to_4k_tlb_entry(cap, p)
       /\ PhysicalOf(entry, p) \in s[p]
    \/ /\ entry.page_mask = "4M"
       /\ entry.va_tag = <<p[1], 0>>
       /\ i = va_to_4m_tlb_entry(cap, p)
       /\ \A q \in Pages : q[1] = p[1] => PhysicalOf(entry, q) \in s[q]

EntriesAreLicensed(tlb, cap, s) ==
    \A i \in 0 .. cap - 1 :
        tlb[i].valid => \E p \in Pages : BelongsTo(tlb[i], i, cap, p, s)

SeenIsCurrent ==
    \A p \in Pages : Space!Translations(mem, satp, p) \subseteq seen[p]

TlbInv ==
    /\ EntriesAreLicensed(itlb, ItlbCap, seen)
    /\ EntriesAreLicensed(dtlb, DtlbCap, seen)
    /\ SeenIsCurrent
    /\ \A p \in Pages : \A t \in seen[p] : RamOrItsEnd(t)
    /\ RamOrItsEnd(answer)

TagMatches(entry, p) ==
    \/ entry.page_mask = "4K" /\ entry.va_tag = p
    \/ entry.page_mask = "4M" /\ entry.va_tag[1] = p[1]

HitMatchesTag(tlb, cap) ==
    \A p \in Pages :
        Hit(tlb, cap, p) => TagMatches(tlb[va_to_tlb_entry(tlb, cap, p)], p)

\* A lookup finds the entry of the page it was asked for: the TLB is an
\* address translation cache, as the comment above struct tlb_entry has it.
LookupFindsItsPage == HitMatchesTag(itlb, ItlbCap) /\ HitMatchesTag(dtlb, DtlbCap)
=============================================================================
