----------------------- MODULE TranslationCacheProofs -----------------------
(***************************************************************************)
(* Proofs about the translator, for every guest program, number of address *)
(* spaces, cache size and translation sizes.  TypeOK and LayoutInv are     *)
(* inductive together; the other safety properties follow from them.       *)
(***************************************************************************)
EXTENDS TranslationCache, TLAPS

IInv == TypeOK /\ LayoutInv

USE DEF PC, Addr

\* The program counter stays in the address space.
LEMMA Next4Type ==
    ASSUME NEW p \in PC PROVE Next4(p) \in PC
BY ParameterAssumption DEF Next4

\* What the assumptions say of an instruction.
LEMMA InstrFacts ==
    ASSUME NEW i \in Instr
    PROVE  /\ i.kind \in FallThroughKinds \cup TerminatorKinds
           /\ i.size \in Nat \ {0}
           /\ i.size + JumperSize <= CacheSize
           /\ i # Unmapped
           /\ i # Unknown
BY InstrAssumption, ParameterAssumption
   DEF FallThroughKinds, TerminatorKinds, Unmapped, Unknown

\* Where a block ends: behind its first cell, and in the cache if anything is
\* to follow it.
LEMMA BlockEnd ==
    ASSUME NEW a \in Addr, NEW s \in Nat \ {0}, NEW q \in 0 .. CacheSize, a + s <= q
    PROVE  a < q /\ a + s \in Nat /\ (a + s < q => a + s \in Addr)
BY ParameterAssumption

\* A block in the cache is that of an instruction at an address.
LEMMA ItemFacts ==
    ASSUME NEW b \in Items, b.what = "block"
    PROVE  b.pc \in PC /\ b.instr \in Instr
BY DEF Items, Junk, Jumper

\* What COMMIT_TRANSLATION copies is a block of the address it is for.
LEMMA BlockFacts ==
    ASSUME NEW p \in PC, NEW i \in Instr
    PROVE  /\ Block(p, i) \in Items
           /\ Block(p, i).what = "block"
           /\ Block(p, i).pc = p
           /\ Block(p, i).instr = i
BY DEF Block, Items

\* The jumper and the leftover bytes are not blocks.
LEMMA JumperFacts ==
    /\ Jumper \in Items /\ Jumper.what = "jumper"
    /\ Junk \in Items /\ Junk.what = "junk"
BY DEF Jumper, Junk, Items

\* The empty cache after hart_init is well laid out.
LEMMA InitIInv == Init => IInv
<1> SUFFICES ASSUME Init PROVE IInv
  OBVIOUS
<1>1. TypeOK
  <2>1. cache \in [Addr -> Items]
    BY JumperFacts DEF Init
  <2>2. mappings \in [DOMAIN mappings -> Addr] /\ DOMAIN mappings = {}
    BY DEF Init, NoMappings
  <2>3. code \in Memory
    BY GuestAssumption DEF Init
  <2>4. /\ tc_ptr \in 0 .. CacheSize /\ nr_translated \in Nat
        /\ old_trans_ptr \in Nat /\ ip \in Addr /\ stores \in 0 .. MaxStores
    BY ParameterAssumption DEF Init
  <2>5. tag \in Spaces /\ pc \in PC /\ next_fetch \in PC
    BY GuestAssumption DEF Init
  <2>6. is_flushable \in BOOLEAN /\ unsealed \in BOOLEAN
    BY DEF Init
  <2>7. mode \in Modes /\ dirty \subseteq Spaces \X PC /\ remapped \subseteq dirty
    BY DEF Init, Modes
  <2> QED
    BY <2>1, <2>2, <2>3, <2>4, <2>5, <2>6, <2>7 DEF TypeOK
<1>2. LayoutInv
  <2>1. DOMAIN mappings = {}
    BY DEF Init, NoMappings
  <2>2. CellsFit
    BY JumperFacts DEF Init, CellsFit
  <2>3. BlobIsConsistent
    BY DEF Init, BlobIsConsistent
  <2> QED
    BY <2>1, <2>2, <2>3, ParameterAssumption
    DEF LayoutInv, MappingsPointToBlocks, BlocksAreFollowed,
        TranslationsAreFresh, ControlIsMapped, Init
<1> QED BY <1>1, <1>2 DEF IInv

----------------------------------------------------------------------------
(* Steps that flush, and steps that leave the cache as it is *)

\* A flush on the way to the vmm leaves nothing the layout speaks of.
LEMMA FlushFacts ==
    ASSUME TypeOK, LayoutInv, flush_translation_cache, mode' = "vmexit"
    PROVE  LayoutInv'
<1>1. DOMAIN mappings' = {}
  BY DEF flush_translation_cache, NoMappings
<1>2. CellsFit'
  BY DEF LayoutInv, CellsFit, flush_translation_cache
<1>3. BlobIsConsistent' /\ ControlIsMapped'
  BY DEF BlobIsConsistent, ControlIsMapped
<1>4. nr_translated' <= MaxInstr
  BY ParameterAssumption DEF flush_translation_cache
<1> QED
  BY <1>1, <1>2, <1>3, <1>4
  DEF LayoutInv, MappingsPointToBlocks, BlocksAreFollowed, TranslationsAreFresh

\* flush_translation_cache keeps the types.
LEMMA FlushType ==
    ASSUME TypeOK, flush_translation_cache
    PROVE  /\ cache' \in [Addr -> Items]
           /\ tc_ptr' \in 0 .. CacheSize
           /\ DOMAIN mappings' \subseteq PC
           /\ mappings' \in [DOMAIN mappings' -> Addr]
           /\ nr_translated' \in Nat
           /\ unsealed' \in BOOLEAN
<1>1. DOMAIN mappings' = {} /\ mappings' \in [DOMAIN mappings' -> Addr]
  BY DEF flush_translation_cache, NoMappings
<1>2. tc_ptr' \in 0 .. CacheSize /\ nr_translated' \in Nat
  BY ParameterAssumption DEF flush_translation_cache
<1>3. unsealed' \in BOOLEAN
  BY DEF flush_translation_cache
<1>4. cache' \in [Addr -> Items]
  BY DEF flush_translation_cache, TypeOK
<1> QED
  BY <1>1, <1>2, <1>3, <1>4

\* A step that leaves the cache alone keeps its types.
LEMMA KeepType ==
    ASSUME TypeOK, UNCHANGED tc_vars
    PROVE  /\ cache' \in [Addr -> Items]
           /\ tc_ptr' \in 0 .. CacheSize
           /\ DOMAIN mappings' \subseteq PC
           /\ mappings' \in [DOMAIN mappings' -> Addr]
           /\ nr_translated' \in Nat
           /\ unsealed' \in BOOLEAN
BY DEF TypeOK, tc_vars

\* Leaving translated code, or taking a trap between translation units.
LEMMA LeaveFacts ==
    ASSUME TypeOK, LayoutInv, UNCHANGED tc_vars, UNCHANGED guest_vars, tag' = tag,
           mode \in {"run", "vmexit"}, mode' = "vmexit"
    PROVE  LayoutInv'
<1> USE DEF LayoutInv, tc_vars, guest_vars
<1>1. CellsFit' /\ MappingsPointToBlocks'
  BY DEF CellsFit, MappingsPointToBlocks
<1>2. BlocksAreFollowed'
  BY DEF BlocksAreFollowed
<1>3. TranslationsAreFresh'
  BY DEF TranslationsAreFresh
<1>4. BlobIsConsistent' /\ ControlIsMapped'
  BY DEF BlobIsConsistent, ControlIsMapped
<1> QED BY <1>1, <1>2, <1>3, <1>4

\* TakeTrap and ExecRet: whatever the new address space, the cache is right
\* for it.
LEMMA SpaceChangeFacts ==
    ASSUME TypeOK, LayoutInv, UNCHANGED guest_vars,
           flush_translation_cache_on_address_space_change(tag),
           mode \in {"run", "vmexit"}, mode' = "vmexit"
    PROVE  /\ LayoutInv'
           /\ cache' \in [Addr -> Items]
           /\ tc_ptr' \in 0 .. CacheSize
           /\ DOMAIN mappings' \subseteq PC
           /\ mappings' \in [DOMAIN mappings' -> Addr]
           /\ nr_translated' \in Nat
           /\ unsealed' \in BOOLEAN
<1>1. CASE tag' # tag
  <2>1. flush_translation_cache
    BY <1>1 DEF flush_translation_cache_on_address_space_change
  <2> QED BY <2>1, FlushFacts, FlushType
<1>2. CASE tag' = tag
  <2>1. UNCHANGED tc_vars
    BY <1>2 DEF flush_translation_cache_on_address_space_change
  <2> QED BY <1>2, <2>1, LeaveFacts, KeepType
<1> QED BY <1>1, <1>2

\* A trap keeps the layout, whether or not it changes the address space.
LEMMA TakeTrapStep ==
    ASSUME IInv, TakeTrap, mode \in {"run", "vmexit"} PROVE IInv'
<1>1. UNCHANGED guest_vars /\ mode' = "vmexit"
  BY DEF TakeTrap
<1>2. flush_translation_cache_on_address_space_change(tag)
  BY DEF TakeTrap
<1>3. pc' \in PC /\ tag' \in Spaces
  BY GuestAssumption DEF TakeTrap
<1>4. /\ LayoutInv'
      /\ cache' \in [Addr -> Items]
      /\ tc_ptr' \in 0 .. CacheSize
      /\ DOMAIN mappings' \subseteq PC
      /\ mappings' \in [DOMAIN mappings' -> Addr]
      /\ nr_translated' \in Nat
      /\ unsealed' \in BOOLEAN
  BY <1>1, <1>2, SpaceChangeFacts DEF IInv
<1>5. /\ code' \in Memory /\ dirty' \subseteq Spaces \X PC /\ remapped' \subseteq dirty'
      /\ stores' \in 0 .. MaxStores /\ next_fetch' \in PC
      /\ is_flushable' \in BOOLEAN /\ old_trans_ptr' \in Nat /\ ip' \in Addr
  BY DEF TakeTrap, IInv, TypeOK, guest_vars, blob_vars
<1> QED BY <1>1, <1>3, <1>4, <1>5 DEF IInv, TypeOK, Modes

\* mret and sret keep the layout.
LEMMA ExecRetStep == ASSUME IInv, ExecRet PROVE IInv'
<1>1. UNCHANGED guest_vars /\ mode' = "vmexit" /\ mode = "run"
  BY DEF ExecRet, LeaveAt, At
<1>2. flush_translation_cache_on_address_space_change(tag)
  BY DEF ExecRet
<1>3. pc' \in PC /\ tag' \in Spaces
  BY DEF ExecRet, LeaveAt
<1>4. /\ LayoutInv'
      /\ cache' \in [Addr -> Items]
      /\ tc_ptr' \in 0 .. CacheSize
      /\ DOMAIN mappings' \subseteq PC
      /\ mappings' \in [DOMAIN mappings' -> Addr]
      /\ nr_translated' \in Nat
      /\ unsealed' \in BOOLEAN
  BY <1>1, <1>2, SpaceChangeFacts DEF IInv
<1>5. /\ code' \in Memory /\ dirty' \subseteq Spaces \X PC /\ remapped' \subseteq dirty'
      /\ stores' \in 0 .. MaxStores /\ next_fetch' \in PC
      /\ is_flushable' \in BOOLEAN /\ old_trans_ptr' \in Nat /\ ip' \in Addr
  BY DEF ExecRet, LeaveAt, IInv, TypeOK, guest_vars, blob_vars
<1> QED BY <1>1, <1>3, <1>4, <1>5 DEF IInv, TypeOK, Modes

\* fence.i, sfence.vma and a write of satp.
LEMMA ExecFlushStep ==
    ASSUME IInv, ExecFenceI \/ ExecSfenceVma \/ ExecCsrSatp PROVE IInv'
<1>1. mode' = "vmexit" /\ flush_translation_cache
  BY DEF ExecFenceI, ExecSfenceVma, ExecCsrSatp, InvalidateAndFlush, LeaveAt
<1>2. LayoutInv'
  BY <1>1, FlushFacts DEF IInv
<1>3. /\ cache' \in [Addr -> Items]
      /\ tc_ptr' \in 0 .. CacheSize
      /\ DOMAIN mappings' \subseteq PC
      /\ mappings' \in [DOMAIN mappings' -> Addr]
      /\ nr_translated' \in Nat
      /\ unsealed' \in BOOLEAN
  BY <1>1, FlushType DEF IInv
<1>4. pc' \in PC /\ tag' \in Spaces
  BY Next4Type DEF ExecFenceI, ExecSfenceVma, ExecCsrSatp, InvalidateAndFlush, LeaveAt, IInv, TypeOK
<1>5. /\ code' \in Memory /\ dirty' \subseteq Spaces \X PC /\ remapped' \subseteq dirty'
      /\ stores' \in 0 .. MaxStores
  BY DEF ExecFenceI, ExecSfenceVma, ExecCsrSatp, InvalidateAndFlush, IInv, TypeOK, guest_vars
<1>6. /\ next_fetch' \in PC /\ is_flushable' \in BOOLEAN
      /\ old_trans_ptr' \in Nat /\ ip' \in Addr
  BY DEF ExecFenceI, ExecSfenceVma, ExecCsrSatp, InvalidateAndFlush, LeaveAt, IInv, TypeOK, blob_vars
<1> QED BY <1>1, <1>2, <1>3, <1>4, <1>5, <1>6 DEF IInv, TypeOK, Modes

\* Terminators that leave the cache alone keep the layout.
LEMMA ExecLeaveStep ==
    ASSUME IInv, ExecJump \/ ExecWfi \/ ExecCsr \/ ExecJumper PROVE IInv'
<1>1. /\ mode = "run" /\ mode' = "vmexit" /\ tag' = tag
      /\ UNCHANGED tc_vars /\ UNCHANGED guest_vars /\ UNCHANGED blob_vars /\ ip' = ip
  BY DEF ExecJump, ExecWfi, ExecCsr, ExecJumper, LeaveAt, At
<1>2. pc' \in PC
  BY Next4Type DEF ExecJump, ExecWfi, ExecCsr, ExecJumper, LeaveAt, IInv, TypeOK
<1>3. LayoutInv'
  BY <1>1, LeaveFacts DEF IInv
<1>4. TypeOK'
  BY <1>1, <1>2 DEF IInv, TypeOK, tc_vars, guest_vars, blob_vars, Modes
<1> QED BY <1>3, <1>4 DEF IInv

----------------------------------------------------------------------------
(* Falling from one block into the next *)

\* Where a block ends, control finds a jumper or the block of the next address.
LEMMA FallThroughFacts ==
    ASSUME IInv, FallIntoNextBlock, mode = "run", cache[ip].what = "block",
           cache[ip].instr.kind \in FallThroughKinds
    PROVE  /\ pc' \in PC /\ ip' \in Addr
           /\ ControlIsMapped'
<1>1. cache[ip] \in Items /\ cache[ip].instr \in Instr
  BY ItemFacts DEF IInv, TypeOK
<1>2. cache[ip].instr.size \in Nat \ {0}
  BY <1>1, InstrFacts
<1>3. ip + cache[ip].instr.size + JumperSize <= CacheSize
  BY DEF IInv, TypeOK, LayoutInv, CellsFit
<1>4. pc' \in PC /\ ip' \in Addr
  <2>1. pc' \in PC
    BY Next4Type DEF FallIntoNextBlock, IInv, TypeOK
  <2>2. ip \in 0 .. CacheSize - 1 /\ ip' = ip + cache[ip].instr.size
    BY DEF FallIntoNextBlock, IInv, TypeOK
  <2> QED BY <1>2, <1>3, <2>1, <2>2, ParameterAssumption
<1>5. ASSUME ~unsealed
      PROVE  cache[ip'].what = "jumper" \/ (pc' \in DOMAIN mappings /\ ip' = mappings[pc'])
  <2>1. pc \in DOMAIN mappings /\ ip = mappings[pc]
    BY <1>5 DEF IInv, LayoutInv, ControlIsMapped
  <2>2. pc' = Next4(pc) /\ ip' = mappings[pc] + cache[mappings[pc]].instr.size
    BY <2>1 DEF FallIntoNextBlock
  <2> QED
    BY <1>5, <2>1, <2>2 DEF IInv, LayoutInv, BlocksAreFollowed
<1>6. ControlIsMapped'
  BY <1>5 DEF ControlIsMapped, FallIntoNextBlock, tc_vars
<1> QED BY <1>4, <1>6

\* Everything but the control and the freshness of translations.
LEMMA FallThroughKeeps ==
    ASSUME IInv, FallIntoNextBlock, mode = "run"
    PROVE  /\ CellsFit' /\ MappingsPointToBlocks' /\ BlocksAreFollowed'
           /\ BlobIsConsistent' /\ nr_translated' <= MaxInstr
<1> USE DEF IInv, LayoutInv, FallIntoNextBlock, tc_vars
<1>1. CellsFit' /\ MappingsPointToBlocks'
  BY DEF CellsFit, MappingsPointToBlocks
<1>2. BlocksAreFollowed'
  BY DEF BlocksAreFollowed, blob_vars
<1>3. BlobIsConsistent'
  BY DEF BlobIsConsistent
<1> QED BY <1>1, <1>2, <1>3

\* Instructions that run on keep the layout, a store to code or to a page table included.
LEMMA ExecFallThroughStep ==
    ASSUME IInv, ExecPlain \/ ExecMem \/ ExecStore \/ ExecRemap PROVE IInv'
<1>1. FallIntoNextBlock /\ mode = "run" /\ cache[ip].what = "block"
  BY DEF ExecPlain, ExecMem, ExecStore, ExecRemap, At
<1>2. cache[ip].instr.kind \in FallThroughKinds
  BY DEF ExecPlain, ExecMem, ExecStore, ExecRemap, At, FallThroughKinds
<1>3. pc' \in PC /\ ip' \in Addr /\ ControlIsMapped'
  BY <1>1, <1>2, FallThroughFacts
<1>4. UNCHANGED tc_vars /\ tag' = tag /\ mode' = mode /\ UNCHANGED blob_vars
  BY <1>1 DEF FallIntoNextBlock
<1>5. CASE UNCHANGED guest_vars
  <2>1. TranslationsAreFresh'
    BY <1>4, <1>5 DEF IInv, LayoutInv, TranslationsAreFresh, tc_vars, guest_vars
  <2>2. /\ code' \in Memory /\ dirty' \subseteq Spaces \X PC /\ remapped' \subseteq dirty'
        /\ stores' \in 0 .. MaxStores
    BY <1>5 DEF IInv, TypeOK, guest_vars
  <2>3. TypeOK'
    BY <1>3, <1>4, <2>2 DEF IInv, TypeOK, tc_vars, blob_vars
  <2> QED BY <1>1, <1>3, <2>1, <2>3, FallThroughKeeps DEF IInv, LayoutInv
<1>6. CASE ExecStore \/ ExecRemap
  <2>1. PICK s \in Spaces, p \in PC, i \in Words :
            /\ code' = [code EXCEPT ![s][p] = i]
            /\ dirty' = dirty \cup {<<s, p>>}
            /\ remapped' \subseteq remapped \cup {<<s, p>>}
    BY <1>6 DEF ExecStore, ExecRemap
  <2>2. code \in [Spaces -> [PC -> Words]] /\ code' \in Memory
    BY <2>1 DEF IInv, TypeOK, Memory
  <2>3. ASSUME NEW q \in PC, <<tag, q>> \notin dirty'
        PROVE  <<tag, q>> \notin dirty /\ code'[tag][q] = code[tag][q]
    BY <2>1, <2>2, <2>3 DEF IInv, TypeOK
  <2>4. TranslationsAreFresh'
    BY <1>4, <2>3 DEF IInv, LayoutInv, TypeOK, TranslationsAreFresh, tc_vars
  <2>5. /\ dirty' \subseteq Spaces \X PC /\ remapped' \subseteq dirty'
        /\ stores' \in 0 .. MaxStores
    <3>1. dirty' \subseteq Spaces \X PC /\ remapped' \subseteq dirty'
      BY <2>1 DEF IInv, TypeOK
    <3>2. stores \in 0 .. MaxStores /\ stores < MaxStores /\ stores' = stores + 1
      BY <1>6 DEF ExecStore, ExecRemap, IInv, TypeOK
    <3> QED BY <3>1, <3>2, ParameterAssumption
  <2>6. TypeOK'
    BY <1>3, <1>4, <2>2, <2>5 DEF IInv, TypeOK, tc_vars, blob_vars
  <2> QED BY <1>1, <1>3, <2>4, <2>6, FallThroughKeeps DEF IInv, LayoutInv
<1> QED BY <1>5, <1>6 DEF ExecPlain, ExecMem

\* A host that is lost or ends changes nothing.
LEMMA ExecEndStep == ASSUME IInv, ExecJunk \/ ExecAbort PROVE IInv'
<1> USE DEF IInv, LayoutInv, ExecJunk, ExecAbort, At, tc_vars, guest_vars, blob_vars
<1>1. TypeOK'
  BY DEF TypeOK, Modes
<1>2. CellsFit' /\ MappingsPointToBlocks' /\ TranslationsAreFresh'
  BY DEF CellsFit, MappingsPointToBlocks, TranslationsAreFresh
<1>3. BlocksAreFollowed'
  BY DEF BlocksAreFollowed
<1>4. BlobIsConsistent' /\ ControlIsMapped'
  BY DEF BlobIsConsistent, ControlIsMapped
<1> QED BY <1>1, <1>2, <1>3, <1>4

----------------------------------------------------------------------------
(* The prefetch loop *)

\* vmresume starts a prefetch with a consistent blob.
LEMMA ResumeStep == ASSUME IInv, Resume PROVE IInv'
<1> USE DEF IInv, LayoutInv, Resume, tc_vars, guest_vars
<1>1. TypeOK'
  <2>1. mode' \in Modes
    BY DEF Modes
  <2>2. next_fetch' \in PC /\ is_flushable' \in BOOLEAN
    BY DEF TypeOK
  <2>3. old_trans_ptr' \in Nat
    BY ParameterAssumption DEF TypeOK
  <2> QED BY <2>1, <2>2, <2>3 DEF TypeOK
<1>2. CellsFit' /\ MappingsPointToBlocks' /\ TranslationsAreFresh'
  BY DEF CellsFit, MappingsPointToBlocks, TranslationsAreFresh
<1>3. BlocksAreFollowed'
  BY DEF BlocksAreFollowed
<1>4. BlobIsConsistent' /\ ControlIsMapped'
  BY DEF BlobIsConsistent, ControlIsMapped
<1> QED BY <1>1, <1>2, <1>3, <1>4

\* The loop ends on an instruction it does not translate.
LEMMA PrefetchStopStep ==
    ASSUME IInv, PrefetchHit \/ PrefetchFull \/ PrefetchUnknown PROVE IInv'
<1>1. /\ mode = "prefetch" /\ mode' \in {"seal", "abort"} /\ tag' = tag /\ pc' = pc
      /\ UNCHANGED tc_vars /\ UNCHANGED guest_vars /\ UNCHANGED blob_vars /\ ip' = ip
  BY DEF PrefetchHit, PrefetchFull, PrefetchUnknown
<1>2. mode' = "seal" => ~is_flushable \/ next_fetch \in DOMAIN mappings
  BY DEF PrefetchHit, PrefetchFull, PrefetchUnknown, PrecheckStops, PrecheckFlushes
<1> USE DEF IInv, LayoutInv, tc_vars, guest_vars, blob_vars
<1>3. TypeOK'
  BY <1>1 DEF TypeOK, Modes
<1>4. CellsFit' /\ MappingsPointToBlocks' /\ TranslationsAreFresh'
  BY <1>1 DEF CellsFit, MappingsPointToBlocks, TranslationsAreFresh
<1>5. BlocksAreFollowed'
  BY <1>1 DEF BlocksAreFollowed
<1>6. BlobIsConsistent' /\ ControlIsMapped'
  BY <1>1, <1>2 DEF BlobIsConsistent, ControlIsMapped
<1> QED BY <1>1, <1>3, <1>4, <1>5, <1>6

\* A fault inside the loop either flushes or owns up to what it leaves.
LEMMA PrefetchFaultStep == ASSUME IInv, PrefetchFault PROVE IInv'
<1>1. pc' \in PC /\ tag' \in Spaces /\ mode' = "vmexit" /\ mode = "prefetch"
  BY GuestAssumption DEF PrefetchFault
<1>2. /\ code' \in Memory /\ dirty' \subseteq Spaces \X PC /\ remapped' \subseteq dirty'
      /\ stores' \in 0 .. MaxStores /\ next_fetch' \in PC
      /\ is_flushable' \in BOOLEAN /\ old_trans_ptr' \in Nat /\ ip' \in Addr
  BY DEF PrefetchFault, IInv, TypeOK, guest_vars, blob_vars
<1>3. CASE tag' # tag
  <2>1. flush_translation_cache
    BY <1>3 DEF PrefetchFault
  <2>2. LayoutInv'
    BY <1>1, <2>1, FlushFacts DEF IInv
  <2>3. /\ cache' \in [Addr -> Items]
        /\ tc_ptr' \in 0 .. CacheSize
        /\ DOMAIN mappings' \subseteq PC
        /\ mappings' \in [DOMAIN mappings' -> Addr]
        /\ nr_translated' \in Nat
        /\ unsealed' \in BOOLEAN
    BY <2>1, FlushType DEF IInv
  <2> QED BY <1>1, <1>2, <2>2, <2>3 DEF IInv, TypeOK, Modes
<1>4. CASE tag' = tag
  <2>1. /\ UNCHANGED <<cache, tc_ptr, mappings, nr_translated>>
        /\ unsealed' = (unsealed \/ ~is_flushable)
        /\ UNCHANGED <<code, dirty, remapped, stores>>
    BY <1>4 DEF PrefetchFault, guest_vars
  <2>2. unsealed' \in BOOLEAN
    BY <2>1
  <2>3. TypeOK'
    BY <1>1, <1>2, <2>1, <2>2 DEF IInv, TypeOK, Modes
  <2>4. CellsFit' /\ MappingsPointToBlocks' /\ TranslationsAreFresh'
    BY <1>4, <2>1
    DEF IInv, LayoutInv, CellsFit, MappingsPointToBlocks, TranslationsAreFresh
  <2>5. ASSUME ~unsealed' PROVE ~unsealed /\ is_flushable
    BY <2>1, <2>5
  <2>6. BlocksAreFollowed'
    BY <2>1, <2>5 DEF IInv, LayoutInv, BlocksAreFollowed
  <2>7. BlobIsConsistent' /\ ControlIsMapped' /\ nr_translated' <= MaxInstr
    BY <1>1, <2>1 DEF IInv, LayoutInv, BlobIsConsistent, ControlIsMapped
  <2> QED BY <2>3, <2>4, <2>6, <2>7 DEF IInv, LayoutInv
<1> QED BY <1>3, <1>4

\* COMMIT_TRANSLATION into a cache whose live part is described by nr, ptr
\* and m: either the present one, or the empty one after a flush.
LEMMA CommitFacts ==
    ASSUME IInv, mode = "prefetch", NEW i \in Instr,
           NEW nr \in Nat, NEW ptr \in 0 .. CacheSize, NEW m,
           i.size <= unoccupied_cache_size(nr, ptr),
           CommitTranslation(i, nr, ptr, m)
    PROVE  /\ nr < MaxInstr
           /\ ptr + i.size + JumperSize <= CacheSize
           /\ ptr \in Addr
           /\ tc_ptr' = ptr + i.size
           /\ nr_translated' = nr + 1
           /\ cache' = Copy(cache, ptr, Block(next_fetch, i), i.size)
           /\ mappings' = [p \in DOMAIN m \cup {next_fetch} |->
                              IF p = next_fetch THEN ptr ELSE m[p]]
           /\ \/ /\ i.kind \in TerminatorKinds
                 /\ mode' = "seal" /\ next_fetch' = next_fetch
              \/ /\ i.kind \in FallThroughKinds
                 /\ mode' = "prefetch" /\ next_fetch' = Next4(next_fetch)
<1>1. /\ i.size \in Nat \ {0}
      /\ i.kind \in FallThroughKinds \cup TerminatorKinds
  BY InstrFacts
<1>2. nr < MaxInstr /\ ptr + i.size + JumperSize <= CacheSize
  BY <1>1, ParameterAssumption DEF unoccupied_cache_size
<1>3. ptr \in Addr
  BY <1>1, <1>2, ParameterAssumption
<1>4. ~(i.size > unoccupied_cache_size(nr, ptr))
  BY <1>1, <1>2, ParameterAssumption DEF unoccupied_cache_size
<1> QED BY <1>1, <1>2, <1>3, <1>4 DEF CommitTranslation

\* One instruction more.
LEMMA CommitStep ==
    ASSUME IInv, mode = "prefetch", NEW i \in Instr, FetchFinds(i),
           NEW nr \in Nat, NEW ptr \in 0 .. CacheSize,
           NEW m, DOMAIN m \subseteq PC, m \in [DOMAIN m -> Addr],
           next_fetch \notin DOMAIN m,
           i.size <= unoccupied_cache_size(nr, ptr),
           CommitTranslation(i, nr, ptr, m),
           \A p \in DOMAIN m :
                /\ cache[m[p]].what = "block"
                /\ cache[m[p]].pc = p
                /\ m[p] + cache[m[p]].instr.size <= ptr,
           \/ unsealed'
           \/ \A p \in DOMAIN m : cache[m[p]].instr.kind \in FallThroughKinds =>
                LET end == m[p] + cache[m[p]].instr.size IN
                \/ end < ptr /\ cache[end].what = "jumper"
                \/ Next4(p) \in DOMAIN m /\ m[Next4(p)] = end
                \/ end = ptr /\ next_fetch = Next4(p),
           \A p \in DOMAIN m :
                <<tag, p>> \notin dirty => cache[m[p]].instr = code[tag][p],
           pc \in DOMAIN m \/ pc = next_fetch,
           unsealed' \in BOOLEAN,
           is_flushable' = FALSE,
           UNCHANGED <<guest_vars, tag, pc, old_trans_ptr, ip>>
    PROVE  IInv'
<1> DEFINE new == Block(next_fetch, i)
<1>0. /\ next_fetch \in PC /\ cache \in [Addr -> Items] /\ tag \in Spaces
      /\ code \in [Spaces -> [PC -> Words]]
  BY DEF IInv, TypeOK, Memory
<1>1. /\ nr < MaxInstr
      /\ ptr + i.size + JumperSize <= CacheSize
      /\ ptr \in Addr
      /\ tc_ptr' = ptr + i.size
      /\ nr_translated' = nr + 1
      /\ cache' = Copy(cache, ptr, new, i.size)
      /\ mappings' = [p \in DOMAIN m \cup {next_fetch} |->
                         IF p = next_fetch THEN ptr ELSE m[p]]
      /\ \/ /\ i.kind \in TerminatorKinds
            /\ mode' = "seal" /\ next_fetch' = next_fetch
         \/ /\ i.kind \in FallThroughKinds
            /\ mode' = "prefetch" /\ next_fetch' = Next4(next_fetch)
  BY CommitFacts
<1>2. /\ i.size \in Nat \ {0}
      /\ new \in Items /\ new.what = "block" /\ new.pc = next_fetch /\ new.instr = i
  BY <1>0, InstrFacts, BlockFacts
<1>3. /\ cache' \in [Addr -> Items]
      /\ cache'[ptr] = new
      /\ \A a \in Addr : a < ptr => cache'[a] = cache[a]
      /\ \A a \in Addr : a # ptr => cache'[a] = cache[a] \/ cache'[a] = Junk
  <2> DEFINE copy == Copy(cache, ptr, new, i.size)
  <2>1. /\ cache \in [Addr -> Items] /\ ptr \in Addr /\ new \in Items
        /\ i.size \in Nat \ {0}
    BY <1>0, <1>1, <1>2
  <2> HIDE DEF new
  <2>2. /\ copy \in [Addr -> Items]
        /\ copy[ptr] = new
        /\ \A a \in Addr : a < ptr => copy[a] = cache[a]
        /\ \A a \in Addr : a # ptr => copy[a] = cache[a] \/ copy[a] = Junk
    BY ONLY <2>1, JumperFacts, ParameterAssumption DEF Copy, copy
  <2>3. cache' = copy
    BY <1>1
  <2> HIDE DEF copy
  <2> QED BY <2>2, <2>3
<1>4. /\ DOMAIN mappings' = DOMAIN m \cup {next_fetch}
      /\ mappings'[next_fetch] = ptr
      /\ \A p \in DOMAIN m : mappings'[p] = m[p]
      /\ mappings' \in [DOMAIN mappings' -> Addr]
      /\ DOMAIN mappings' \subseteq PC
  BY <1>0, <1>1
<1>5. \A p \in DOMAIN m :
          /\ m[p] \in Addr /\ m[p] < ptr
          /\ cache[m[p]].instr \in Instr
          /\ cache[m[p]].instr.size \in Nat \ {0}
          /\ cache'[m[p]] = cache[m[p]]
  <2> SUFFICES ASSUME NEW p \in DOMAIN m
               PROVE  /\ m[p] \in Addr /\ m[p] < ptr
                      /\ cache[m[p]].instr \in Instr
                      /\ cache[m[p]].instr.size \in Nat \ {0}
                      /\ cache'[m[p]] = cache[m[p]]
    OBVIOUS
  <2>1. m[p] \in Addr /\ cache[m[p]] \in Items
    BY <1>0
  <2>2. cache[m[p]].instr \in Instr /\ cache[m[p]].instr.size \in Nat \ {0}
    BY <2>1, ItemFacts, InstrFacts
  <2>3. m[p] < ptr
    BY <2>1, <2>2, ParameterAssumption
  <2> QED BY <2>1, <2>2, <2>3, <1>3
<1>6. TypeOK'
  <2>1. tc_ptr' \in 0 .. CacheSize /\ nr_translated' \in Nat
    BY <1>1, <1>2, ParameterAssumption
  <2>2. next_fetch' \in PC /\ mode' \in Modes
    BY <1>0, <1>1, Next4Type DEF Modes
  <2>3. is_flushable' \in BOOLEAN
    OBVIOUS
  <2>4. /\ code' \in Memory /\ tag' \in Spaces /\ pc' \in PC /\ old_trans_ptr' \in Nat
        /\ ip' \in Addr /\ dirty' \subseteq Spaces \X PC
        /\ remapped' \subseteq dirty' /\ stores' \in 0 .. MaxStores
    BY DEF IInv, TypeOK, guest_vars
  <2> QED BY <1>3, <1>4, <2>1, <2>2, <2>3, <2>4 DEF TypeOK
<1>7. CellsFit'
  <2> SUFFICES ASSUME NEW a \in Addr, cache'[a].what = "block"
               PROVE  a + cache'[a].instr.size + JumperSize <= CacheSize
    BY DEF CellsFit
  <2>1. CASE a = ptr
    BY <1>1, <1>2, <1>3, <2>1
  <2>2. CASE a # ptr
    <3>1. cache'[a] = cache[a]
      BY <1>3, <2>2, JumperFacts
    <3> QED BY <3>1 DEF IInv, LayoutInv, CellsFit
  <2> QED BY <2>1, <2>2
<1>8. MappingsPointToBlocks'
  <2> SUFFICES ASSUME NEW p \in DOMAIN mappings'
               PROVE  /\ cache'[mappings'[p]].what = "block"
                      /\ cache'[mappings'[p]].pc = p
                      /\ mappings'[p] + cache'[mappings'[p]].instr.size <= tc_ptr'
    BY DEF MappingsPointToBlocks
  <2>1. CASE p = next_fetch
    <3>1. mappings'[p] = ptr /\ cache'[mappings'[p]] = new
      BY <1>3, <1>4, <2>1
    <3>2. mappings'[p] + cache'[mappings'[p]].instr.size = tc_ptr'
      BY <1>1, <1>2, <3>1
    <3>3. tc_ptr' \in Nat
      BY <1>6 DEF TypeOK
    <3> QED BY <1>2, <2>1, <3>1, <3>2, <3>3
  <2>2. CASE p \in DOMAIN m
    <3>1. mappings'[p] = m[p] /\ cache'[mappings'[p]] = cache[m[p]]
      BY <1>4, <1>5, <2>2
    <3>2. m[p] + cache[m[p]].instr.size <= tc_ptr'
      BY <1>1, <1>2, <1>5, <2>2, ParameterAssumption
    <3> QED BY <2>2, <3>1, <3>2
  <2> QED BY <1>4, <2>1, <2>2
<1>9. BlocksAreFollowed'
  <2> DEFINE b(p) == cache'[mappings'[p]].instr
             end(p) == mappings'[p] + b(p).size
  <2> SUFFICES ASSUME ~unsealed', NEW p \in DOMAIN mappings',
                      b(p).kind \in FallThroughKinds
               PROVE  \/ end(p) < tc_ptr' /\ cache'[end(p)].what = "jumper"
                      \/ Next4(p) \in DOMAIN mappings' /\ mappings'[Next4(p)] = end(p)
                      \/ /\ mode' \in {"prefetch", "seal", "abort"}
                         /\ ~is_flushable'
                         /\ end(p) = tc_ptr'
                         /\ next_fetch' = Next4(p)
    BY DEF BlocksAreFollowed
  <2>1. CASE p = next_fetch
    <3>1. end(p) = tc_ptr' /\ b(p) = i
      BY <1>1, <1>2, <1>3, <1>4, <2>1
    <3>2. next_fetch' = Next4(p) /\ mode' = "prefetch"
      BY <1>1, <2>1, <3>1 DEF FallThroughKinds, TerminatorKinds
    <3> QED BY <3>1, <3>2
  <2>2. CASE p \in DOMAIN m
    <3>1. mappings'[p] = m[p] /\ b(p) = cache[m[p]].instr
      BY <1>4, <1>5, <2>2
    <3>2. m[p] \in Addr /\ b(p).size \in Nat \ {0} /\ end(p) <= ptr
      BY <1>5, <2>2, <3>1
    <3>3. CASE end(p) < ptr /\ cache[end(p)].what = "jumper"
      <4>1. end(p) \in Addr /\ end(p) < tc_ptr'
        <5> DEFINE a == mappings'[p]
                   s == b(p).size
                   size == i.size
        <5>1. a \in Addr /\ s \in Nat \ {0} /\ a + s < ptr
          BY <3>1, <3>2, <3>3
        <5>2. ptr \in Addr /\ size \in Nat /\ tc_ptr' = ptr + size
          BY <1>1, <1>2
        <5> HIDE DEF a, s, size
        <5>3. a + s \in Addr /\ a + s < tc_ptr'
          BY ONLY <5>1, <5>2, ParameterAssumption
        <5> QED BY <5>3 DEF a, s
      <4>2. cache'[end(p)] = cache[end(p)]
        BY <1>3, <3>3, <4>1
      <4> QED BY <3>3, <4>1, <4>2
    <3>4. CASE Next4(p) \in DOMAIN m /\ m[Next4(p)] = end(p)
      BY <1>4, <3>4
    <3>5. CASE end(p) = ptr /\ next_fetch = Next4(p)
      BY <1>4, <3>5
    <3> QED BY <2>2, <3>1, <3>3, <3>4, <3>5
  <2> QED BY <1>4, <2>1, <2>2
<1>10. TranslationsAreFresh'
  <2> SUFFICES ASSUME NEW p \in DOMAIN mappings', <<tag, p>> \notin dirty
               PROVE  cache'[mappings'[p]].instr = code[tag][p]
    BY DEF TranslationsAreFresh, guest_vars
  <2>1. CASE p = next_fetch
    BY <1>2, <1>3, <1>4, <2>1 DEF FetchFinds, IInv, TypeOK
  <2>2. CASE p \in DOMAIN m
    BY <1>4, <1>5, <2>2
  <2> QED BY <1>4, <2>1, <2>2
<1>11. BlobIsConsistent'
  <2>1. tc_ptr' + JumperSize <= CacheSize /\ pc' \in DOMAIN mappings'
    BY <1>1, <1>2, <1>4, ParameterAssumption
  <2> QED BY <2>1 DEF BlobIsConsistent
<1>12. ControlIsMapped' /\ nr_translated' <= MaxInstr
  BY <1>1, ParameterAssumption DEF ControlIsMapped
<1> QED BY <1>6, <1>7, <1>8, <1>9, <1>10, <1>11, <1>12 DEF IInv, LayoutInv

\* A turn of the prefetch loop that translates keeps the layout, with and
\* without the flush.
LEMMA PrefetchTranslateStep == ASSUME IInv, PrefetchTranslate PROVE IInv'
<1>0. PICK i \in Instr :
        /\ FetchFinds(i)
        /\ ~PrecheckStops(i)
        /\ IF PrecheckFlushes(i)
           THEN /\ CommitTranslation(i, 0, 0, NoMappings)
                /\ unsealed' = FALSE
           ELSE /\ CommitTranslation(i, nr_translated, tc_ptr, mappings)
                /\ UNCHANGED unsealed
  BY DEF PrefetchTranslate
<1>a. /\ mode = "prefetch" /\ next_fetch \notin DOMAIN mappings
      /\ is_flushable' = FALSE
      /\ UNCHANGED <<guest_vars, tag, pc, old_trans_ptr, ip>>
  BY DEF PrefetchTranslate
<1>1. /\ i.size \in Nat \ {0} /\ i.size + JumperSize <= CacheSize
      /\ i.kind \in FallThroughKinds \cup TerminatorKinds
  BY InstrFacts
<1>2. CASE PrecheckFlushes(i)
  <2>1. i.size <= unoccupied_cache_size(0, 0)
    BY <1>1, ParameterAssumption DEF unoccupied_cache_size
  <2>2. DOMAIN NoMappings = {} /\ NoMappings \in [DOMAIN NoMappings -> Addr]
    BY DEF NoMappings
  <2>3. pc = next_fetch
    BY <1>a, <1>2 DEF PrecheckFlushes, IInv, LayoutInv, BlobIsConsistent
  <2>4. CommitTranslation(i, 0, 0, NoMappings) /\ unsealed' = FALSE
    BY <1>0, <1>2
  <2>5. 0 \in Nat /\ 0 \in 0 .. CacheSize
    BY ParameterAssumption
  <2>6. unsealed' \in BOOLEAN
    BY <2>4
  <2> QED BY <1>0, <1>a, <2>1, <2>2, <2>3, <2>4, <2>5, <2>6, CommitStep
<1>3. CASE ~PrecheckFlushes(i)
  <2>1. CommitTranslation(i, nr_translated, tc_ptr, mappings) /\ UNCHANGED unsealed
    BY <1>0, <1>3
  <2>2. nr_translated \in Nat /\ tc_ptr \in 0 .. CacheSize /\ unsealed' \in BOOLEAN
    BY <2>1 DEF IInv, TypeOK
  <2>3. i.size <= unoccupied_cache_size(nr_translated, tc_ptr)
    BY <1>0, <1>1, <1>3, <2>2, ParameterAssumption
    DEF PrecheckStops, NeedsRoom, unoccupied_cache_size
  <2>4. DOMAIN mappings \subseteq PC /\ mappings \in [DOMAIN mappings -> Addr]
    BY DEF IInv, TypeOK
  <2>5. \A p \in DOMAIN mappings :
            /\ cache[mappings[p]].what = "block"
            /\ cache[mappings[p]].pc = p
            /\ mappings[p] + cache[mappings[p]].instr.size <= tc_ptr
    BY DEF IInv, LayoutInv, MappingsPointToBlocks
  <2>6. \/ unsealed'
        \/ \A p \in DOMAIN mappings : cache[mappings[p]].instr.kind \in FallThroughKinds =>
            LET end == mappings[p] + cache[mappings[p]].instr.size IN
            \/ end < tc_ptr /\ cache[end].what = "jumper"
            \/ Next4(p) \in DOMAIN mappings /\ mappings[Next4(p)] = end
            \/ end = tc_ptr /\ next_fetch = Next4(p)
    BY <2>1 DEF IInv, LayoutInv, BlocksAreFollowed
  <2>7. \A p \in DOMAIN mappings :
            <<tag, p>> \notin dirty => cache[mappings[p]].instr = code[tag][p]
    BY DEF IInv, LayoutInv, TranslationsAreFresh
  <2>8. pc \in DOMAIN mappings \/ pc = next_fetch
    BY <1>a DEF IInv, LayoutInv, BlobIsConsistent
  <2> QED
    BY <1>0, <1>a, <2>1, <2>2, <2>3, <2>4, <2>5, <2>6, <2>7, <2>8, CommitStep
<1> QED BY <1>2, <1>3

\* The jumper closes the translation unit, and control enters the block of pc.
LEMMA EnterGuestStep == ASSUME IInv, EnterGuest PROVE IInv'
<1> USE DEF EnterGuest
<1>1. /\ mode = "seal" /\ pc \in DOMAIN mappings
      /\ mode' = "run" /\ ip' = mappings[pc]
  BY DEF IInv, LayoutInv, BlobIsConsistent
<1>2. /\ UNCHANGED <<code, dirty, remapped, stores, tag, pc, mappings, nr_translated>>
      /\ UNCHANGED <<next_fetch, is_flushable, old_trans_ptr>>
      /\ unsealed' = (unsealed \/ (tc_ptr = old_trans_ptr /\ ~is_flushable))
  BY DEF guest_vars, blob_vars
<1>3. /\ cache \in [Addr -> Items] /\ tc_ptr \in 0 .. CacheSize
      /\ mappings \in [DOMAIN mappings -> Addr]
  BY DEF IInv, TypeOK
<1>4. /\ cache' \in [Addr -> Items]
      /\ tc_ptr' \in 0 .. CacheSize
      /\ tc_ptr <= tc_ptr'
      /\ \A a \in Addr : a < tc_ptr => cache'[a] = cache[a]
      /\ \A a \in Addr : cache'[a] = cache[a] \/ cache'[a] \in {Junk, Jumper}
      /\ AppendsJumper => tc_ptr < tc_ptr' /\ cache'[tc_ptr] = Jumper
  <2>1. CASE AppendsJumper
    <3>1. tc_ptr + JumperSize <= CacheSize
      BY <1>1, <2>1 DEF AppendsJumper, IInv, LayoutInv, BlobIsConsistent
    <3>2. /\ cache' = Copy(cache, tc_ptr, Jumper, JumperSize)
          /\ tc_ptr' = tc_ptr + JumperSize
      BY <2>1
    <3>3. tc_ptr \in Addr /\ tc_ptr' \in 0 .. CacheSize /\ tc_ptr < tc_ptr'
      BY <1>3, <3>1, <3>2, ParameterAssumption
    <3>4. /\ cache' \in [Addr -> Items]
          /\ \A a \in Addr : a < tc_ptr => cache'[a] = cache[a]
          /\ \A a \in Addr : cache'[a] = cache[a] \/ cache'[a] \in {Junk, Jumper}
          /\ cache'[tc_ptr] = Jumper
      BY ONLY <1>3, <3>2, <3>3, JumperFacts, ParameterAssumption DEF Copy
    <3> QED BY <1>3, <3>3, <3>4
  <2>2. CASE ~AppendsJumper
    BY <1>3, <2>2
  <2> QED BY <2>1, <2>2
<1>5. \A p \in DOMAIN mappings :
          /\ mappings[p] \in Addr
          /\ mappings[p] < tc_ptr
          /\ cache[mappings[p]].instr.size \in Nat \ {0}
          /\ mappings[p] + cache[mappings[p]].instr.size <= tc_ptr
          /\ cache'[mappings[p]] = cache[mappings[p]]
  <2> SUFFICES ASSUME NEW p \in DOMAIN mappings
               PROVE  /\ mappings[p] \in Addr
                      /\ mappings[p] < tc_ptr
                      /\ cache[mappings[p]].instr.size \in Nat \ {0}
                      /\ mappings[p] + cache[mappings[p]].instr.size <= tc_ptr
                      /\ cache'[mappings[p]] = cache[mappings[p]]
    OBVIOUS
  <2>1. mappings[p] \in Addr /\ cache[mappings[p]] \in Items
    BY <1>3
  <2>2. /\ cache[mappings[p]].what = "block"
        /\ mappings[p] + cache[mappings[p]].instr.size <= tc_ptr
    BY DEF IInv, LayoutInv, MappingsPointToBlocks
  <2>3. cache[mappings[p]].instr.size \in Nat \ {0}
    BY <2>1, <2>2, ItemFacts, InstrFacts
  <2>4. mappings[p] < tc_ptr
    <3> DEFINE a == mappings[p]
               s == cache[mappings[p]].instr.size
    <3>1. a \in Addr /\ s \in Nat \ {0} /\ tc_ptr \in 0 .. CacheSize /\ a + s <= tc_ptr
      BY <1>3, <2>1, <2>2, <2>3
    <3> HIDE DEF a, s
    <3>2. a < tc_ptr
      BY ONLY <3>1, BlockEnd
    <3> QED BY <3>2 DEF a
  <2> QED BY <1>4, <2>1, <2>2, <2>3, <2>4
<1>6. TypeOK'
  <2>1. unsealed' \in BOOLEAN
    BY <1>2
  <2>2. ip' \in Addr /\ mode' \in Modes
    BY <1>1, <1>5 DEF Modes
  <2> QED BY <1>2, <1>4, <2>1, <2>2 DEF IInv, TypeOK
<1>7. CellsFit'
  BY <1>4, JumperFacts DEF IInv, LayoutInv, CellsFit
<1>8. MappingsPointToBlocks'
  <2> SUFFICES ASSUME NEW p \in DOMAIN mappings
               PROVE  /\ cache'[mappings[p]].what = "block"
                      /\ cache'[mappings[p]].pc = p
                      /\ mappings[p] + cache'[mappings[p]].instr.size <= tc_ptr'
    BY <1>2 DEF MappingsPointToBlocks
  <2>1. cache'[mappings[p]] = cache[mappings[p]]
    BY <1>5
  <2>2. mappings[p] + cache[mappings[p]].instr.size <= tc_ptr'
    BY <1>3, <1>4, <1>5
  <2> QED BY <2>1, <2>2 DEF IInv, LayoutInv, MappingsPointToBlocks
<1>9. BlocksAreFollowed'
  <2> DEFINE end(p) == mappings[p] + cache[mappings[p]].instr.size
  <2> SUFFICES ASSUME ~unsealed', NEW p \in DOMAIN mappings,
                      cache[mappings[p]].instr.kind \in FallThroughKinds
               PROVE  \/ end(p) < tc_ptr' /\ cache'[end(p)].what = "jumper"
                      \/ Next4(p) \in DOMAIN mappings /\ mappings[Next4(p)] = end(p)
    BY <1>2, <1>5 DEF BlocksAreFollowed
  <2>1. ~unsealed /\ (tc_ptr = old_trans_ptr => is_flushable)
    BY <1>2
  <2>2. \/ end(p) < tc_ptr /\ cache[end(p)].what = "jumper"
        \/ Next4(p) \in DOMAIN mappings /\ mappings[Next4(p)] = end(p)
        \/ ~is_flushable /\ end(p) = tc_ptr
    BY <2>1 DEF IInv, LayoutInv, BlocksAreFollowed
  <2>3. CASE end(p) < tc_ptr /\ cache[end(p)].what = "jumper"
    <3>1. end(p) \in Addr
      <4> DEFINE a == mappings[p]
                 s == cache[mappings[p]].instr.size
      <4>1. /\ a \in Addr /\ s \in Nat \ {0} /\ tc_ptr \in 0 .. CacheSize
            /\ a + s <= tc_ptr /\ a + s < tc_ptr
        BY <1>3, <1>5, <2>3
      <4> HIDE DEF a, s
      <4>2. a + s \in Addr
        BY ONLY <4>1, BlockEnd
      <4> QED BY <4>2 DEF a, s
    <3> QED BY <1>3, <1>4, <2>3, <3>1
  <2>4. CASE ~is_flushable /\ end(p) = tc_ptr
    <3>1. AppendsJumper
      BY <2>1, <2>4 DEF AppendsJumper
    <3> QED BY <1>4, <2>4, <3>1, JumperFacts
  <2> QED BY <2>2, <2>3, <2>4
<1>10. TranslationsAreFresh'
  BY <1>2, <1>5 DEF IInv, LayoutInv, TranslationsAreFresh
<1>11. BlobIsConsistent' /\ ControlIsMapped' /\ nr_translated' <= MaxInstr
  BY <1>1, <1>2 DEF IInv, LayoutInv, BlobIsConsistent, ControlIsMapped
<1> QED BY <1>6, <1>7, <1>8, <1>9, <1>10, <1>11 DEF IInv, LayoutInv

\* A step that changes nothing keeps the invariant.
LEMMA StutterStep == ASSUME IInv, UNCHANGED vars PROVE IInv'
<1> USE DEF vars, guest_vars, tc_vars, blob_vars
<1>1. TypeOK'
  BY DEF IInv, TypeOK
<1>2. LayoutInv'
  BY DEF IInv, LayoutInv, CellsFit, MappingsPointToBlocks, BlocksAreFollowed,
         TranslationsAreFresh, BlobIsConsistent, ControlIsMapped
<1> QED BY <1>1, <1>2 DEF IInv

----------------------------------------------------------------------------
(* The theorems *)

\* The invariant is inductive.
LEMMA NextIInv == IInv /\ [Next]_vars => IInv'
<1> SUFFICES ASSUME IInv, [Next]_vars PROVE IInv'
  OBVIOUS
<1>1. CASE Prefetch
  BY <1>1, PrefetchStopStep, PrefetchFaultStep, PrefetchTranslateStep DEF Prefetch
<1>2. CASE EnterGuest
  BY <1>2, EnterGuestStep
<1>3. CASE ExecException \/ DeliverInterrupt
  <2>1. TakeTrap /\ mode \in {"run", "vmexit"}
    BY <1>3 DEF ExecException, DeliverInterrupt, At
  <2> QED BY <2>1, TakeTrapStep
<1>4. CASE Exec /\ ~ExecException
  BY <1>4, ExecFallThroughStep, ExecLeaveStep, ExecFlushStep, ExecRetStep, ExecEndStep
  DEF Exec
<1>5. CASE Resume
  BY <1>5, ResumeStep
<1>6. CASE Stopped \/ UNCHANGED vars
  BY <1>6, StutterStep DEF Stopped
<1> QED BY <1>1, <1>2, <1>3, <1>4, <1>5, <1>6 DEF Next

\* Every reachable state of the vmm loop and of its cache is well typed: the
\* pointers of vmresume and of the translator stay inside the cache.
THEOREM CacheTypeTheorem == Spec => []TypeOK
<1>1. Spec => []IInv
  BY InitIInv, NextIInv, PTL DEF Spec
<1> QED BY <1>1, PTL DEF IInv

\* The cache of every reachable state is well laid out, whatever the guest
\* program, the block sizes and the size of the cache.
THEOREM LayoutTheorem == Spec => []LayoutInv
<1>1. Spec => []IInv
  BY InitIInv, NextIInv, PTL DEF Spec
<1> QED BY <1>1, PTL DEF IInv

\* Control follows the guest program counter.
THEOREM ControlTheorem == Spec => []ControlFollowsPc
<1>1. Spec => []IInv
  BY InitIInv, NextIInv, PTL DEF Spec
<1>2. IInv => ControlFollowsPc
  BY DEF IInv, LayoutInv, ControlIsMapped, MappingsPointToBlocks, ControlFollowsPc
<1> QED BY <1>1, <1>2, PTL

\* What runs is what is in memory, or was written without a fence.
THEOREM FreshnessTheorem == Spec => []NoStaleExecution
<1>1. Spec => []IInv
  BY InitIInv, NextIInv, PTL DEF Spec
<1>2. IInv => NoStaleExecution
  BY DEF IInv, LayoutInv, ControlIsMapped, TranslationsAreFresh, NoStaleExecution
<1> QED BY <1>1, <1>2, PTL

\* add_translation_item refuses no block, and the item of the pc vmresume
\* enters is always in the array.  That a search finds it is the subject of
\* PcMappingProofs.
THEOREM StoredTheorem == Spec => []AssertedItemsAreStored
<1>1. Spec => []IInv
  BY InitIInv, NextIInv, PTL DEF Spec
<1>2. Init => AssertedItemsAreStored
  BY DEF Init, AssertedItemsAreStored
<1>3. IInv /\ AssertedItemsAreStored /\ [Next]_vars => AssertedItemsAreStored'
  <2> SUFFICES ASSUME IInv, mode # "assert", [Next]_vars PROVE mode' # "assert"
    BY DEF AssertedItemsAreStored
  <2>1. CASE PrefetchTranslate
    <3>1. PICK i \in Instr :
            /\ ~PrecheckStops(i)
            /\ IF PrecheckFlushes(i)
               THEN CommitTranslation(i, 0, 0, NoMappings)
               ELSE CommitTranslation(i, nr_translated, tc_ptr, mappings)
      BY <2>1 DEF PrefetchTranslate
    <3>2. /\ mode = "prefetch"
          /\ i.size \in Nat \ {0} /\ i.size + JumperSize <= CacheSize
      BY <2>1, InstrFacts DEF PrefetchTranslate
    <3>3. CASE PrecheckFlushes(i)
      <4>1. CommitTranslation(i, 0, 0, NoMappings)
        BY <3>1, <3>3
      <4>2. i.size <= unoccupied_cache_size(0, 0) /\ 0 \in 0 .. CacheSize
        BY <3>2, ParameterAssumption DEF unoccupied_cache_size
      <4> QED BY <3>2, <4>1, <4>2, CommitFacts
    <3>4. CASE ~PrecheckFlushes(i)
      <4>1. CommitTranslation(i, nr_translated, tc_ptr, mappings)
        BY <3>1, <3>4
      <4>2. nr_translated \in Nat /\ tc_ptr \in 0 .. CacheSize
        BY DEF IInv, TypeOK
      <4>3. i.size <= unoccupied_cache_size(nr_translated, tc_ptr)
        BY <3>1, <3>2, <3>4, <4>2, ParameterAssumption
        DEF PrecheckStops, NeedsRoom, unoccupied_cache_size
      <4> QED BY <3>2, <4>1, <4>2, <4>3, CommitFacts
    <3> QED BY <3>3, <3>4
  <2>2. CASE EnterGuest
    BY <2>2 DEF EnterGuest, IInv, LayoutInv, BlobIsConsistent
  <2>3. CASE PrefetchHit \/ PrefetchFault \/ PrefetchUnknown \/ PrefetchFull
    BY <2>3 DEF PrefetchHit, PrefetchFault, PrefetchUnknown, PrefetchFull
  <2>4. CASE Exec
    BY <2>4 DEF Exec, ExecPlain, ExecStore, ExecRemap, ExecMem, ExecException,
                ExecJump, ExecWfi, ExecFenceI, ExecSfenceVma, ExecCsr, ExecCsrSatp,
                ExecAbort, ExecRet, ExecJumper, ExecJunk,
                FallIntoNextBlock, TakeTrap, LeaveAt
  <2>5. CASE DeliverInterrupt \/ Resume \/ Stopped \/ UNCHANGED vars
    BY <2>5 DEF DeliverInterrupt, Resume, Stopped, TakeTrap, vars
  <2> QED BY <2>1, <2>2, <2>3, <2>4, <2>5 DEF Next, Prefetch
<1> QED BY <1>1, <1>2, <1>3, PTL DEF Spec

----------------------------------------------------------------------------
(* The translator implements the machine without a cache *)

\* What control is at may execute on the machine without a cache.
LEMMA MayExecuteFacts ==
    ASSUME IInv, ~unsealed, NEW kinds, NEW k \in kinds, At(k)
    PROVE  Guest!MayExecute(kinds)
<1> DEFINE i == cache[ip].instr
<1>1. cache[ip] \in Items /\ cache[ip].what = "block" /\ i.kind = k
  BY DEF At, IInv, TypeOK
<1>2. i \in Instr
  BY <1>1, ItemFacts
<1>3. pc \in DOMAIN mappings /\ ip = mappings[pc]
  BY <1>1 DEF At, IInv, LayoutInv, ControlIsMapped
<1>4. code[tag][pc] = i \/ <<tag, pc>> \in dirty
  BY <1>3 DEF IInv, LayoutInv, TranslationsAreFresh
<1> QED BY <1>1, <1>2, <1>4 DEF Guest!MayExecute

\* Translated code takes the steps of the machine without a cache.
LEMMA ExecIsGuestStep ==
    ASSUME IInv, ~unsealed, Exec PROVE Guest!Next \/ UNCHANGED Guest!vars
<1> USE DEF Guest!Next, Guest!NextPc, Guest!PC, Next4
<1>1. CASE ExecPlain \/ ExecMem
  <2>1. Guest!MayExecute({"plain", "mem", "wfi", "csr", "jump"})
    BY <1>1, MayExecuteFacts DEF ExecPlain, ExecMem
  <2> QED BY <1>1, <2>1 DEF ExecPlain, ExecMem, FallIntoNextBlock, Guest!Proceed, guest_vars
<1>2. CASE ExecStore
  <2>1. Guest!MayExecute({"mem"})
    BY <1>2, MayExecuteFacts DEF ExecStore
  <2> QED BY <1>2, <2>1 DEF ExecStore, FallIntoNextBlock, Guest!Store
<1>2a. CASE ExecRemap
  <2>1. Guest!MayExecute({"mem"})
    BY <1>2a, MayExecuteFacts DEF ExecRemap
  <2> QED BY <1>2a, <2>1 DEF ExecRemap, FallIntoNextBlock, Guest!Remap
<1>3. CASE ExecException
  BY <1>3 DEF ExecException, TakeTrap, Guest!Trap, guest_vars
<1>4. CASE ExecJump
  <2>1. Guest!MayExecute({"jump"})
    BY <1>4, MayExecuteFacts DEF ExecJump
  <2> QED BY <1>4, <2>1 DEF ExecJump, LeaveAt, Guest!Jump, guest_vars
<1>5. CASE ExecWfi \/ ExecCsr
  <2>1. Guest!MayExecute({"plain", "mem", "wfi", "csr", "jump"})
    BY <1>5, MayExecuteFacts DEF ExecWfi, ExecCsr
  <2> QED BY <1>5, <2>1 DEF ExecWfi, ExecCsr, LeaveAt, Guest!Proceed, guest_vars
<1>6. CASE ExecFenceI
  <2>1. Guest!MayExecute({"fence_i"})
    BY <1>6, MayExecuteFacts DEF ExecFenceI
  <2> QED BY <1>6, <2>1 DEF ExecFenceI, LeaveAt, Guest!FenceI
<1>6a. CASE ExecSfenceVma
  <2>1. Guest!MayExecute({"sfence_vma"})
    BY <1>6a, MayExecuteFacts DEF ExecSfenceVma
  <2> QED BY <1>6a, <2>1 DEF ExecSfenceVma, InvalidateAndFlush, LeaveAt, Guest!SfenceVma
<1>7. CASE ExecCsrSatp
  <2>1. Guest!MayExecute({"csr"})
    BY <1>7, MayExecuteFacts DEF ExecCsrSatp
  <2> QED BY <1>7, <2>1 DEF ExecCsrSatp, InvalidateAndFlush, LeaveAt, Guest!WriteSatp
<1>8. CASE ExecRet
  <2>1. Guest!MayExecute({"ret"})
    BY <1>8, MayExecuteFacts DEF ExecRet
  <2> QED BY <1>8, <2>1 DEF ExecRet, LeaveAt, Guest!Return, guest_vars
<1>9. CASE ExecJumper \/ ExecJunk \/ ExecAbort
  BY <1>9 DEF ExecJumper, ExecJunk, ExecAbort, LeaveAt, Guest!vars, guest_vars
<1> QED BY <1>1, <1>2, <1>2a, <1>3, <1>4, <1>5, <1>6, <1>6a, <1>7, <1>8, <1>9 DEF Exec

\* Every step is one of the machine without a cache, or invisible to it.
LEMMA StepIsGuestStep ==
    IInv /\ [Next]_vars => [~unsealed => Guest!Next]_(Guest!vars)
<1> SUFFICES ASSUME IInv, [Next]_vars, ~unsealed
             PROVE  Guest!Next \/ UNCHANGED Guest!vars
  OBVIOUS
<1>1. CASE Exec
  BY <1>1, ExecIsGuestStep
<1>2. CASE PrefetchFault \/ DeliverInterrupt
  BY <1>2 DEF PrefetchFault, DeliverInterrupt, TakeTrap, Guest!Next, Guest!Trap, guest_vars
<1>3. CASE PrefetchHit \/ PrefetchUnknown \/ PrefetchFull
  BY <1>3 DEF PrefetchHit, PrefetchUnknown, PrefetchFull, Guest!vars, guest_vars
<1>4. CASE PrefetchTranslate \/ EnterGuest \/ Resume
  BY <1>4 DEF PrefetchTranslate, EnterGuest, Resume, Guest!vars, guest_vars
<1>5. CASE Stopped \/ UNCHANGED vars
  BY <1>5 DEF Stopped, vars, Guest!vars, guest_vars
<1> QED BY <1>1, <1>2, <1>3, <1>4, <1>5 DEF Next, Prefetch

\* The translator refines the machine without a cache, until a translation
\* unit is left without its jumper.
THEOREM RefinementTheorem == Spec => ImplementsGuestMachine
<1>1. Spec => []IInv
  BY InitIInv, NextIInv, PTL DEF Spec
<1>2. Init => Guest!Init
  BY DEF Init, Guest!Init
<1> QED BY <1>1, <1>2, StepIsGuestStep, PTL DEF Spec, ImplementsGuestMachine

=============================================================================
