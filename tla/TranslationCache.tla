-------------------------- MODULE TranslationCache --------------------------
(***************************************************************************)
(* The dynamic binary translator of one hart: the loop                     *)
(*                                                                         *)
(*   vmexit -> vmresume -> prefetch_instructions -> translated code        *)
(*     ^                                                 |                 *)
(*     +------------- vmm_entry_point -------------------+                 *)
(*                                                                         *)
(* and the cache of translated blocks it keeps (hart.c, translation.c,     *)
(* translation.h, hart_util.h).                                            *)
(*                                                                         *)
(* Translated blocks are copied one after another into a byte array and    *)
(* run by falling from one into the next, so what the guest executes is    *)
(* decided by the LAYOUT of that array and not by the guest program        *)
(* counter.  Nothing at run time compares the two: keeping them in step is *)
(* what this module is about.                                              *)
(*                                                                         *)
(* Abstractions.  Addresses count instructions (4 bytes each) and offsets  *)
(* count cells of the cache.  An instruction is its kind and the length of *)
(* its translation.  The sorted array pc_mappings, its insertion sort and  *)
(* its binary search are modelled in module PcMapping, which also says     *)
(* when the search fails to find what was stored; here the array is the    *)
(* partial function it stores.  Which address space a trap or a return     *)
(* selects is the business of the privilege state: here it may be any.     *)
(* The two TLBs are module Mmu's; here the instruction TLB is the licence  *)
(* to fetch something old where a page table was written since it was      *)
(* last invalidated.                                                       *)
(***************************************************************************)
EXTENDS Integers

CONSTANTS
    PcCount,      \* guest addresses are 0..PcCount-1 (2^30 instructions)
    Spaces,       \* values of address_space_tag, 0 when paging is off
    Instr,        \* instructions, records [kind, size]
    Programs,     \* what the guest may find in memory when it boots
    Entry,        \* the reset program counter
    TrapVectors,  \* the values of mtvec and stvec
    CacheSize,    \* TRANSLATION_CACHE_SIZE
    JumperSize,   \* vmm_jumper_end - vmm_jumper_begin
    MaxInstr,     \* MAX_INSTRUCTIONS_TOTRANSLATE
    MaxStores     \* bound of the model: stores the guest makes to code

PC == 0 .. PcCount - 1

Addr == 0 .. CacheSize - 1

\* Instructions whose translation runs into the block that follows it, and
\* those that leave the cache through TRAP_TO_VMM.
FallThroughKinds == {"plain", "mem"}
TerminatorKinds == {"jump", "wfi", "fence_i", "sfence_vma", "csr", "ret", "ecall"}

\* What fetching finds on a page that is not mapped, and a word for which
\* there is no translator.
Unmapped == [kind |-> "unmapped", size |-> 0]
Unknown == [kind |-> "unknown", size |-> 0]

Words == Instr \cup {Unmapped, Unknown}

Memory == [Spaces -> [PC -> Words]]

ASSUME ParameterAssumption ==
    /\ PcCount \in Nat \ {0}
    /\ CacheSize \in Nat \ {0}
    /\ JumperSize \in Nat \ {0}
    /\ MaxInstr \in Nat \ {0}
    /\ MaxStores \in Nat

\* No single translated block is larger than an empty cache, which has to
\* keep room for the jumper.
ASSUME InstrAssumption ==
    \A i \in Instr :
        /\ i \in [kind : FallThroughKinds \cup TerminatorKinds, size : Nat \ {0}]
        /\ i.size + JumperSize <= CacheSize

ASSUME GuestAssumption ==
    /\ 0 \in Spaces
    /\ Entry \in PC
    /\ TrapVectors \subseteq PC
    /\ Programs \subseteq Memory

VARIABLES
    code,          \* guest memory as instruction fetch sees it, per space
    tag,           \* address_space_tag(hartptr)
    pc,            \* hartptr->pc
    mode,          \* where the host's control is, see Modes
    cache,         \* the bytes of hartptr->translation_cache
    tc_ptr,        \* hartptr->translation_cache_ptr
    mappings,      \* hartptr->pc_mappings: guest pc -> offset in the cache
    nr_translated, \* hartptr->nr_translated_instructions
    next_fetch,    \* blob.next_instruction_to_fetch
    is_flushable,  \* blob.is_flushable
    old_trans_ptr, \* the local of that name in prefetch_instructions
    ip,            \* the host's instruction pointer, as an offset in the cache
    dirty,         \* history: locations changed since the guest's last fence
    remapped,      \* history: those the instruction TLB may still have old
    stores,        \* history: number of stores made, bounded by MaxStores
    unsealed       \* history: blocks without a jumper were left behind

guest_vars == <<code, dirty, remapped, stores>>
tc_vars == <<cache, tc_ptr, mappings, nr_translated, unsealed>>
blob_vars == <<next_fetch, is_flushable, old_trans_ptr>>
vars == <<guest_vars, tag, pc, mode, tc_vars, blob_vars, ip>>

(***************************************************************************)
(*   vmexit    the vmm holds control, on a guest instruction boundary      *)
(*   prefetch  in the loop of prefetch_instructions                        *)
(*   seal      past that loop                                              *)
(*   run       in translated code                                          *)
(*   assert    an ASSERT of the translator failed                          *)
(*   abort     the emulator ended itself: no translator, no memory region  *)
(*             or no CSR for what the guest asks                           *)
(*   lost      in the cache, but not at the start of any block             *)
(***************************************************************************)
Modes == {"vmexit", "prefetch", "seal", "run", "assert", "abort", "lost"}

----------------------------------------------------------------------------
(* The cache *)

Junk == [what |-> "junk", pc |-> 0, instr |-> Unmapped]
Jumper == [what |-> "jumper", pc |-> 0, instr |-> Unmapped]
Block(p, i) == [what |-> "block", pc |-> p, instr |-> i]

Items == {Junk, Jumper} \cup [what : {"block"}, pc : PC, instr : Instr]

\* memcpy of a block of len cells to offset o.  Only its first cell is a
\* place where control may enter it.
Copy(c, o, item, len) ==
    [a \in Addr |-> IF a = o THEN item
                    ELSE IF a \in o + 1 .. o + len - 1 THEN Junk
                    ELSE c[a]]

UnoccupiedWithoutJumper(nr, ptr) ==
    IF nr < MaxInstr THEN CacheSize - ptr ELSE 0

unoccupied_cache_size(nr, ptr) ==
    IF nr < MaxInstr THEN CacheSize - ptr - JumperSize ELSE 0

Next4NoWrap(p) == p + 1

Next4(p) == (p + 1) % PcCount

NoMappings == [p \in {} |-> 0]

\* flush_translation_cache: the bytes stay where they are.
flush_translation_cache ==
    /\ nr_translated' = 0
    /\ tc_ptr' = 0
    /\ mappings' = NoMappings
    /\ unsealed' = FALSE
    /\ cache' = cache

NeverFlush(previous_tag) == UNCHANGED tc_vars

flush_translation_cache_on_address_space_change(previous_tag) ==
    IF tag' # previous_tag THEN flush_translation_cache ELSE UNCHANGED tc_vars

----------------------------------------------------------------------------
(* Translation *)

\* The trap machinery: the pc moves to a vector, the cache is flushed if the
\* address space changes, and do_trap enters the vmm.
TakeTrap ==
    /\ pc' \in TrapVectors
    /\ tag' \in Spaces
    /\ flush_translation_cache_on_address_space_change(tag)
    /\ mode' = "vmexit"
    /\ UNCHANGED <<guest_vars, blob_vars, ip>>

\* mmu_instruction_read32: the word w is in memory, or is what an entry of the
\* instruction TLB older than the page table still leads to.
FetchFinds(w) ==
    \/ w = code[tag][next_fetch]
    \/ <<tag, next_fetch>> \in remapped /\ w \in Instr \cup {Unknown}

\* The loop stops at an instruction that is already translated.
PrefetchHit ==
    /\ mode = "prefetch"
    /\ next_fetch \in DOMAIN mappings
    /\ mode' = "seal"
    /\ UNCHANGED <<guest_vars, tag, pc, tc_vars, blob_vars, ip>>

\* mmu_instruction_read32 raises an instruction page fault from inside the
\* loop.  The trap does not come back: what was translated so far stays in
\* the cache and no jumper closes it.
PrefetchFault ==
    /\ mode = "prefetch"
    /\ next_fetch \notin DOMAIN mappings
    /\ tag # 0
    /\ FetchFinds(Unmapped)
    /\ pc' \in TrapVectors
    /\ tag' \in Spaces
    /\ IF tag' # tag
       THEN flush_translation_cache
       ELSE /\ unsealed' = (unsealed \/ ~is_flushable)
            /\ UNCHANGED <<cache, tc_ptr, mappings, nr_translated>>
    /\ mode' = "vmexit"
    /\ UNCHANGED <<guest_vars, blob_vars, ip>>

\* prefetch_one_instruction finds no translator and gives the machine up, and
\* so does direct_read32 where paging is off and no region has the address.
PrefetchUnknown ==
    /\ mode = "prefetch"
    /\ next_fetch \notin DOMAIN mappings
    /\ FetchFinds(Unknown) \/ (tag = 0 /\ FetchFinds(Unmapped))
    /\ mode' = "abort"
    /\ UNCHANGED <<guest_vars, tag, pc, tc_vars, blob_vars, ip>>

NeedsRoom(i) == i.size > unoccupied_cache_size(nr_translated, tc_ptr)

FlushWheneverFull(i) == NeedsRoom(i)

\* PRECHECK_TRANSLATION_CACHE: one chance to flush, at the first instruction.
PrecheckFlushes(i) == NeedsRoom(i) /\ is_flushable

StopsNever(i) == FALSE

PrecheckStops(i) == NeedsRoom(i) /\ ~PrecheckFlushes(i)

PrefetchFull ==
    /\ mode = "prefetch"
    /\ next_fetch \notin DOMAIN mappings
    /\ \E i \in Instr : FetchFinds(i) /\ PrecheckStops(i)
    /\ mode' = "seal"
    /\ UNCHANGED <<guest_vars, tag, pc, tc_vars, blob_vars, ip>>

\* COMMIT_TRANSLATION of i for guest address next_fetch, into a cache holding
\* nr items in ptr cells and mapped by m: add_translation_item, whose refusal
\* is an ASSERT.  That the search then finds the new item is CommitAssertHolds
\* of PcMapping.
CommitTranslation(i, nr, ptr, m) ==
    IF i.size > unoccupied_cache_size(nr, ptr)
    THEN /\ mode' = "assert"
         /\ UNCHANGED <<cache, tc_ptr, mappings, nr_translated, next_fetch>>
    ELSE /\ cache' = Copy(cache, ptr, Block(next_fetch, i), i.size)
         /\ tc_ptr' = ptr + i.size
         /\ mappings' = [p \in DOMAIN m \cup {next_fetch} |->
                            IF p = next_fetch THEN ptr ELSE m[p]]
         /\ nr_translated' = nr + 1
         /\ IF i.kind \in TerminatorKinds
            THEN mode' = "seal" /\ next_fetch' = next_fetch
            ELSE mode' = "prefetch" /\ next_fetch' = Next4(next_fetch)

\* One turn of the loop that translates an instruction.
PrefetchTranslate ==
    /\ mode = "prefetch"
    /\ next_fetch \notin DOMAIN mappings
    /\ \E i \in Instr :
        /\ FetchFinds(i)
        /\ ~PrecheckStops(i)
        /\ IF PrecheckFlushes(i)
           THEN /\ CommitTranslation(i, 0, 0, NoMappings)
                /\ unsealed' = FALSE
           ELSE /\ CommitTranslation(i, nr_translated, tc_ptr, mappings)
                /\ UNCHANGED unsealed
    /\ is_flushable' = FALSE
    /\ UNCHANGED <<guest_vars, tag, pc, old_trans_ptr, ip>>

NeverAppendJumper == FALSE

AppendsJumper == tc_ptr # old_trans_ptr

\* The end of prefetch_instructions, then the jump of vmresume into the cache.
EnterGuest ==
    /\ mode = "seal"
    /\ IF AppendsJumper
       THEN /\ cache' = Copy(cache, tc_ptr, Jumper, JumperSize)
            /\ tc_ptr' = tc_ptr + JumperSize
       ELSE UNCHANGED <<cache, tc_ptr>>
    /\ unsealed' = (unsealed \/ (tc_ptr = old_trans_ptr /\ ~is_flushable))
    /\ IF pc \in DOMAIN mappings
       THEN mode' = "run" /\ ip' = mappings[pc]
       ELSE mode' = "assert" /\ ip' = ip
    /\ UNCHANGED <<guest_vars, tag, pc, mappings, nr_translated, blob_vars>>

----------------------------------------------------------------------------
(* Running translated code *)

\* Control is at the start of a block whose instruction is of kind k.
At(k) ==
    /\ mode = "run"
    /\ cache[ip].what = "block"
    /\ cache[ip].instr.kind = k

FallIntoNextBlock ==
    /\ pc' = Next4(pc)
    /\ ip' = ip + cache[ip].instr.size
    /\ UNCHANGED <<tag, mode, tc_vars, blob_vars>>

\* An instruction that changes nothing seen here.
ExecPlain ==
    /\ At("plain")
    /\ FallIntoNextBlock
    /\ UNCHANGED guest_vars

\* A store or atomic memory operation that writes a word of guest code where
\* some space has it mapped.
ExecStore ==
    /\ At("mem")
    /\ stores < MaxStores
    /\ \E s \in Spaces, p \in PC, i \in Words \ {Unmapped} :
        /\ code[s][p] # Unmapped
        /\ code' = [code EXCEPT ![s][p] = i]
        /\ dirty' = dirty \cup {<<s, p>>}
    /\ stores' = stores + 1
    /\ UNCHANGED remapped
    /\ FallIntoNextBlock

\* One that writes the page table entry through which a space with paging
\* fetches that word.  The TLBs are not told.
ExecRemap ==
    /\ At("mem")
    /\ stores < MaxStores
    /\ \E s \in Spaces \ {0}, p \in PC, i \in Words :
        /\ code' = [code EXCEPT ![s][p] = i]
        /\ dirty' = dirty \cup {<<s, p>>}
        /\ remapped' = remapped \cup {<<s, p>>}
    /\ stores' = stores + 1
    /\ FallIntoNextBlock

\* A load, or a store elsewhere.
ExecMem ==
    /\ At("mem")
    /\ FallIntoNextBlock
    /\ UNCHANGED guest_vars

\* An access that faults, mret or sret at the wrong privilege level, or ecall:
\* raise_exception from the callback of the block.
ExecException ==
    /\ At("mem") \/ At("ecall") \/ At("ret")
    /\ TakeTrap

LeaveAt(p) ==
    /\ pc' = p
    /\ mode' = "vmexit"
    /\ UNCHANGED <<blob_vars, ip>>

ChainJump ==
    /\ At("jump")
    /\ \E p \in PC :
        IF p \in DOMAIN mappings
        THEN pc' = p /\ ip' = mappings[p] /\ UNCHANGED <<mode, blob_vars>>
        ELSE LeaveAt(p)
    /\ UNCHANGED <<guest_vars, tag, tc_vars>>

\* jal, jalr and the conditional branches.
ExecJump ==
    /\ At("jump")
    /\ \E p \in PC : LeaveAt(p)
    /\ UNCHANGED <<guest_vars, tag, tc_vars>>

\* wfi idles in its callback and then proceeds.
ExecWfi ==
    /\ At("wfi")
    /\ LeaveAt(Next4(pc))
    /\ UNCHANGED <<guest_vars, tag, tc_vars>>

FenceWithoutFlush ==
    /\ At("fence_i")
    /\ dirty' = remapped
    /\ LeaveAt(Next4(pc))
    /\ UNCHANGED <<code, remapped, stores, tag, tc_vars>>

\* fence.i: the flush happens while the block that asks for it is running out
\* of the cache.  The instruction TLB is left alone.
ExecFenceI ==
    /\ At("fence_i")
    /\ flush_translation_cache
    /\ dirty' = remapped
    /\ LeaveAt(Next4(pc))
    /\ UNCHANGED <<code, remapped, stores, tag>>

\* invalidate_tlb of both TLBs and then the flush.
InvalidateAndFlush ==
    /\ flush_translation_cache
    /\ dirty' = {}
    /\ remapped' = {}
    /\ UNCHANGED <<code, stores>>

\* sfence.vma, also from a block that is itself in the cache.
ExecSfenceVma ==
    /\ At("sfence_vma")
    /\ InvalidateAndFlush
    /\ LeaveAt(Next4(pc))
    /\ UNCHANGED tag

\* A CSR instruction that does not write satp.
ExecCsr ==
    /\ At("csr")
    /\ LeaveAt(Next4(pc))
    /\ UNCHANGED <<guest_vars, tag, tc_vars>>

\* csr_satp_write: the space may change, and everything is invalidated.
ExecCsrSatp ==
    /\ At("csr")
    /\ tag' \in Spaces
    /\ InvalidateAndFlush
    /\ LeaveAt(Next4(pc))

\* A CSR that is not implemented, or an access where paging is off and no region
\* has the address: PANIC and __not_reach end the emulator.
ExecAbort ==
    /\ At("csr") \/ (At("mem") /\ tag = 0)
    /\ mode' = "abort"
    /\ UNCHANGED <<guest_vars, tag, pc, tc_vars, blob_vars, ip>>

\* mret and sret: mepc or sepc may hold any address.
ExecRet ==
    /\ At("ret")
    /\ tag' \in Spaces
    /\ \E p \in PC : LeaveAt(p)
    /\ flush_translation_cache_on_address_space_change(tag)
    /\ UNCHANGED guest_vars

\* The jumper, like every terminator, goes to vmm_entry_point.
ExecJumper ==
    /\ mode = "run"
    /\ cache[ip].what = "jumper"
    /\ LeaveAt(pc)
    /\ UNCHANGED <<guest_vars, tag, tc_vars>>

\* The host runs bytes that are not the start of a block: it is lost.
ExecJunk ==
    /\ mode = "run"
    /\ cache[ip].what = "junk"
    /\ mode' = "lost"
    /\ UNCHANGED <<guest_vars, tag, pc, tc_vars, blob_vars, ip>>

----------------------------------------------------------------------------
(* The vmm between translation units *)

\* pump_devices_and_deliver_interrupts delivers, and does not return.
DeliverInterrupt ==
    /\ mode = "vmexit"
    /\ TakeTrap

\* It delivers nothing: vmexit calls vmresume, which starts to prefetch.
Resume ==
    /\ mode = "vmexit"
    /\ mode' = "prefetch"
    /\ next_fetch' = pc
    /\ is_flushable' = TRUE
    /\ old_trans_ptr' = tc_ptr
    /\ UNCHANGED <<guest_vars, tag, pc, tc_vars, ip>>

Stopped ==
    /\ mode \in {"assert", "abort", "lost"}
    /\ UNCHANGED vars

\* hart_init leaves the hart in machine mode; then the first vmresume.
Init ==
    /\ code \in Programs
    /\ tag = 0
    /\ pc = Entry
    /\ mode = "prefetch"
    /\ cache = [a \in Addr |-> Junk]
    /\ tc_ptr = 0
    /\ mappings = NoMappings
    /\ nr_translated = 0
    /\ next_fetch = Entry
    /\ is_flushable = TRUE
    /\ old_trans_ptr = 0
    /\ ip = 0
    /\ dirty = {}
    /\ remapped = {}
    /\ stores = 0
    /\ unsealed = FALSE

Prefetch ==
    \/ PrefetchHit
    \/ PrefetchFault
    \/ PrefetchUnknown
    \/ PrefetchFull
    \/ PrefetchTranslate

Exec ==
    \/ ExecPlain
    \/ ExecStore
    \/ ExecRemap
    \/ ExecMem
    \/ ExecException
    \/ ExecJump
    \/ ExecWfi
    \/ ExecFenceI
    \/ ExecSfenceVma
    \/ ExecCsr
    \/ ExecCsrSatp
    \/ ExecAbort
    \/ ExecRet
    \/ ExecJumper
    \/ ExecJunk

Next ==
    \/ Prefetch
    \/ EnterGuest
    \/ Exec
    \/ DeliverInterrupt
    \/ Resume
    \/ Stopped

Spec == Init /\ [][Next]_vars

\* The host thread runs: the loop of prefetch_instructions turns, and
\* translated code executes.
FairSpec == Spec /\ WF_vars(Prefetch) /\ WF_vars(EnterGuest) /\ WF_vars(Exec)

----------------------------------------------------------------------------
(* Properties *)

\* Types; the cache pointer, the program counter and the host's position stay
\* within the cache and the address space.
TypeOK ==
    /\ code \in Memory
    /\ tag \in Spaces
    /\ pc \in PC
    /\ mode \in Modes
    /\ cache \in [Addr -> Items]
    /\ tc_ptr \in 0 .. CacheSize
    /\ DOMAIN mappings \subseteq PC
    /\ mappings \in [DOMAIN mappings -> Addr]
    /\ nr_translated \in Nat
    /\ next_fetch \in PC
    /\ is_flushable \in BOOLEAN
    /\ old_trans_ptr \in Nat
    /\ ip \in Addr
    /\ dirty \subseteq Spaces \X PC
    /\ remapped \subseteq dirty
    /\ stores \in 0 .. MaxStores
    /\ unsealed \in BOOLEAN

\* Wherever control ends up in the cache, the block there leaves room for a
\* jumper behind it.
CellsFit ==
    \A a \in Addr :
        cache[a].what = "block" =>
            a + cache[a].instr.size + JumperSize <= CacheSize

\* Every mapping points at the block of its own guest address.
MappingsPointToBlocks ==
    \A p \in DOMAIN mappings :
        /\ cache[mappings[p]].what = "block"
        /\ cache[mappings[p]].pc = p
        /\ mappings[p] + cache[mappings[p]].instr.size <= tc_ptr

\* A block that runs on is followed by a jumper, by the block of the next
\* guest instruction, or by nothing yet because it is the last one translated
\* and the loop of prefetch_instructions is not over.
BlocksAreFollowed ==
    ~unsealed =>
        \A p \in DOMAIN mappings :
            LET end == mappings[p] + cache[mappings[p]].instr.size IN
            cache[mappings[p]].instr.kind \in FallThroughKinds =>
                \/ end < tc_ptr /\ cache[end].what = "jumper"
                \/ Next4(p) \in DOMAIN mappings /\ mappings[Next4(p)] = end
                \/ /\ mode \in {"prefetch", "seal", "abort"}
                   /\ ~is_flushable
                   /\ end = tc_ptr
                   /\ next_fetch = Next4(p)

\* A translation is that of the instruction now in memory, or the location
\* changed since the fence that would show it.
TranslationsAreFresh ==
    \A p \in DOMAIN mappings :
        <<tag, p>> \notin dirty => cache[mappings[p]].instr = code[tag][p]

\* is_flushable says whether this prefetch has translated anything, and once
\* it has, the block of the guest's pc is there and a jumper still fits.
BlobIsConsistent ==
    mode \in {"prefetch", "seal"} =>
        /\ is_flushable => tc_ptr = old_trans_ptr
        /\ is_flushable /\ mode = "prefetch" => next_fetch = pc
        /\ ~is_flushable => tc_ptr + JumperSize <= CacheSize
        /\ ~is_flushable \/ mode = "seal" => pc \in DOMAIN mappings

\* Control in the cache is at a jumper or where pc is mapped.
ControlIsMapped ==
    mode = "run" /\ ~unsealed =>
        \/ cache[ip].what = "jumper"
        \/ pc \in DOMAIN mappings /\ ip = mappings[pc]

\* The layout of the cache: blocks and jumpers are copied only inside it and
\* only while the mapping array has a slot, and each is where the others need
\* it (add_translation_item, COMMIT_TRANSLATION, prefetch_instructions).
LayoutInv ==
    /\ nr_translated <= MaxInstr
    /\ CellsFit
    /\ MappingsPointToBlocks
    /\ BlocksAreFollowed
    /\ TranslationsAreFresh
    /\ BlobIsConsistent
    /\ ControlIsMapped

\* While the guest runs, control is at a block of the instruction the guest
\* program counter names, or at a jumper, unless a translation unit was left
\* without its jumper since the last flush.
ControlFollowsPc ==
    mode = "run" /\ ~unsealed =>
        \/ cache[ip].what = "jumper"
        \/ cache[ip].what = "block" /\ cache[ip].pc = pc

\* The same without the exception: what the comment in prefetch_instructions
\* promises of the jumper.
NeverFallsThroughUnintentionally ==
    mode = "run" =>
        \/ cache[ip].what = "jumper"
        \/ cache[ip].what = "block" /\ cache[ip].pc = pc

\* The instruction about to run is the one instruction fetch finds in the
\* current address space, unless the guest changed it and has not issued the
\* fence this asks for: either of them for a store to the instruction itself,
\* sfence.vma (or a write of satp) for one to its page table.
NoStaleExecution ==
    mode = "run" /\ ~unsealed /\ cache[ip].what = "block"
                 /\ <<tag, pc>> \notin dirty =>
        cache[ip].instr = code[tag][pc]

\* add_translation_item never refuses a block, so the ASSERT of
\* COMMIT_TRANSLATION on its result holds: there is always room after the one
\* flush.  And no flush or full cache takes the item of the pc that vmresume
\* enters out of the array.  Whether the binary search finds an item that is
\* stored, which the other two ASSERTs are about, is not said here: PcMapping
\* shows it for program counters less than half the address space apart, and
\* that it fails for others.
AssertedItemsAreStored == mode # "assert"

\* As long as no translation unit is left without its jumper, the translator
\* implements the machine without a cache.
Guest == INSTANCE GuestMachine

ImplementsGuestMachine ==
    Guest!Init /\ [][~unsealed => Guest!Next]_(Guest!vars)

\* The prefetch loop ends.
PrefetchTerminates == mode = "prefetch" ~> mode # "prefetch"

\* Translated code gives control back to the vmm, which polls the devices and
\* delivers interrupts nowhere else, or ends the emulator by name (ExecAbort),
\* if no translation unit was left without its jumper.
GuestReturnsToVmm == mode = "run" /\ ~unsealed ~> mode \in {"vmexit", "abort"}
=============================================================================
