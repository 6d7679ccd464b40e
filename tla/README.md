# Zelda RISC-V emulator: a verification development in TLA+

The repository is an emulator of a 32-bit RISC-V machine: a monitor (`src/vmm`)
that translates guest instructions into host code and emulates the devices, and
a machine mode firmware (`src/bootrom`) that boots a kernel and serves its SBI
calls. This directory models the parts that carry the emulator's own logic,
checks them with TLC on small instances and proves their safety properties and
refinements with TLAPS for all instances.

## 1. The system

One host thread runs one hart. It alternates between *translated code* and the
*vmm*:

    vmexit -> pump devices, deliver an interrupt -> vmresume -> prefetch -> jump
      ^                                                                     |
      +--------- terminator, jumper or trap (vmm_entry_point) --------------+

There is no host concurrency. What makes the code hard is that four things
interleave at translation unit boundaries: the guest (kernel, user and firmware),
the devices, the operator, and the translator's own cache management; that a
trap never returns to where it was raised (it resets the host stack), so whatever
its caller had half done stays half done; and that the guest runs out of memory
the vmm rearranges.

| Component | State | Operations | Hard part |
|---|---|---|---|
| Translation cache (`hart.c`, `translation.c`, `translation.h`, `hart_util.h`, `vmm_trap.S`) | bytes of the cache, its pointer, the mapping array, the prefetch blob | prefetch, precheck, commit, seal, enter, flush | layout decides what runs; flush in the middle; fault in the middle; stale code |
| Program counter mapping (`hart.c`, `sort.h`, `search.h`) | sorted array | binary insertion, binary search | bounds, wrapping comparison |
| Traps and privilege (`hart_trap.c`, `hart_exception.c`, `hart_util.h`, CSR files) | level, status bits, epc, cause, delegation | trap to M or S, mret, sret, CSR writes | which bits survive a round trip |
| Interrupt delivery (`hart_interrupt.c`) | pending and enabled bits, poll countdown | pump, refresh, deliver, idle | who owns which pending bit, stale bits |
| PLIC (`emulate_plic.c`) | level, pending, claimed, priorities, enables | set line, claim, complete, register writes | level triggering against claim and complete |
| UART (`emulate_uart.c`) | receive ring, enables, latch, escape state | poll, register accesses, interrupt line | ring limit, stale line |
| CLINT (`emulate_clint.c`) | clock, comparator, doorbell | advance, skip, half-word writes | half-written comparator |
| SBI firmware (`bootrom/sbi.c`, `init.c`, `entry.S`) | the CSRs, the CLINT, its stack | boot, trap entry and exit, set_timer, send_ipi, clear_ipi, forward MTI and MSI | forwarding without losing, repeating or anticipating a tick; two stacks and one register to swap them through |
| MMU and TLB (`mmu*.c`, `mmu*.h`) | two TLBs, page tables in guest memory | lookup, walk, invalidate | aliasing, stale entries |
| Instruction semantics (`translate_*.c`) | registers | one translator per instruction | widths, signs, division corner cases |
| Atomic operations (`translate_amo.c`) | table of reservations | amo, load-reserved, store-conditional | a fault half way, coinciding registers, stale reservations, a full table |
| Memory regions, images, device tree, configuration, debugger, firmware library, guest init | set up once, or I/O | | |

## 2. Modules

### TranslationCache, GuestMachine, TranslationCacheProofs

`GuestMachine` is what the translator promises: a machine without a cache that
executes what instruction fetch finds at the program counter. Its one licence is
the architecture's: a location changed since the last fence that would show it
(`dirty`) may execute as something else. For a store to the instruction itself that is
`fence.i` or `sfence.vma`, for a store to its page table (`remapped`) only `sfence.vma`
or a write of `satp`.

`TranslationCache` is the translator. `cache` is the byte array in cells (a cell
is the first of a block, a jumper, or junk), `tc_ptr`, `mappings` and
`nr_translated` are the fields of `struct hart`, `next_fetch`, `is_flushable` and
`old_trans_ptr` are the blob and local of `prefetch_instructions`, and `ip` is the
host's instruction pointer. One action is one turn of the prefetch loop
(`PrefetchHit`, `PrefetchFault`, `PrefetchUnknown`, `PrefetchFull`,
`PrefetchTranslate`, the last with PRECHECK and COMMIT in it), the seal and jump of
`vmresume` (`EnterGuest`), one instruction of translated code per class
(`Exec...`), or the vmm between units (`DeliverInterrupt`, `Resume`).

Instructions are abstracted to their class and the size of their translation;
memory to what instruction fetch finds per address space. A store may change the word
itself (`ExecStore`) or the page table entry that leads to it (`ExecRemap`); after the
latter the instruction TLB may go on finding something else (`FetchFinds`), until
`sfence.vma` or a write of `satp`. `fence.i` only flushes the translation cache. Which
space a trap or return selects is left open. Space 0 is the one without paging: an
address that no region serves ends the emulator there (`PrefetchUnknown`, `ExecAbort`)
and faults elsewhere. An unimplemented CSR ends it everywhere.

The three ASSERTs on the mapping array, one on the room for a new item and two on the
outcome of a search, are split between two modules. Here the array is the function it
stores: `AssertedItemsAreStored` says that the item is put in and is still there. Whether
the binary search finds what is stored is `CommitAssertHolds` of PcMapping, and the
second finding below is that it does not always.

`unsealed` is a history variable: a prefetch left blocks without a jumper and nothing was flushed since.
There are two ways to that state. `PrefetchFault` is the real one, see the finding
below. The other is the comparison of old and new cache pointer: a flush in the
middle can bring the pointer back to exactly its old value.

### PcMapping, PcMappingProofs

The array that `TranslationCache` treats as a function, with INSERTION_SORT and
SEARCH one loop turn per step, and `comparing_mapping_item` as the difference of
two program counters modulo `Modulus`, read as signed. Operations come in the
order in which the translator uses them.

### Plic, PlicProofs, Uart, Console, ConsoleProofs

`Plic` is the interrupt controller among arbitrary devices and software; masks are
sets. `outstanding` is a history variable that counts claims. `Uart` is the device.
`Console` composes the two with the polling, refresh, delivery and idling of
`hart_interrupt.c` and with a minimal guest driver, which is external: it routes
and enables the interrupt, and its handler claims, identifies, reads or stops
transmitting, completes and claims again. `queue` is a history variable, the bytes
taken in and not yet read.

### Hart, Clint, SbiFirmware, SbiFirmwareProofs

`Hart` holds trap entry, return, delegation, deliverability and the CSRs. A CSR instruction
is one step, a read through the register's mask and a write back (`csrrw`, `csrrs`,
`csrrc`, `wpri_mask`); registers of bits are sets. `Clint` holds the clock, comparator and
doorbell, with the comparator as a pair of digits in base `Half`.

`SbiFirmware` composes them with the firmware, one step per instruction that changes
something, and with an arbitrary kernel and user program (external) that make SBI calls,
mask and unmask, wait, run user code, and handle their interrupts. The vmm runs at the end of every translation unit; a store may
or may not be the last of its unit. It starts at reset: the firmware sets its vector,
enables, delegates, and enters the kernel, with interrupts at every boundary in between.
Of the registers only `sp` is modelled, because it is the one that cannot be saved before
the stacks are swapped: through `mscratch`, `t0` and the trap frame (`frame_sp`). A stack
pointer of the firmware is a number of frames, -1 at the top. SBI calls that
concern neither timer nor software interrupt are one call `other` that answers and returns.

### Mmu, AddressSpace, MmuProofs

`AddressSpace` is what the MMU promises: a memory accessed through Sv32 tables that
lie in that memory, without a TLB. Its licence is the architecture's: `seen` collects
the translations each page has had since the last `sfence.vma` or write of `satp`, and
an access may use any of them. A page fault needs a page that has no translation now.

`Mmu` is the code: `itlb` and `dtlb` are the arrays of `struct tlb_entry`, one action per
access path (`mmu_instruction_read32`, `vmread`, `vmwrite`, and the direct accesses
without paging, which abort when no region answers), `csr_satp_write`,
`sfence_vma_callback` and the change of privilege level. `walk_page_table` is the walk
with its four ways to fail. A page is `<<vpn1, vpn0>>`, a frame `<<ppn1, ppn0>>`, a
frame of ram the page table entries it holds, so that a guest store can rewrite a table
through a mapping of its own. Left out are byte offsets; the code checks neither
permissions nor the alignment of a 4M page, so there is nothing to model of them. The
search for a memory region is the constant `Region`, of which only the type is assumed:
ram may start and end inside a 4M page. A 4M page that starts in ram is then served by the
callbacks of ram to its end (`Overruns`), and they check no bound. Such an access may end
the emulator or pass unnoticed; that it may damage other memory of the host is not
modelled. Ram starts and ends at a page here, as its size in MB makes it do in the code
if its start is at one.

### TranslatedBlocks, Isa, TranslatedBlocksProofs

`TranslationCache` knows an instruction by its class; `TranslatedBlocks` is what the host
code of a block does to `regs` and `pc`, for the blocks that neither access memory nor
call back. Decoding (`..._handlers`, `sign_extend32`) follows the tables of the
translators, `..._block` their host instructions; the x86 instructions themselves are
external, given by bits, carries, flags and `edx:eax`. `Execute` runs any one instruction;
`stopped` is how the emulator may end in it: an ASSERT of the decoder on an encoding it
does not know, or the host's divide error, for which there is no handler. `Isa` is the
reference, written in the arithmetic of the integers. Of encodings the architecture
reserves, and of jumps to addresses that are not a multiple of four, nothing is claimed:
the code accepts both. That a block runs at the address it was translated for is
`ControlFollowsPc` of TranslationCache.

### Atomics, AtomicMemory, AtomicsProofs

`AtomicMemory` is what the atomic instructions promise the programs of one hart: each is one
step, reads its operands before it writes, and one that faults has done nothing. A
reservation is a ticket for an address that serves one store-conditional. The two
licences beyond the architecture (several tickets, and the early write of rd by an sc that
faults) are what the finding and the remarks below are about.

`Atomics` is the code: `reservations` and `next_pointer` are the table, one action per slow
path with its faults. The refinement maps the valid items of the table to tickets. The
kernel is external: between any two instructions it may load the registers of another
program or change the mapping. `reserved` and `last_sc` are history variables: the
reservation of the architecture, and how the last sc fared against it. Addresses lead to
words through `map`, which stands for the module Mmu.

## 3. Runs

| Run | Checks | Instance |
|---|---|---|
| `translation_cache` | TypeOK, LayoutInv, ControlFollowsPc, NoStaleExecution, AssertedItemsAreStored, ImplementsGuestMachine, PrefetchTerminates, GuestReturnsToVmm | 4 addresses, 2 spaces, cache of 6 cells, 3 mappings, 1 store to code, 3 programs |
| `unsealed` (violation) | NeverFallsThroughUnintentionally | a page end |
| `pc_mapping` | TypeOK, ArrayInOrder, AnswerIsRight, CommitAssertHolds, LoopsEnd | 7 addresses in a window of a 16-address space, 5 items |
| `pc_mapping_wrap` (violation) | CommitAssertHolds | 6 addresses all around it |
| `plic` | TypeOK, LevelTriggered, ClaimIsExclusive | 2 sources, 2 contexts, priorities 0..2 |
| `console` | TypeOK, FifoIsQueue, LineMatchesUart, HandlerFindsWork, ReceivedIsRead | ring of 4, 2 bytes per read, poll interval 2 |
| `sbi_firmware` | TypeOK, FirmwareIsNotReentered, TickIsNotLost, NoEarlyTick, FirmwareIsTransparent, TickArrives, IpiArrives | clock 0..22, halves in base 6, deadlines 16, 20 and never, 1 external interrupt, 2 stack pointers of the guest |
| `mmu` | TypeOK, TlbIsLicensed, RamIsLeftOnlyAtItsEnd, FaultInstallsNothing, ImplementsAddressSpace | tables of 2 entries, 4 frames (io, ram, ram, none), 3 pages, TLBs of 4, 2 stores |
| `mmu_alias` (violation) | LookupFindsItsPage | TLBs of 2, no store |
| `blocks` | TypeOK, BlocksMatchIsa, StopsExactly | 4-bit words, 3 registers, immediates of 3, 2, 3 and 2 bits, every encoding |
| `atomics` | TypeOK, FreshReservationHolds, ImplementsAtomicMemory | 2-bit words, 3 registers, one word that two addresses may reach, table of 2, 10 instructions, 4 programs |
| `sc_pairing` (violation) | ScIsPaired | the same |

Why the bounds are enough to be interesting:

* The cache holds fewer cells than a straight-line program needs and the array
  fewer items, so both limits are hit at the first and at a later instruction of a
  unit. Programs differ at the same addresses in the two spaces, and contain both
  fences. One store, to code or to a page table, is enough to make any one location stale; `MaxStores` bounds only that. The
  theorems remove the bounds for the safety properties.
* Five items in the mapping array exercise every path of both loops, a middle that
  coincides with a bound included.
* The ring of 4 wraps and fills; a read of 2 bytes fills it in two polls.
* The firmware boots in about a dozen units of the clock. Deadlines 16 and 20 lie behind
  that and have different digits in base 6, and 35 is "never"; the clock passes both.
* The three pages include one whose 4K and 4M index coincide, two that share their 4M
  page, and the tables can be pointed at ram, a device and nothing. Ram starts in the
  middle of one 4M page and ends in the middle of the next. Two stores rewrite
  both levels between two accesses. The theorems remove these bounds.
* With 4-bit words every pair of register values occurs with every instruction; three
  registers give all coincidences of rd, rs1, rs2 and x0. Every field is narrower than a
  register, so each sign extension matters, and jumps wrap around the address space.
* The table of reservations has two items: it fills, with reservations of two addresses or
  with two of one, and wraps. Of the four addresses two are misaligned; the second aligned
  one is unmapped or another name of the same word. Every instruction occurs with rd = rs2,
  one with rd = rs1, one with rd = x0, and one has no handler.

Deadlock is checked everywhere but in `blocks`, where a divide error ends the process.
Elsewhere the states in which the emulator has stopped (abort,
assertion, operator's quit) have an explicit stuttering step.

### Fairness

* `translation_cache`: weak fairness of the prefetch loop, of entering the guest and
  of translated code: the host thread runs. Nothing is assumed about which
  instruction comes next.
* `pc_mapping`: weak fairness of the loops.
* `console`: weak fairness of the vmm and of the driver's own steps; that the guest
  comes to the end of a translation unit is `GuestReturnsToVmm`.
* `sbi_firmware`: weak fairness of vmm, firmware and guest, and strong fairness of the
  kernel's unmasking: a kernel that keeps its interrupts masked for ever is not
  owed a tick. Nothing obliges the kernel to set timers.

## 4. Findings

* **A fault during prefetch leaves blocks unsealed** (`unsealed`).
  `mmu_instruction_read32` raises the instruction page fault from inside the prefetch
  loop. The blocks committed so far stay mapped and no jumper closes them. If the
  handler runs in the same address space (user code and kernel under one `satp`), it
  is translated right behind; when the guest returns it runs its last block and
  falls into the handler, at user level.
* **The mapping order wraps** (`pc_mapping_wrap`). Addresses more than 2^31 apart
  compare the wrong way round; with at least three clusters of addresses around the
  space the array is not sorted in any sense and an item just inserted may not be
  found. The assertion in COMMIT_TRANSLATION stops the emulator.
* **Store-conditional accepts stale reservations** (`sc_pairing`). The architecture has one
  reservation, which any store-conditional ends. Here each lr takes an item of a table
  and only a successful sc to its address clears it, one item at a time. So an sc
  succeeds on an item that an earlier sc should have ended: a kernel that issues an sc of
  its own at a context switch does not stop the interrupted program from storing
  over what others wrote. `atomics` shows what does hold: each reservation
  serves one sc, and only a full table forgets one.
* **The TLB never compares its tag** (`mmu_alias`). Any valid entry at the 4K index of an
  address answers for it, or else any at its 4M index. With the 0x4000 entries of the
  sample configuration, pages 64 MB apart compete, and 4M page n competes with the 4K
  pages whose number has n as its low bits. A guest that uses such pages reads and writes
  the wrong memory. `mmu` and the theorems show that this is all that is wrong: for pages
  that do not compete (`NoAlias`) the MMU is right.

Remarks without a run:

* `rem` and `remu` divide without the test that `div` and `divu` have, and the overflow of
  `div` and `rem` is not caught (a FIXME in `translate_multiplication_and_division.c` knows
  the latter): the host's divide error then ends the emulator. `StopsExactly` says that
  these are all the cases.
* `ram_init` takes any start and any number of MB (`emulate_ram.c:73-76`). If ram ends inside
  a 4M page, the rest of a large page that the guest maps there is served by the callbacks
  of ram, which compute a host address behind the allocation. `emulate_rom.c:16-19`
  describes this case and refuses it for the rom; ram has no such test.
  `RamIsLeftOnlyAtItsEnd` says that this is the only way out of ram.
* `entry.S` says that restoring `mscratch` early makes a nested trap work. A nested trap
  would reuse the same frame; `FirmwareIsNotReentered` shows that none occurs on the paths
  modelled.
* The comment at `emulate_plic.c:30` calls `pending` "the subset not yet claimed" of the
  levels. A claimed source stays pending; the search masks it out.
* `README.md:454-457` ticks AMOMIN, AMOMAX and their unsigned forms; none has a handler, and
  the ASSERT of the translator ends the emulator (`Stop` in AtomicMemory).
* An sc that faults has already written 0 to rd; if rd is also its operand, the retried
  instruction uses the 0. AtomicMemory licenses the write.
* A misaligned atomic store would report the cause of a misaligned load
  (`mmu.c:64`). Only an sc could meet it, and its address was read by an lr before.
* `init.c:97-98` says that MPIE becomes the supervisor's SIE. mret copies it to MIE; the
  kernel starts with SIE clear.

## 5. Proofs

Eight modules hold proofs. Every invariant, action property and refinement that a passing
run checks is also a theorem, for every value of the constants the assumptions allow;
liveness is not (see the end of this section). Each component has one inductive
invariant, an initial lemma, a step lemma with one case per action, and theorems that
name the properties of the runs one by one.

`TranslationCacheProofs` proves, for every guest program, set of spaces, cache size,
number of mappings and translation sizes:

| Theorem | Statement |
|---|---|
| CacheTypeTheorem | `Spec => []TypeOK` |
| LayoutTheorem | `Spec => []LayoutInv` |
| ControlTheorem | `Spec => []ControlFollowsPc` |
| FreshnessTheorem | `Spec => []NoStaleExecution` |
| StoredTheorem | `Spec => []AssertedItemsAreStored` |
| RefinementTheorem | `Spec => ImplementsGuestMachine` |

Assumptions: sizes are positive, the reset and trap addresses exist, and no single
translated block is larger than the empty cache less the jumper (otherwise the
assertion after the one permitted flush would fail).

The inductive invariant is `TypeOK /\ LayoutInv`. That control follows the program
counter is not inductive: to know where control falls one has to know what follows
each block (`BlocksAreFollowed`), for which one has to know during the prefetch that
only the last block is open and belongs to the address before `next_fetch`. To know
that the copy of a new block or jumper does not run over the end one needs `CellsFit`
and the room that PRECHECK left (`BlobIsConsistent`). `TranslationsAreFresh` relates
each mapped block to memory through `dirty`; it is what a flush on a change of address
space preserves. `ControlIsMapped` closes the loop. From these AssertedItemsAreStored, the
freshness and the refinement follow in a few steps. The refinement and ControlFollowsPc
are conditional on `~unsealed`, which the finding shows to be necessary.

`PcMappingProofs` (PcTypeTheorem, OrderTheorem, SearchTheorem, CommitTheorem) is about
arrays of any size. PcTypeTheorem holds for all program counters: even where the comparison
is no order, the loops and the move stay inside the array (`IndicesInArray`). The others are
for program counters that lie less than half the address space apart (`Windowed`); the run
`pc_mapping_wrap` shows that the condition is necessary. Their heart is that under it
`comparing_mapping_item` is the order of the numbers. The invariant `PcInv` says that all
items but the one being inserted are in order (`SettledInOrder`), that everything left of
`low` is below the key and everything right of `high` above it (`LoopBounds`), also while
the tail shifts (`InsertionUnderWay`), and that the search of COMMIT_TRANSLATION is for a
key that is stored (`KeyIsStored`).

`PlicProofs` proves PlicTypeTheorem, ClaimTheorem and LevelTheorem for any number of
sources and contexts. The invariant is the conjunction of the three properties: a claim
counts to 1 only because a claimed source is no candidate, which needs that the search
answers a candidate, which needs that a finite set of naturals has a least element.

`ConsoleProofs` (ConsoleTypeTheorem, FifoTheorem, LineTheorem, WorkTheorem) is about rings of
any size, any number of sources and any poll interval. That the ring is a queue needs
facts about indices modulo its size only. The line properties need to know which way the
line can be stale between a poll and the refresh: late to go up, never to go down
(`LineHasReason`), and up from delivery to the first claim (`LineStaysUp`). `Routed` and
`OnlyTheUart` say that nothing else competes for the claim.

`SbiFirmwareProofs` (SbiTypeTheorem, ReentryTheorem, TickTheorem, EarlyTheorem,
TransparentTheorem) is about clocks of any width and any deadlines and stack pointers of
the kernel. The properties hold outside the firmware or on its way out, so `SbiInv` says
what holds at each place inside: what the boot has set up (`SetUp`), the privilege level
and the status a trap or return will restore (`Levels`, `KernelTraps`, `Interrupted`), where
the two stack pointers are during the swap (`Frame`), how far the three stores of
`sbi_set_timer` have brought the comparator (`Comparator`), and that a tick is forwarded
only when due and not forgotten in between (`Tick`).

`MmuProofs` is about page tables, memories and TLBs of any size. TlbTheorem, LookupTheorem
and MmuRefinementTheorem are under the condition `Distinct`: neither TLB lets two of the
guest's pages compete for an entry. The finding shows that the condition is necessary.
MmuTypeTheorem, RamTheorem and FaultTheorem hold without it: competing pages may get each
other's frames, but through the callbacks of ram no place other than ram and the 4M pages
that start in it. AlignedRamTheorem says that this is ram alone if no 4M page starts in ram
and ends behind it (`RamEndsOnLargePage`); the code does not see to that. Assumptions on
the constants, apart from types: capacities are powers of two, as the mask of the index
needs. The invariant `MmuInv` is TypeOK, `TlbInv` and `EntriesNearRam`. TlbIsLicensed is not inductive, for a page's lookup may move from its 4M
index to its 4K index when the latter is filled; `EntriesAreLicensed` therefore says of
each entry which page it belongs to and that it is right for every page it covers, and
`SeenIsCurrent` makes the next walk's result licensed. `EntriesNearRam` says what an entry
does to any page that finds it, its own or another.

`TranslatedBlocksProofs` (BlockTypeTheorem, BlocksTheorem, StopsTheorem) shows
that every block leaves the registers and the program counter the architecture asks
for, for registers and fields of any width. The host's instructions are given by bits and
flags, `Isa` by integers; the argument goes up in four layers. `BitsExist` and
`BitsDetermine`: every sequence of bits is that of exactly one word. The `Host...` lemmas
(sum by carries, logic, the shifts, btr, products): what each x86 instruction computes, in
integers. `Computes`, `Shifts`, `Multiplies`, `Divides`, `Compares`: the sequences of host
instructions of one operation, with `LessIsSignedOrder` (sign and overflow flag give the
signed order) and `IdivFaultsOnlyOnOverflow`. `RegisterBlock` ... `UpperBlock`: each format
with its decoding and its immediate. The inductions over bits use the library's theorem
that a non-empty set of naturals has a least element (`Induct`). The prover knows nothing of
`^`, so its defining equations are the assumption `PowerAssumption`, which TLC evaluates; that
XLEN is a power of two is assumed because the code masks shift counts with 31.

`AtomicsProofs` (FreshTheorem, AtomicTypeTheorem, AtomicRefinementTheorem) is about reservation
tables of any size and any programs. FreshTheorem's invariant adds to
FreshReservationHolds that `next_pointer` is a slot of the table; that the slot lr takes is
one needs that a non-empty set of slots has a first. The refinement's invariant is
`AtomicInv`: the types, and that each valid item is of this hart (`ItemsAreOwn`). The tickets
of AtomicMemory are cardinalities of sets of slots: `LrIssues` and `ScUses` show that lr
adds one slot to the set of its address, taken from the free ones or, when the table is
full, from another address, and that sc gives one back.

Only model-checked: liveness, for fairness and ENABLED are out of the prover's reach
(PrefetchTerminates, GuestReturnsToVmm, LoopsEnd, ReceivedIsRead, TickArrives, IpiArrives).

## 6. Not modelled

Image loading and plain memory, device tree, configuration, logging, debugger, firmware
library and self tests: they hold data or run once. Vectored trap mode, trap values and
the CSRs that only hold data. More than one hart: the code keeps arrays per hart, but one
host thread runs one hart. The data of loads and stores, with accesses that cross a page.
The table of memory regions: it is filled once from the configuration, and its outcome is
a constant of Mmu. Of the firmware, the saving of the registers other than `sp` and the
checks and output of the boot.

## 7. Plan

1. Done: TranslationCache with its abstract machine; PcMapping; Plic, Uart and Console;
   Hart, Clint and SbiFirmware with CSR instructions, boot and stack swap; Mmu with its
   abstract memory; TranslatedBlocks with its reference; Atomics with its abstract memory.
2. Done: the proofs of their safety properties and refinements.
3. The data of loads and stores: widths, extension, accesses that cross a page.
