---------------------------- MODULE AddressSpace ----------------------------
(***************************************************************************)
(* What the memory management unit promises: a memory that is accessed     *)
(* through Sv32 page tables kept in that memory itself, and no TLB.  The   *)
(* one licence is the architecture's: until the next sfence.vma or write   *)
(* of satp an access may use any translation its page has had since the    *)
(* last one.  A page fault needs no licence: it is raised only for a page  *)
(* that has no translation now.                                            *)
(*                                                                         *)
(* A page is <<vpn1, vpn0>> and a page frame <<ppn1, ppn0>>; the offset in *)
(* a page is left out, and a frame of ram is the Fan page table entries it *)
(* holds.  A page and the frame at the same address are the same pair.     *)
(***************************************************************************)
EXTENDS Integers

CONSTANTS
    Fan,          \* entries of a page table (1024)
    Region,       \* frame -> the kind of memory region that backs it
    Pages,        \* the pages the guest accesses
    Words,        \* the words the guest stores: page table entries
    SatpValues,   \* the values the guest writes to satp
    Image         \* what ram holds when the guest starts

Idx == 0 .. Fan - 1

Frame == Idx \X Idx

Pte == [valid : BOOLEAN, leaf : BOOLEAN, ppn : Frame]

Ram == {f \in Frame : Region[f] = "ram"}

Memory == [Ram -> [Idx -> Pte]]

\* Where an access ends up: a frame and the region whose callback serves it.
Physical == [frame : Frame, pmr : {"ram", "io"}]

Fault == [frame |-> <<0, 0>>, pmr |-> "none"]

VARIABLES
    mem,      \* the contents of ram
    satp,     \* the mode bit and the root table of satp
    machine,  \* hartptr->privilege_level is machine mode
    stopped,  \* the emulator is gone: an access to no region, or behind ram
    answer,   \* history: where the last access ended up
    seen      \* history: the translations of each page since the last fence

vars == <<mem, satp, machine, stopped, answer, seen>>

----------------------------------------------------------------------------
\* Table m at frame f maps page p to t, by a leaf of its root table (a 4M
\* page, served as a whole by the region its first frame is in) or through a
\* second table.
Maps(m, f, p, t) ==
    /\ f \in Ram
    /\ m[f][p[1]].valid
    /\ LET ppn == m[f][p[1]].ppn
       IN  \/ /\ m[f][p[1]].leaf
              /\ t.frame = <<ppn[1], p[2]>>
              /\ t.pmr = Region[<<ppn[1], 0>>]
           \/ /\ ~m[f][p[1]].leaf
              /\ ppn \in Ram
              /\ m[ppn][p[2]].valid
              /\ t.frame = m[ppn][p[2]].ppn
              /\ t.pmr = Region[t.frame]

\* The translation of page p under the value s of satp, if there is one.
Translations(m, s, p) ==
    IF s.mode THEN {t \in Physical : Maps(m, s.ppn, p, t)} ELSE {}

AllTranslations(m, s) == [p \in Pages |-> Translations(m, s, p)]

Direct(p) == [frame |-> p, pmr |-> Region[p]]

Paging == ~machine /\ satp.mode

\* The callbacks of ram compute a host address from the guest's and check no
\* bound: served by them, t leads to host memory that is not the guest's.
Overruns(t) == t.pmr = "ram" /\ t.frame \notin Ram

\* That may end the emulator, or pass unnoticed by the guest.
StoppedBy(t) == IF Overruns(t) THEN BOOLEAN ELSE {FALSE}

\* The memory after a store of word v as entry w of where t leads.
Stored(t, w, v) ==
    IF t.pmr = "ram" /\ ~Overruns(t) THEN [mem EXCEPT ![t.frame][w] = v] ELSE mem

----------------------------------------------------------------------------
Init ==
    /\ mem = Image
    /\ satp = [mode |-> FALSE, ppn |-> <<0, 0>>]
    /\ machine = TRUE
    /\ stopped = FALSE
    /\ answer = Fault
    /\ seen = [p \in Pages |-> {}]

\* The places an access to page p may end up.
Allowed(p) == IF Paging THEN seen[p] ELSE {Direct(p)} \cap Physical

Read(p) ==
    /\ answer' \in Allowed(p)
    /\ stopped' \in StoppedBy(answer')
    /\ UNCHANGED <<mem, satp, machine, seen>>

Write(p, w, v) ==
    /\ answer' \in Allowed(p)
    /\ mem' = Stored(answer', w, v)
    /\ seen' = [q \in Pages |-> seen[q] \cup Translations(mem', satp, q)]
    /\ stopped' \in StoppedBy(answer')
    /\ UNCHANGED <<satp, machine>>

PageFault(p) ==
    /\ Paging
    /\ Translations(mem, satp, p) = {}
    /\ answer' = Fault
    /\ machine' \in BOOLEAN
    /\ UNCHANGED <<mem, satp, stopped, seen>>

Abort(p) ==
    /\ ~Paging
    /\ Region[p] = "none"
    /\ stopped' = TRUE
    /\ UNCHANGED <<mem, satp, machine, answer, seen>>

WriteSatp(s) ==
    /\ satp' = s
    /\ seen' = AllTranslations(mem, s)
    /\ UNCHANGED <<mem, machine, stopped, answer>>

Fence ==
    /\ seen' = AllTranslations(mem, satp)
    /\ UNCHANGED <<mem, satp, machine, stopped, answer>>

\* A trap or a return to another privilege level.
ChangeLevel ==
    /\ machine' = ~machine
    /\ UNCHANGED <<mem, satp, stopped, answer, seen>>

Next ==
    /\ ~stopped
    /\ \/ \E p \in Pages :
            \/ Read(p)
            \/ \E w \in Idx, v \in Words : Write(p, w, v)
            \/ PageFault(p)
            \/ Abort(p)
       \/ \E s \in SatpValues : WriteSatp(s)
       \/ Fence
       \/ ChangeLevel

Spec == Init /\ [][Next]_vars
=============================================================================
