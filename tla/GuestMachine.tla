---------------------------- MODULE GuestMachine ----------------------------
(***************************************************************************)
(* What the translator promises: a machine that has no cache.  Each step   *)
(* executes the instruction that instruction fetch finds at the program    *)
(* counter, in the current address space.  The only licence is the one the *)
(* architecture gives: a location that was written may execute as          *)
(* something else until the next fence.i, and one whose page table was     *)
(* written until the next sfence.vma, or write of satp.                    *)
(***************************************************************************)
EXTENDS Integers

CONSTANTS PcCount, Spaces, Instr, Words, Programs, Entry, TrapVectors

VARIABLES code, tag, pc, dirty, remapped

vars == <<code, tag, pc, dirty, remapped>>

PC == 0 .. PcCount - 1

NextPc == (pc + 1) % PcCount

\* An instruction of one of these kinds may execute now.
MayExecute(kinds) ==
    \E i \in Instr :
        /\ i.kind \in kinds
        /\ code[tag][pc] = i \/ <<tag, pc>> \in dirty

Init ==
    /\ code \in Programs
    /\ tag = 0
    /\ pc = Entry
    /\ dirty = {}
    /\ remapped = {}

Proceed ==
    /\ MayExecute({"plain", "mem", "wfi", "csr", "jump"})
    /\ pc' = NextPc
    /\ UNCHANGED <<code, tag, dirty, remapped>>

Store ==
    /\ MayExecute({"mem"})
    /\ \E s \in Spaces, p \in PC, i \in Words :
        /\ code' = [code EXCEPT ![s][p] = i]
        /\ dirty' = dirty \cup {<<s, p>>}
    /\ pc' = NextPc
    /\ UNCHANGED <<tag, remapped>>

\* A store to a page table of a space with paging.
Remap ==
    /\ MayExecute({"mem"})
    /\ \E s \in Spaces \ {0}, p \in PC, i \in Words :
        /\ code' = [code EXCEPT ![s][p] = i]
        /\ dirty' = dirty \cup {<<s, p>>}
        /\ remapped' = remapped \cup {<<s, p>>}
    /\ pc' = NextPc
    /\ UNCHANGED tag

Jump ==
    /\ MayExecute({"jump"})
    /\ pc' \in PC
    /\ UNCHANGED <<code, tag, dirty, remapped>>

FenceI ==
    /\ MayExecute({"fence_i"})
    /\ dirty' = remapped
    /\ pc' = NextPc
    /\ UNCHANGED <<code, tag, remapped>>

SfenceVma ==
    /\ MayExecute({"sfence_vma"})
    /\ dirty' = {}
    /\ remapped' = {}
    /\ pc' = NextPc
    /\ UNCHANGED <<code, tag>>

WriteSatp ==
    /\ MayExecute({"csr"})
    /\ tag' \in Spaces
    /\ dirty' = {}
    /\ remapped' = {}
    /\ pc' = NextPc
    /\ UNCHANGED code

Return ==
    /\ MayExecute({"ret"})
    /\ pc' \in PC
    /\ tag' \in Spaces
    /\ UNCHANGED <<code, dirty, remapped>>

\* An exception or an interrupt.
Trap ==
    /\ pc' \in TrapVectors
    /\ tag' \in Spaces
    /\ UNCHANGED <<code, dirty, remapped>>

Next ==
    \/ Proceed
    \/ Store
    \/ Remap
    \/ Jump
    \/ FenceI
    \/ SfenceVma
    \/ WriteSatp
    \/ Return
    \/ Trap

Spec == Init /\ [][Next]_vars
=============================================================================
