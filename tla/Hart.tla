------------------------------- MODULE Hart --------------------------------
(***************************************************************************)
(* The privilege state of a hart: levels, the status bits, interrupts and  *)
(* their delegation, trap entry and return (hart_trap.c, hart_exception.c, *)
(* hart_interrupt.c, hart_util.h), and the CSR instructions on them         *)
(* (csr_representation.c, csr_machine_level.c, csr_supervisor_level.c).    *)
(*                                                                         *)
(* A register of bits is the set of the bits that are 1.  Trap vectors are *)
(* in direct mode, as the firmware and the kernel set them; the vector of  *)
(* the kernel is a parameter here.                                         *)
(***************************************************************************)
EXTENDS Naturals

PRIVILEGE_LEVEL_USER == 0
PRIVILEGE_LEVEL_SUPERVISOR == 1
PRIVILEGE_LEVEL_MACHINE == 3

MachineInterrupts == {"MEI", "MSI", "MTI"}
SupervisorInterrupts == {"SEI", "SSI", "STI"}
Interrupts == MachineInterrupts \cup SupervisorInterrupts

Exceptions == {"ecall_u", "ecall_s", "ecall_m", "fault"}

VARIABLES
    privilege_level,
    status,       \* [uie, upie, sie, spie, spp, mie, mpie, mpp]
    ipending,     \* mip
    ienable,      \* mie, and sie
    idelegation,  \* mideleg
    medeleg,
    pc, mepc, sepc,
    mcause,
    mtvec,
    mscratch,
    sp            \* the one register that the trap entry has to save through a CSR

trap_vars == <<privilege_level, status, pc, mepc, sepc, mcause>>
setup_vars == <<idelegation, medeleg, mtvec>>
hart_stack_vars == <<mscratch, sp>>

----------------------------------------------------------------------------
(* Interrupts *)

interrupt_target_privilege_level(v) ==
    IF v \in idelegation THEN PRIVILEGE_LEVEL_SUPERVISOR
    ELSE PRIVILEGE_LEVEL_MACHINE

\* v can be taken when the pending bits are pend.
is_interrupt_deliverable(v, pend) ==
    LET target == interrupt_target_privilege_level(v) IN
    /\ v \in pend \cap ienable
    /\ \/ privilege_level < target
       \/ /\ privilege_level = target
          /\ IF target = PRIVILEGE_LEVEL_MACHINE THEN status.mie ELSE status.sie

delivery_order == <<"MEI", "MSI", "MTI", "SEI", "SSI", "STI">>

Deliverable(pend) ==
    {i \in 1 .. 6 : is_interrupt_deliverable(delivery_order[i], pend)}

\* The one that the loop over delivery_order finds first.
HighestDeliverable(pend) ==
    delivery_order[CHOOSE i \in Deliverable(pend) : \A j \in Deliverable(pend) : i <= j]

----------------------------------------------------------------------------
(* Traps *)

exception_target_privilege_level(e) ==
    IF privilege_level # PRIVILEGE_LEVEL_MACHINE /\ e \in medeleg
    THEN PRIVILEGE_LEVEL_SUPERVISOR
    ELSE PRIVILEGE_LEVEL_MACHINE

MmodeTrapLeavesMie(cause) ==
    /\ mcause' = cause
    /\ mepc' = pc
    /\ status' = [status EXCEPT !.mpp = privilege_level, !.mpie = status.mie]
    /\ privilege_level' = PRIVILEGE_LEVEL_MACHINE
    /\ pc' = mtvec
    /\ UNCHANGED sepc

setup_mmode_trap(cause) ==
    /\ mcause' = cause
    /\ mepc' = pc
    /\ status' = [status EXCEPT !.mpp = privilege_level,
                                !.mpie = status.mie, !.mie = FALSE]
    /\ privilege_level' = PRIVILEGE_LEVEL_MACHINE
    /\ pc' = mtvec
    /\ UNCHANGED sepc

\* spp is one bit wide.
setup_smode_trap(vector) ==
    /\ sepc' = pc
    /\ status' = [status EXCEPT !.spp = privilege_level % 2,
                                !.spie = status.sie, !.sie = FALSE]
    /\ privilege_level' = PRIVILEGE_LEVEL_SUPERVISOR
    /\ pc' = vector
    /\ UNCHANGED <<mepc, mcause>>

raise_trap_raw(target, cause, svector) ==
    IF target = PRIVILEGE_LEVEL_MACHINE
    THEN setup_mmode_trap(cause)
    ELSE setup_smode_trap(svector)

\* mret: adjust_mstatus_upon_mret, whose ASSERT admits three levels, and
\* adjust_pc_upon_mret.
mret ==
    /\ status.mpp \in {PRIVILEGE_LEVEL_USER, PRIVILEGE_LEVEL_SUPERVISOR,
                       PRIVILEGE_LEVEL_MACHINE}
    /\ privilege_level' = status.mpp
    /\ status' = [status EXCEPT !.mpp = PRIVILEGE_LEVEL_USER,
                                !.mie = status.mpie, !.mpie = TRUE]
    /\ pc' = mepc
    /\ UNCHANGED <<mepc, sepc, mcause>>

\* sret, from the status bits st.
sret(st, target) ==
    /\ privilege_level' = st.spp
    /\ status' = [st EXCEPT !.spp = PRIVILEGE_LEVEL_USER,
                            !.sie = st.spie, !.spie = TRUE]
    /\ pc' = target
    /\ UNCHANGED <<mepc, mcause>>

----------------------------------------------------------------------------
(* CSR instructions.  Each is one step: it reads the register, through its *)
(* mask, and writes it back.                                               *)

BitIf(b, bit) == IF b THEN {bit} ELSE {}

csr_sstatus_read ==
    BitIf(status.uie, "UIE") \cup BitIf(status.sie, "SIE") \cup BitIf(status.upie, "UPIE")
        \cup BitIf(status.spie, "SPIE") \cup BitIf(status.spp = 1, "SPP")

csr_mstatus_read ==
    csr_sstatus_read \cup BitIf(status.mie, "MIE") \cup BitIf(status.mpie, "MPIE")
        \cup BitIf(status.mpp % 2 = 1, "MPP0") \cup BitIf(status.mpp \div 2 = 1, "MPP1")

csr_sip_read == ipending \cap SupervisorInterrupts

\* The user's bits are there too, and are never set.
csr_sie_read == ienable \cap SupervisorInterrupts

csr_read(csr) ==
    CASE csr = "mip"     -> ipending
      [] csr = "sip"     -> csr_sip_read
      [] csr = "mie"     -> ienable
      [] csr = "sie"     -> csr_sie_read
      [] csr = "mideleg" -> idelegation
      [] csr = "medeleg" -> medeleg
      [] csr = "mstatus" -> csr_mstatus_read
      [] csr = "sstatus" -> csr_sstatus_read

\* 0xaaa, 0x222, 0xfffff7ff, 0x19aa and 0x133.
wpri_mask(csr) ==
    CASE csr \in {"mip", "mie"}            -> Interrupts
      [] csr \in {"sip", "sie", "mideleg"} -> SupervisorInterrupts
      [] csr = "medeleg" -> Exceptions \ {"ecall_m"}
      [] csr = "mstatus" -> {"SIE", "MIE", "SPIE", "MPIE", "SPP", "MPP0", "MPP1"}
      [] csr = "sstatus" -> {"UIE", "SIE", "UPIE", "SPIE", "SPP"}

value_to_read(csr) == csr_read(csr) \cap wpri_mask(csr)

\* riscv_generic_csr_callback: what csrrw, csrrs and csrrc hand to the register's
\* write callback.
csrrw(csr, value) == value \cap wpri_mask(csr)
csrrs(csr, bits)  == (value_to_read(csr) \cup bits) \cap wpri_mask(csr)
csrrc(csr, bits)  == (value_to_read(csr) \ bits) \cap wpri_mask(csr)

\* The machine's bits keep the value the devices gave them.
csr_mip_write(value) ==
    ipending' = (value \ MachineInterrupts) \cup (ipending \cap MachineInterrupts)

csr_mie_write(value) == ienable' = value

\* sie reaches the supervisor's bits only.
csr_sie_write(value) ==
    ienable' = (ienable \ SupervisorInterrupts) \cup (value \cap SupervisorInterrupts)

\* sip: only SSIP can be written.
csr_sip_write(value) ==
    ipending' = IF "SSI" \in value THEN ipending \cup {"SSI"} ELSE ipending \ {"SSI"}

csr_mideleg_write(value) == idelegation' = value

csr_medeleg_write(value) == medeleg' = value

\* A field whose bit is outside the mask becomes 0: uie and upie, always.
csr_mstatus_write(value) ==
    status' = [uie |-> "UIE" \in value, upie |-> "UPIE" \in value,
               sie |-> "SIE" \in value, spie |-> "SPIE" \in value,
               spp |-> IF "SPP" \in value THEN 1 ELSE 0,
               mie |-> "MIE" \in value, mpie |-> "MPIE" \in value,
               mpp |-> (IF "MPP0" \in value THEN 1 ELSE 0)
                         + (IF "MPP1" \in value THEN 2 ELSE 0)]

\* The machine's fields are left alone.
StatusAfterSstatus(value) ==
    [status EXCEPT !.uie = "UIE" \in value, !.upie = "UPIE" \in value,
                   !.sie = "SIE" \in value, !.spie = "SPIE" \in value,
                   !.spp = IF "SPP" \in value THEN 1 ELSE 0]

csr_sstatus_write(value) == status' = StatusAfterSstatus(value)

\* (A csrrw that takes the value to write after it has written rd.)
SwapWithoutCopy(rs1_reg) ==
    /\ sp' = mscratch
    /\ mscratch' = mscratch

\* csrrw sp, mscratch, sp: the value of sp is stored before rd is written.
SwapSpMscratch(rs1_reg) ==
    /\ sp' = mscratch
    /\ mscratch' = rs1_reg

----------------------------------------------------------------------------
\* hart_init: everything is zero, pc_on_reset is entry, and no interrupt is
\* enabled.  An exception cause of 0 is a misaligned fetch.
hart_init(entry, zero) ==
    /\ privilege_level = PRIVILEGE_LEVEL_MACHINE
    /\ status = [uie |-> FALSE, upie |-> FALSE, sie |-> FALSE, spie |-> FALSE, spp |-> 0,
                 mie |-> FALSE, mpie |-> FALSE, mpp |-> PRIVILEGE_LEVEL_USER]
    /\ ipending = {}
    /\ ienable = {}
    /\ idelegation = {}
    /\ medeleg = {}
    /\ pc = entry
    /\ mepc = zero /\ sepc = zero /\ mtvec = zero
    /\ mcause = "fault"
    /\ mscratch = 0
    /\ sp = 0
=============================================================================
