---------------------------- MODULE SbiFirmware ----------------------------
(***************************************************************************)
(* How a supervisor gets its timer and software interrupts: the machine    *)
(* mode firmware (bootrom/init.c, sbi.c, entry.S) from reset on, the CLINT *)
(* it alone programs, and the hart that delivers interrupts at translation *)
(* unit boundaries (hart_interrupt.c).  The firmware turns the machine     *)
(* timer interrupt into a supervisor timer interrupt and silences the      *)
(* former until the kernel sets a new deadline.                            *)
(*                                                                         *)
(* One step is one instruction that changes something here.  A CSR         *)
(* instruction, an ecall, a return or wfi ends its translation unit; a     *)
(* store to a device may or may not be the last of its unit.  The kernel   *)
(* and the user program are guest software and not part of the repository: *)
(* here they are any that handle their interrupts.                         *)
(***************************************************************************)
EXTENDS Hart, Clint, Integers

CONSTANTS
    GuestSps,     \* stack pointers of the kernel and the user program
    Deadlines,    \* what the kernel asks for
    MaxExternal   \* bound of the model: external interrupts that come in

ASSUME SbiAssumption ==
    /\ Deadlines \subseteq 0 .. MaxTime \cup {Forever}
    /\ MaxExternal \in Nat
    /\ GuestSps \subseteq Nat \ {0}

VARIABLES
    mode,        \* guest, or vmm at the end of a translation unit
    t0,          \* the register of the firmware's trap entry and return
    frame_sp,    \* regs[REG_SP] of the trap frame below the top of the firmware's stack
    external,    \* the interrupt controller's line for the supervisor
    nr_external, \* history: external interrupts so far
    deadline,    \* history: what the last sbi_set_timer was asked for
    fw_depth,    \* history: machine mode traps entered and not returned from
    interrupted  \* history: what the last machine mode trap interrupted

history_vars == <<nr_external, deadline, fw_depth, interrupted>>
device_vars == <<mtimecmp, msip, external>>
stack_vars == <<hart_stack_vars, t0, frame_sp>>
vars == <<trap_vars, ipending, ienable, setup_vars, stack_vars, clint_vars, mode, external,
          history_vars>>

(***************************************************************************)
(* A program counter is a place in the firmware, the kernel or the user    *)
(* program, with what the argument registers hold when it is at an ecall.  *)
(* The reset value of a CSR that holds an address is nowhere.              *)
(***************************************************************************)
BootPlaces == {"rom_entry", "boot_mtvec", "boot_mie", "boot_mip", "boot_medeleg",
               "boot_mideleg", "boot_mstatus", "boot_mepc", "boot_mscratch", "boot_mret"}
FirmwarePlaces == {"fw_trap_vector", "save_sp_1", "save_sp_2", "fw_trap_handler", "mti_1", "mti_2", "msi_1", "msi_2",
                   "set_timer_1", "set_timer_2", "set_timer_3", "set_timer_4",
                   "set_timer_5", "send_ipi", "clear_ipi", "skip_ecall", "fw_return",
                   "swap_back", "mret", "fw_fatal"}
KernelPlaces == {"boot", "run", "tick", "soft", "external", "syscall", "done"}
Calls == {"none", "set_timer", "send_ipi", "clear_ipi", "other"}

Pcs == [at : BootPlaces \cup FirmwarePlaces \cup KernelPlaces \cup {"user", "nowhere"},
        call : Calls, when : Deadlines \cup {0}]

At(place) == [at |-> place, call |-> "none", when |-> 0]

Booting == pc.at \in BootPlaces

\* Between a trap to machine mode and the mret that ends it.
InFirmware == pc.at \in FirmwarePlaces

\* The stack of the firmware, counted in trap frames: one below the top, if all is well.
FwStackTop == -1

\* The instruction behind an ecall of the kernel.
Next4(p) == IF p.at = "tick" THEN At("done") ELSE At(p.at)

\* Where the kernel's trap handler goes for a cause.
KernelHandler(cause) ==
    At(CASE cause = "STI" -> "tick"
         [] cause = "SSI" -> "soft"
         [] cause = "SEI" -> "external"
         [] OTHER -> "syscall")

\* A trap for cause to the level target.
Trap(target, cause) ==
    /\ raise_trap_raw(target, cause, KernelHandler(cause))
    /\ IF target = PRIVILEGE_LEVEL_MACHINE
       THEN /\ fw_depth' = fw_depth + 1
            /\ interrupted' = [pc |-> pc, privilege_level |-> privilege_level,
                               sie |-> status.sie, spie |-> status.spie,
                               spp |-> status.spp, sp |-> sp]
       ELSE UNCHANGED <<fw_depth, interrupted>>
    /\ mode' = "vmm"
    /\ UNCHANGED <<nr_external, deadline>>

----------------------------------------------------------------------------
(* The vmm *)

\* refresh_device_interrupts at time t: the hardware's bits are recomputed, the
\* others left alone.
RefreshedForgetful(t) ==
    clint_refresh_pending(t) \cup (IF external THEN {"SEI"} ELSE {})

Refreshed(t) ==
    (ipending \cap {"SSI", "STI"}) \cup clint_refresh_pending(t)
        \cup (IF external THEN {"SEI"} ELSE {})

\* pump_devices_and_deliver_interrupts, when it takes an interrupt: the trap
\* comes back to vmexit, and so to the pump.
PumpDelivers ==
    /\ mode = "vmm"
    /\ mtime' = clint_advance_time(mtime)
    /\ ipending' = Refreshed(mtime')
    /\ Deliverable(ipending') # {}
    /\ LET v == HighestDeliverable(ipending') IN
       Trap(interrupt_target_privilege_level(v), v)
    /\ UNCHANGED <<ienable, setup_vars, stack_vars, device_vars>>

PumpResumes ==
    /\ mode = "vmm"
    /\ mtime' = clint_advance_time(mtime)
    /\ ipending' = Refreshed(mtime')
    /\ Deliverable(ipending') = {}
    /\ mode' = "guest"
    /\ UNCHANGED <<trap_vars, ienable, setup_vars, stack_vars, device_vars, history_vars>>

\* A device asks the interrupt controller for the supervisor's attention.
DeviceRaises ==
    /\ mode = "vmm"
    /\ nr_external < MaxExternal
    /\ external' = TRUE
    /\ nr_external' = nr_external + 1
    /\ UNCHANGED <<trap_vars, ipending, ienable, setup_vars, stack_vars, clint_vars, mode,
                   deadline, fw_depth, interrupted>>

----------------------------------------------------------------------------
(* The firmware *)

FwAt(place) == mode = "guest" /\ pc.at = place

Goto(place) ==
    /\ pc' = At(place)
    /\ UNCHANGED <<privilege_level, status, mepc, sepc, mcause>>

\* The instruction ends the translation unit, or it may.
Ends == mode' = "vmm"
MayEnd == mode' \in {"guest", "vmm"}

\* rom_entry: the hart's slice of the stack.
RomEntry ==
    /\ FwAt("rom_entry")
    /\ sp' = FwStackTop
    /\ Goto("boot_mtvec")
    /\ MayEnd
    /\ UNCHANGED <<ipending, ienable, setup_vars, mscratch, t0, frame_sp, clint_vars,
                   external, history_vars>>

\* sbi_init.
sbi_init ==
    /\ \/ /\ FwAt("boot_mtvec")
          /\ mtvec' = At("fw_trap_vector")
          /\ Goto("boot_mie") /\ UNCHANGED <<ipending, ienable>>
       \/ /\ FwAt("boot_mie")
          /\ csr_mie_write(csrrw("mie", {"MSI"}))
          /\ Goto("boot_mip") /\ UNCHANGED <<ipending, mtvec>>
       \/ /\ FwAt("boot_mip")
          /\ csr_mip_write(csrrw("mip", {}))
          /\ Goto("boot_medeleg") /\ UNCHANGED <<ienable, mtvec>>
    /\ Ends
    /\ UNCHANGED <<idelegation, medeleg, stack_vars, clint_vars, external, history_vars>>

MEDELEG_TO_SUPERVISOR == Exceptions \ {"ecall_s", "ecall_m"}
MIDELEG_TO_SUPERVISOR == SupervisorInterrupts

\* fw_main behind sbi_init.
Delegates ==
    /\ \/ /\ FwAt("boot_medeleg")
          /\ csr_medeleg_write(csrrw("medeleg", MEDELEG_TO_SUPERVISOR))
          /\ Goto("boot_mideleg") /\ UNCHANGED idelegation
       \/ /\ FwAt("boot_mideleg")
          /\ csr_mideleg_write(csrrw("mideleg", MIDELEG_TO_SUPERVISOR))
          /\ Goto("boot_mstatus") /\ UNCHANGED medeleg
    /\ Ends
    /\ UNCHANGED <<ipending, ienable, mtvec, stack_vars, clint_vars, external, history_vars>>

\* The level to return to is put into the value that was read, then all is
\* written back.
SetsPreviousLevel ==
    /\ FwAt("boot_mstatus")
    /\ csr_mstatus_write(csrrw("mstatus",
           (value_to_read("mstatus") \ {"MPP0", "MPP1"}) \cup {"MPP0", "MPIE"}))
    /\ pc' = At("boot_mepc")
    /\ Ends
    /\ UNCHANGED <<privilege_level, mepc, sepc, mcause, ipending, ienable, setup_vars,
                   stack_vars, clint_vars, external, history_vars>>

\* enter_supervisor.
enter_supervisor ==
    /\ \/ /\ FwAt("boot_mepc")
          /\ mepc' = At("boot")
          /\ pc' = At("boot_mscratch")
          /\ UNCHANGED <<privilege_level, status, sepc, mcause, mscratch>>
       \/ /\ FwAt("boot_mscratch")
          /\ mscratch' = FwStackTop
          /\ Goto("boot_mret")
       \/ /\ FwAt("boot_mret")
          /\ mret
          /\ UNCHANGED mscratch
    /\ Ends
    /\ UNCHANGED <<sp, t0, frame_sp, ipending, ienable, setup_vars, clint_vars, external,
                   history_vars>>

Boots == RomEntry \/ sbi_init \/ Delegates \/ SetsPreviousLevel \/ enter_supervisor

\* fw_trap_vector up to the call: the stack is swapped in and a frame pushed; the
\* interrupted sp goes from mscratch to the frame.
TrapEntry ==
    /\ \/ /\ FwAt("fw_trap_vector")
          /\ SwapSpMscratch(sp)
          /\ Goto("save_sp_1") /\ UNCHANGED <<t0, frame_sp>>
       \/ /\ FwAt("save_sp_1")
          /\ sp' = sp - 1
          /\ t0' = mscratch
          /\ Goto("save_sp_2") /\ UNCHANGED <<mscratch, frame_sp>>
       \/ /\ FwAt("save_sp_2")
          /\ frame_sp' = t0
          /\ mscratch' = sp + 1
          /\ Goto("fw_trap_handler") /\ UNCHANGED <<t0, sp>>
    /\ Ends
    /\ UNCHANGED <<ipending, ienable, setup_vars, clint_vars, external, history_vars>>

\* fw_trap_vector behind the call.
TrapExit ==
    /\ \/ /\ FwAt("fw_return")
          /\ t0' = frame_sp
          /\ mscratch' = frame_sp
          /\ Goto("swap_back") /\ UNCHANGED <<sp, frame_sp>>
       \/ /\ FwAt("swap_back")
          /\ SwapSpMscratch(sp + 1)
          /\ Goto("mret") /\ UNCHANGED <<t0, frame_sp>>
    /\ Ends
    /\ UNCHANGED <<ipending, ienable, setup_vars, clint_vars, external, history_vars>>

\* fw_trap_handler and sbi_dispatch.  The calls that touch neither the timer
\* nor the software interrupt only answer in registers, or fence.
FirmwareDispatches ==
    /\ FwAt("fw_trap_handler")
    /\ Goto(CASE mcause = "MTI" -> "mti_1"
              [] mcause = "MSI" -> "msi_1"
              [] mcause = "ecall_s" /\ mepc.call = "set_timer" -> "set_timer_1"
              [] mcause = "ecall_s" /\ mepc.call = "send_ipi" -> "send_ipi"
              [] mcause = "ecall_s" /\ mepc.call = "clear_ipi" -> "clear_ipi"
              [] mcause = "ecall_s" /\ mepc.call = "other" -> "skip_ecall"
              [] OTHER -> "fw_fatal")
    /\ Ends
    /\ UNCHANGED <<ipending, ienable, setup_vars, stack_vars, clint_vars, external, history_vars>>

\* fw_handle_interrupt of the machine timer.
ForwardTick ==
    /\ \/ /\ FwAt("mti_1")
          /\ csr_mie_write(csrrc("mie", {"MTI"})) /\ UNCHANGED ipending
          /\ Goto("mti_2")
       \/ /\ FwAt("mti_2")
          /\ csr_mip_write(csrrs("mip", {"STI"})) /\ UNCHANGED ienable
          /\ Goto("fw_return")
    /\ Ends
    /\ UNCHANGED <<setup_vars, stack_vars, clint_vars, external, history_vars>>

\* fw_handle_interrupt of the machine software interrupt.
ForwardIpi ==
    /\ \/ /\ FwAt("msi_1")
          /\ WriteMsip(0) /\ UNCHANGED ipending
          /\ Goto("msi_2") /\ MayEnd
       \/ /\ FwAt("msi_2")
          /\ csr_mip_write(csrrs("mip", {"SSI"})) /\ UNCHANGED msip
          /\ Goto("fw_return") /\ Ends
    /\ UNCHANGED <<ienable, setup_vars, stack_vars, mtime, mtimecmp, external, history_vars>>

Next32(d) == d % Half
High32(d) == d \div Half

\* sbi_set_timer: the three stores to mtimecmp.
SetTimer ==
    /\ \/ FwAt("set_timer_1") /\ WriteMtimecmpHigh(Half - 1) /\ Goto("set_timer_2")
       \/ FwAt("set_timer_2") /\ WriteMtimecmpLow(Next32(mepc.when)) /\ Goto("set_timer_3")
       \/ FwAt("set_timer_3") /\ WriteMtimecmpHigh(High32(mepc.when)) /\ Goto("set_timer_4")
    /\ MayEnd
    /\ UNCHANGED <<ipending, ienable, setup_vars, stack_vars, mtime, msip, external, history_vars>>

SetTimerKeepsStip ==
    /\ FwAt("set_timer_4")
    /\ csr_mie_write(csrrs("mie", {"MTI"}))
    /\ deadline' = mepc.when
    /\ Goto("skip_ecall")
    /\ Ends
    /\ UNCHANGED <<ipending, setup_vars, stack_vars, clint_vars, external, nr_external,
                   fw_depth, interrupted>>

SetTimerStaysSilent ==
    /\ FwAt("set_timer_4")
    /\ csr_mip_write(csrrc("mip", {"STI"}))
    /\ deadline' = mepc.when
    /\ Goto("skip_ecall")
    /\ Ends
    /\ UNCHANGED <<ienable, setup_vars, stack_vars, clint_vars, external, nr_external,
                   fw_depth, interrupted>>

\* sbi_set_timer: the old tick is consumed and the machine timer enabled.
SetTimerCsrs ==
    /\ \/ /\ FwAt("set_timer_4")
          /\ csr_mip_write(csrrc("mip", {"STI"})) /\ UNCHANGED ienable
          /\ deadline' = mepc.when
          /\ Goto("set_timer_5")
       \/ /\ FwAt("set_timer_5")
          /\ csr_mie_write(csrrs("mie", {"MTI"})) /\ UNCHANGED <<ipending, deadline>>
          /\ Goto("skip_ecall")
    /\ Ends
    /\ UNCHANGED <<setup_vars, stack_vars, clint_vars, external, nr_external, fw_depth, interrupted>>

sbi_send_ipi ==
    /\ FwAt("send_ipi")
    /\ WriteMsip(1)
    /\ Goto("skip_ecall")
    /\ MayEnd
    /\ UNCHANGED <<ipending, ienable, setup_vars, stack_vars, mtime, mtimecmp, external, history_vars>>

\* SBI_EXT_LEGACY_CLEAR_IPI.
ClearIpi ==
    /\ FwAt("clear_ipi")
    /\ csr_mip_write(csrrc("mip", {"SSI"}))
    /\ Goto("skip_ecall")
    /\ Ends
    /\ UNCHANGED <<ienable, setup_vars, stack_vars, clint_vars, external, history_vars>>

RepeatEcall(p) == p

\* write_csr(mepc, read_csr(mepc) + 4)
AfterEcall(p) == Next4(p)

SkipEcall ==
    /\ FwAt("skip_ecall")
    /\ mepc' = AfterEcall(mepc)
    /\ pc' = At("fw_return")
    /\ Ends
    /\ UNCHANGED <<privilege_level, status, sepc, mcause, ipending, ienable,
                   setup_vars, stack_vars, clint_vars, external, history_vars>>

FirmwareReturns ==
    /\ FwAt("mret")
    /\ mret
    /\ fw_depth' = fw_depth - 1
    /\ Ends
    /\ UNCHANGED <<ipending, ienable, setup_vars, stack_vars, clint_vars, external, nr_external,
                   deadline, interrupted>>

Firmware ==
    \/ Boots
    \/ TrapEntry
    \/ TrapExit
    \/ FirmwareDispatches
    \/ ForwardTick
    \/ ForwardIpi
    \/ SetTimer
    \/ SetTimerCsrs
    \/ sbi_send_ipi
    \/ ClearIpi
    \/ SkipEcall
    \/ FirmwareReturns

----------------------------------------------------------------------------
(* The kernel and its user program *)

KernelAt(place) == mode = "guest" /\ pc = At(place)

\* The kernel sets up its stack and enables its three interrupts.
KernelBoots ==
    /\ KernelAt("boot")
    /\ sp' \in GuestSps
    /\ csr_sie_write(csrrs("sie", SupervisorInterrupts))
    /\ Goto("run")
    /\ Ends
    /\ UNCHANGED <<ipending, setup_vars, mscratch, t0, frame_sp, clint_vars, external, history_vars>>

\* The argument registers are loaded for an SBI call.
KernelPreparesCall ==
    /\ \/ /\ KernelAt("run")
          /\ \E c \in Calls \ {"none"}, d \in Deadlines : pc' = [at |-> "run", call |-> c, when |-> d]
       \/ /\ KernelAt("tick")
          /\ \E d \in Deadlines : pc' = [at |-> "tick", call |-> "set_timer", when |-> d]
    /\ MayEnd
    /\ UNCHANGED <<privilege_level, status, mepc, sepc, mcause, ipending, ienable,
                   setup_vars, stack_vars, clint_vars, external, history_vars>>

\* ecall_callback, in the kernel or in the user program.
Ecall(cause) ==
    /\ mode = "guest"
    /\ \/ cause = "ecall_s" /\ pc.call # "none"
       \/ cause = "ecall_u" /\ pc = At("user")
    /\ Trap(exception_target_privilege_level(cause), cause)
    /\ UNCHANGED <<ipending, ienable, setup_vars, stack_vars, clint_vars, external>>

KernelUnmasks ==
    /\ KernelAt("run")
    /\ csr_sstatus_write(csrrs("sstatus", {"SIE"}))
    /\ Ends
    /\ UNCHANGED <<privilege_level, pc, mepc, sepc, mcause, ipending, ienable,
                   setup_vars, stack_vars, clint_vars, external, history_vars>>

KernelMasks ==
    /\ KernelAt("run")
    /\ csr_sstatus_write(csrrc("sstatus", {"SIE"}))
    /\ Ends
    /\ UNCHANGED <<privilege_level, pc, mepc, sepc, mcause, ipending, ienable,
                   setup_vars, stack_vars, clint_vars, external, history_vars>>

\* The kernel, with its interrupts masked, starts the user program.
KernelStartsUser ==
    /\ KernelAt("run")
    /\ ~status.sie
    /\ sepc' = At("user")
    /\ sret(StatusAfterSstatus(csrrw("sstatus", {"SPIE"})), At("user"))
    /\ Ends
    /\ UNCHANGED <<ipending, ienable, setup_vars, stack_vars, clint_vars, external, history_vars>>

\* hart_idle: return at once if something enabled is pending, else the clock
\* jumps to the deadline.
KernelWaits ==
    /\ KernelAt("run")
    /\ IF Refreshed(mtime) \cap ienable # {}
       THEN UNCHANGED mtime
       ELSE mtime' = clint_skip_to_next_deadline(mtime)
    /\ ipending' = Refreshed(mtime')
    /\ Ends
    /\ UNCHANGED <<trap_vars, ienable, setup_vars, stack_vars, device_vars, history_vars>>

\* Something else, up to the end of a translation unit; the stack may
\* have grown, or another program may run.
GuestRuns ==
    /\ KernelAt("run") \/ KernelAt("user")
    /\ sp' \in GuestSps
    /\ Ends
    /\ UNCHANGED <<trap_vars, ipending, ienable, setup_vars, mscratch, t0, frame_sp, clint_vars, external,
                   history_vars>>

\* The handlers of the software and the external interrupt remove its cause.
KernelHandles ==
    /\ \/ KernelAt("soft") /\ csr_sip_write(csrrc("sip", {"SSI"})) /\ UNCHANGED external
       \/ KernelAt("external") /\ external' = FALSE /\ UNCHANGED ipending
       \/ KernelAt("syscall") /\ UNCHANGED <<external, ipending>>
    /\ Goto("done")
    /\ Ends
    /\ UNCHANGED <<ienable, setup_vars, stack_vars, clint_vars, history_vars>>

KernelReturns ==
    /\ KernelAt("done")
    /\ sret(status, sepc)
    /\ Ends
    /\ UNCHANGED <<sepc, ipending, ienable, setup_vars, stack_vars, clint_vars, external, history_vars>>

\* A system call that ends in the kernel's main loop.
KernelSchedules ==
    /\ KernelAt("syscall")
    /\ Goto("run")
    /\ Ends
    /\ UNCHANGED <<ipending, ienable, setup_vars, stack_vars, clint_vars, external, history_vars>>

Kernel ==
    \/ KernelBoots
    \/ KernelPreparesCall
    \/ \E c \in {"ecall_s", "ecall_u"} : Ecall(c)
    \/ KernelUnmasks
    \/ KernelMasks
    \/ KernelStartsUser
    \/ KernelWaits
    \/ GuestRuns
    \/ KernelHandles
    \/ KernelReturns
    \/ KernelSchedules

Init ==
    /\ clint_init
    /\ hart_init(At("rom_entry"), At("nowhere"))
    /\ t0 = 0
    /\ frame_sp = 0
    /\ mode = "vmm"
    /\ external = FALSE
    /\ nr_external = 0
    /\ deadline = Forever
    /\ fw_depth = 0
    /\ interrupted = [pc |-> At("boot"), privilege_level |-> 1, sie |-> FALSE,
                      spie |-> FALSE, spp |-> 0, sp |-> 0]

Next ==
    \/ PumpDelivers
    \/ PumpResumes
    \/ DeviceRaises
    \/ Firmware
    \/ Kernel

Spec == Init /\ [][Next]_vars

\* The emulator runs, and so does the guest; the kernel does not keep its
\* interrupts masked for ever.
FairSpec ==
    /\ Spec
    /\ WF_vars(PumpDelivers \/ PumpResumes)
    /\ WF_vars(Firmware)
    /\ WF_vars(Kernel)
    /\ SF_vars(KernelUnmasks)

----------------------------------------------------------------------------
(* Properties *)

\* Types; the comparator stays within 64 bits when its halves are written.
TypeOK ==
    /\ privilege_level \in {0, 1, 3}
    /\ status \in [uie : BOOLEAN, upie : BOOLEAN, sie : BOOLEAN, spie : BOOLEAN, spp : {0, 1},
                   mie : BOOLEAN, mpie : BOOLEAN, mpp : {0, 1, 3}]
    /\ ipending \subseteq Interrupts
    /\ ienable \subseteq Interrupts
    /\ idelegation \subseteq SupervisorInterrupts
    /\ medeleg \subseteq Exceptions
    /\ pc \in Pcs /\ mepc \in Pcs /\ sepc \in Pcs /\ mtvec \in Pcs
    /\ {sp, mscratch, t0, frame_sp} \subseteq GuestSps \cup {0, FwStackTop, FwStackTop - 1}
    /\ mcause \in Interrupts \cup Exceptions
    /\ mtime \in 0 .. MaxTime
    /\ mtimecmp \in 0 .. Forever
    /\ msip \in {0, 1}
    /\ mode \in {"guest", "vmm"}
    /\ external \in BOOLEAN
    /\ nr_external \in 0 .. MaxExternal
    /\ deadline \in Deadlines \cup {Forever}
    /\ fw_depth \in Nat
    /\ interrupted \in [pc : Pcs, privilege_level : {0, 1, 3}, sie : BOOLEAN,
                        spie : BOOLEAN, spp : {0, 1},
                        sp : GuestSps \cup {0, FwStackTop}]

\* The firmware is entered once at a time, always from the supervisor or the
\* user, and only for causes it handles: nothing interrupts it while it sets the
\* machine up or holds the one trap frame, and it never comes to fw_fatal.
FirmwareIsNotReentered ==
    /\ fw_depth = IF InFirmware THEN 1 ELSE 0
    /\ Booting \/ InFirmware <=> privilege_level = PRIVILEGE_LEVEL_MACHINE
    /\ pc.at # "fw_fatal"

\* Outside the firmware a deadline is never forgotten: either the comparator
\* holds it and the machine timer is enabled, or the tick is pending for the
\* supervisor.
TickIsNotLost ==
    ~InFirmware /\ deadline # Forever =>
        \/ mtimecmp = deadline /\ "MTI" \in ienable
        \/ "STI" \in ipending

\* The supervisor sees no tick before its deadline, although the comparator
\* is written in halves and the machine timer bit is recomputed only at
\* translation unit boundaries.
NoEarlyTick == "STI" \in ipending => mtime >= deadline

\* The firmware is invisible to what it interrupts: level, the supervisor's
\* status bits, the stack pointer and the place are as before, or past the ecall.
FirmwareIsTransparent ==
    [][ InFirmware /\ ~InFirmware' =>
          /\ privilege_level' = interrupted.privilege_level
          /\ status'.sie = interrupted.sie
          /\ status'.spie = interrupted.spie
          /\ status'.spp = interrupted.spp
          /\ sp' = interrupted.sp
          /\ pc' = IF mcause = "ecall_s" THEN Next4(interrupted.pc) ELSE interrupted.pc ]_vars

\* Every deadline ends in a timer interrupt of the kernel, or in a new deadline.
TickArrives ==
    (~InFirmware /\ deadline # Forever) ~> pc.at \in {"tick", "set_timer_1"}

\* Every ringing of the doorbell ends in a software interrupt of the kernel, or
\* the kernel takes it back.
IpiArrives == msip = 1 ~> pc.at \in {"soft", "clear_ipi"}
=============================================================================
