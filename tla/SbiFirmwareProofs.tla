-------------------------- MODULE SbiFirmwareProofs --------------------------
(***************************************************************************)
(* Proofs about the firmware, for clocks of any width and for any stack    *)
(* pointers and deadlines of the kernel.                                   *)
(*                                                                         *)
(* The properties hold outside the firmware, or on its way out.  The       *)
(* invariant says what holds at each place inside: what has been set up,   *)
(* where the interrupted stack pointer and program counter are kept, and   *)
(* how far the comparator has been written.  GuestPc is where the guest is *)
(* or will be resumed, so that facts about the guest carry over a trap.    *)
(***************************************************************************)
EXTENDS SbiFirmware, TLAPS

GuestPlaces == KernelPlaces \cup {"user"}
HandlerPlaces == {"tick", "soft", "external", "syscall", "done"}

LevelOf(place) ==
    IF place \in BootPlaces \cup FirmwarePlaces THEN PRIVILEGE_LEVEL_MACHINE
    ELSE IF place = "user" THEN PRIVILEGE_LEVEL_USER
    ELSE PRIVILEGE_LEVEL_SUPERVISOR

\* A place of the guest; arguments are loaded only where it makes a call.
IsGuestPc(p) ==
    /\ p \in Pcs
    /\ p.at \in GuestPlaces
    /\ p.call # "none" => p.at \in {"run", "tick"} /\ p.when \in Deadlines

GuestPc == IF InFirmware THEN mepc ELSE pc

Placed ==
    /\ pc.at # "nowhere"
    /\ Booting \/ InFirmware => pc.call = "none"
    /\ ~Booting => IsGuestPc(GuestPc)

Levels ==
    /\ privilege_level = LevelOf(pc.at)
    /\ InFirmware => status.mpp = LevelOf(mepc.at)
    /\ Booting \/ InFirmware => ~status.mie

\* The kernel's handlers run with interrupts masked and return to where they
\* came from.
KernelTraps ==
    /\ Booting => ~status.sie
    /\ ~Booting /\ GuestPc.at \in HandlerPlaces \cup {"boot"} => ~status.sie
    /\ ~Booting /\ GuestPc.at \in HandlerPlaces =>
           /\ IsGuestPc(sepc)
           /\ sepc.at \in {"run", "user"}
           /\ status.spp = LevelOf(sepc.at)

\* What the boot sequence has written by the time it reaches a place.
SetUp ==
    /\ pc.at \notin {"rom_entry", "boot_mtvec"} => mtvec = At("fw_trap_vector")
    /\ pc.at \in {"boot_mideleg", "boot_mstatus", "boot_mepc", "boot_mscratch", "boot_mret"}
         \/ ~Booting => medeleg = MEDELEG_TO_SUPERVISOR
    /\ pc.at \in {"boot_mstatus", "boot_mepc", "boot_mscratch", "boot_mret"}
         \/ ~Booting => idelegation = MIDELEG_TO_SUPERVISOR
    /\ pc.at \in {"boot_mepc", "boot_mscratch", "boot_mret"} =>
           status.mpp = PRIVILEGE_LEVEL_SUPERVISOR
    /\ pc.at \in {"boot_mscratch", "boot_mret"} => mepc = At("boot")
    /\ pc.at = "boot_mret" \/ ~(Booting \/ InFirmware) => mscratch = FwStackTop
    /\ ~InFirmware => sp \in GuestSps \cup {0, FwStackTop}
    /\ "MEI" \notin ienable
    /\ Booting => "MTI" \notin ienable /\ deadline = Forever

\* Where the interrupted stack pointer and the firmware's own are.
Frame ==
    InFirmware =>
        CASE pc.at = "fw_trap_vector" -> sp = interrupted.sp /\ mscratch = FwStackTop
          [] pc.at = "save_sp_1" -> sp = FwStackTop /\ mscratch = interrupted.sp
          [] pc.at = "save_sp_2" ->
                 sp = FwStackTop - 1 /\ mscratch = interrupted.sp /\ t0 = interrupted.sp
          [] pc.at = "swap_back" -> sp = FwStackTop - 1 /\ mscratch = interrupted.sp
          [] pc.at = "mret" -> sp = interrupted.sp /\ mscratch = FwStackTop
          [] OTHER ->
                 sp = FwStackTop - 1 /\ mscratch = FwStackTop /\ frame_sp = interrupted.sp

Entering == {"fw_trap_vector", "save_sp_1", "save_sp_2", "fw_trap_handler"}
Returning == {"fw_return", "swap_back", "mret"}
SettingTimer == {"set_timer_1", "set_timer_2", "set_timer_3", "set_timer_4", "set_timer_5"}

\* What the firmware keeps of what it interrupted, and why it runs.
Interrupted ==
    InFirmware =>
        /\ status.mpp = interrupted.privilege_level
        /\ status.sie = interrupted.sie
        /\ status.spie = interrupted.spie
        /\ status.spp = interrupted.spp
        /\ mepc = IF mcause = "ecall_s" /\ pc.at \in Returning
                  THEN Next4(interrupted.pc) ELSE interrupted.pc
        /\ pc.at \in Entering => mcause \in {"MTI", "MSI", "ecall_s"}
        /\ pc.at \notin Returning /\ mcause = "ecall_s" => mepc.call # "none"
        /\ pc.at \in {"mti_1", "mti_2"} => mcause = "MTI"
        /\ pc.at \in SettingTimer => mepc.call = "set_timer"
        /\ pc.at \in SettingTimer \cup {"send_ipi", "clear_ipi", "skip_ecall"} =>
               mcause = "ecall_s"
        /\ pc.at \in {"msi_1", "msi_2"} => mcause = "MSI"

\* How far the comparator is written.
Comparator ==
    /\ pc.at \notin {"set_timer_2", "set_timer_3", "set_timer_4"} =>
           /\ mtimecmp \in Deadlines \cup {Forever}
           /\ "MTI" \in ienable => mtimecmp = deadline
    /\ pc.at = "set_timer_3" => mtimecmp % Half = Next32(mepc.when)
    /\ pc.at = "set_timer_4" => mtimecmp = mepc.when
    /\ pc.at = "set_timer_5" => mtimecmp = deadline

\* The tick is forwarded only when it is due, and not forgotten in between.
Tick ==
    /\ InFirmware /\ mcause = "MTI" => mtime >= deadline
    /\ pc.at \notin {"mti_2", "set_timer_2", "set_timer_3", "set_timer_4", "set_timer_5"}
         /\ deadline # Forever =>
           (mtimecmp = deadline /\ "MTI" \in ienable) \/ "STI" \in ipending

SbiInv ==
    /\ TypeOK
    /\ FirmwareIsNotReentered
    /\ NoEarlyTick
    /\ Placed
    /\ Levels
    /\ KernelTraps
    /\ SetUp
    /\ Frame
    /\ Interrupted
    /\ Comparator
    /\ Tick

----------------------------------------------------------------------------
(* Numbers and registers *)

\* A number is put together from its halves, and they are read back.
LEMMA Halves ==
    ASSUME NEW h \in Nat \ {0}, NEW q \in Nat, NEW r \in 0 .. h - 1
    PROVE  /\ q * h + r \in Nat
           /\ (q * h + r) \div h = q
           /\ (q * h + r) % h = r
<1>1. q * h \in Nat
  OBVIOUS
<1> DEFINE x == q * h + r
<1>2. x \in Nat /\ x \div h \in Nat /\ x % h \in 0 .. h - 1
  BY <1>1
<1>3. x = h * (x \div h) + (x % h)
  BY <1>2
<1> QED BY <1>1, <1>2, <1>3

\* A number below the square is made of two halves.
LEMMA HalvesOf ==
    ASSUME NEW h \in Nat \ {0}, NEW x \in 0 .. h * h - 1
    PROVE  /\ x \div h \in 0 .. h - 1
           /\ x % h \in 0 .. h - 1
           /\ x = (x \div h) * h + (x % h)
<1>1. h * h \in Nat
  OBVIOUS
<1>2. x \in Nat /\ x \div h \in Nat /\ x % h \in 0 .. h - 1
  BY <1>1
<1>3. x = h * (x \div h) + (x % h)
  BY <1>2
<1>4. x \div h < h
  BY <1>1, <1>2, <1>3
<1> QED BY <1>2, <1>3, <1>4

\* Two halves make a number below the square.
LEMMA HalvesFit ==
    ASSUME NEW h \in Nat \ {0}, NEW q \in 0 .. h - 1, NEW r \in 0 .. h - 1
    PROVE  q * h + r \in 0 .. h * h - 1
<1>1. q * h <= (h - 1) * h
  OBVIOUS
<1>2. (h - 1) * h = h * h - h
  OBVIOUS
<1>3. q * h \in Nat /\ h * h \in Nat
  OBVIOUS
<1> QED BY <1>1, <1>2, <1>3

\* What the CSR instructions of the firmware and the kernel make of mie and sie.
LEMMA EnableCsrs ==
    ASSUME TypeOK
    PROVE  /\ csrrw("mie", {"MSI"}) = {"MSI"}
           /\ csrrc("mie", {"MTI"}) = ienable \ {"MTI"}
           /\ csrrs("mie", {"MTI"}) = ienable \cup {"MTI"}
           /\ csrrs("sie", SupervisorInterrupts) = SupervisorInterrupts
<1>1. wpri_mask("mie") = Interrupts /\ wpri_mask("sie") = SupervisorInterrupts
  BY DEF wpri_mask
<1>2. csr_read("mie") = ienable /\ csr_read("sie") = csr_sie_read
  BY DEF csr_read
<1>3. ienable \subseteq Interrupts
  BY DEF TypeOK
<1>4. "MSI" \in Interrupts /\ "MTI" \in Interrupts
  BY DEF Interrupts, MachineInterrupts
<1> QED BY <1>1, <1>2, <1>3, <1>4 DEF csrrw, csrrc, csrrs, value_to_read, csr_sie_read

\* The same of mip and sip.
LEMMA PendingCsrs ==
    ASSUME TypeOK
    PROVE  /\ csrrw("mip", {}) = {}
           /\ \A x \in SupervisorInterrupts : /\ csrrs("mip", {x}) = ipending \cup {x}
                                              /\ csrrc("mip", {x}) = ipending \ {x}
           /\ "SSI" \notin csrrc("sip", {"SSI"})
<1>1. wpri_mask("mip") = Interrupts /\ wpri_mask("sip") = SupervisorInterrupts
  BY DEF wpri_mask
<1>2. csr_read("mip") = ipending
  BY DEF csr_read
<1>3. ipending \subseteq Interrupts /\ SupervisorInterrupts \subseteq Interrupts
  BY DEF TypeOK, Interrupts
<1> QED BY <1>1, <1>2, <1>3 DEF csrrw, csrrc, csrrs, value_to_read

\* The same of the delegation registers.
LEMMA DelegationCsrs ==
    /\ csrrw("medeleg", MEDELEG_TO_SUPERVISOR) = MEDELEG_TO_SUPERVISOR
    /\ csrrw("mideleg", MIDELEG_TO_SUPERVISOR) = MIDELEG_TO_SUPERVISOR
<1>1. wpri_mask("medeleg") = Exceptions \ {"ecall_m"}
  BY DEF wpri_mask
<1>2. wpri_mask("mideleg") = SupervisorInterrupts
  BY DEF wpri_mask
<1> QED BY <1>1, <1>2 DEF csrrw, MEDELEG_TO_SUPERVISOR, MIDELEG_TO_SUPERVISOR

\* What fw_main writes to mstatus: the previous level becomes the supervisor, and
\* interrupts stay as they are.
LEMMA BootStatus ==
    ASSUME TypeOK, ~status.mie, ~status.sie,
           csr_mstatus_write(csrrw("mstatus",
               (value_to_read("mstatus") \ {"MPP0", "MPP1"}) \cup {"MPP0", "MPIE"}))
    PROVE  /\ status' \in [uie : BOOLEAN, upie : BOOLEAN, sie : BOOLEAN, spie : BOOLEAN,
                           spp : {0, 1}, mie : BOOLEAN, mpie : BOOLEAN, mpp : {0, 1, 3}]
           /\ ~status'.mie /\ ~status'.sie
           /\ status'.mpp = PRIVILEGE_LEVEL_SUPERVISOR
<1> DEFINE v == csrrw("mstatus",
                    (value_to_read("mstatus") \ {"MPP0", "MPP1"}) \cup {"MPP0", "MPIE"})
<1>1. wpri_mask("mstatus") = {"SIE", "MIE", "SPIE", "MPIE", "SPP", "MPP0", "MPP1"}
  BY DEF wpri_mask
<1>2. csr_read("mstatus") = csr_mstatus_read
  BY DEF csr_read
<1>3. "MIE" \notin csr_mstatus_read /\ "SIE" \notin csr_mstatus_read
  BY DEF csr_mstatus_read, csr_sstatus_read, BitIf
<1>4. "MIE" \notin v /\ "SIE" \notin v /\ "MPP0" \in v /\ "MPP1" \notin v
  BY <1>1, <1>2, <1>3 DEF csrrw, value_to_read
<1>5. csr_mstatus_write(v)
  OBVIOUS
<1> HIDE DEF v
<1>6. status' = [uie |-> "UIE" \in v, upie |-> "UPIE" \in v,
                 sie |-> FALSE, spie |-> "SPIE" \in v,
                 spp |-> IF "SPP" \in v THEN 1 ELSE 0,
                 mie |-> FALSE, mpie |-> "MPIE" \in v, mpp |-> 1]
  <2>1. (IF "MPP0" \in v THEN 1 ELSE 0) + (IF "MPP1" \in v THEN 2 ELSE 0) = 1
    BY <1>4
  <2>2. ("SIE" \in v) = FALSE /\ ("MIE" \in v) = FALSE
    BY <1>4
  <2> QED BY <1>5, <2>1, <2>2, Zenon DEF csr_mstatus_write
<1> QED BY <1>6 DEF PRIVILEGE_LEVEL_SUPERVISOR

----------------------------------------------------------------------------
(* Interrupts *)

\* The search over delivery_order ends at an interrupt that can be delivered.
LEMMA HighestIsDeliverable ==
    ASSUME NEW pend, Deliverable(pend) # {}
    PROVE  /\ HighestDeliverable(pend) \in Interrupts
           /\ is_interrupt_deliverable(HighestDeliverable(pend), pend)
<1> DEFINE D == Deliverable(pend)
<1>1. D \subseteq 1 .. 6 /\ D # {}
  BY DEF Deliverable
<1>2. \A i \in D : is_interrupt_deliverable(delivery_order[i], pend)
  BY DEF Deliverable
<1>3. HighestDeliverable(pend) = delivery_order[CHOOSE i \in D : \A j \in D : i <= j]
  BY DEF HighestDeliverable
<1> HIDE DEF D
<1>4. \E i \in D : \A j \in D : i <= j
  <2>1. \A j \in D : j = 1 \/ j = 2 \/ j = 3 \/ j = 4 \/ j = 5 \/ j = 6
    BY <1>1
  <2> DEFINE First(i) == i \in D /\ \A j \in D : i <= j
  <2>2. 1 \in D => First(1)
    BY <2>1
  <2>3. 2 \in D /\ 1 \notin D => First(2)
    BY <2>1
  <2>4. 3 \in D /\ 1 \notin D /\ 2 \notin D => First(3)
    BY <2>1
  <2>5. 4 \in D /\ 1 \notin D /\ 2 \notin D /\ 3 \notin D => First(4)
    BY <2>1
  <2>6. 5 \in D /\ 1 \notin D /\ 2 \notin D /\ 3 \notin D /\ 4 \notin D => First(5)
    BY <2>1
  <2>7. 6 \in D /\ 1 \notin D /\ 2 \notin D /\ 3 \notin D /\ 4 \notin D /\ 5 \notin D => First(6)
    BY <2>1
  <2>8. \E i : First(i)
    <3> HIDE DEF First
    <3> QED BY <1>1, <2>1, <2>2, <2>3, <2>4, <2>5, <2>6, <2>7
  <2> QED BY <2>8
<1>5. PICK i \in D : HighestDeliverable(pend) = delivery_order[i]
  BY <1>3, <1>4
<1>6. delivery_order[i] \in Interrupts
  BY <1>1 DEF delivery_order, Interrupts, MachineInterrupts, SupervisorInterrupts
<1> QED BY <1>2, <1>5, <1>6

\* Nothing interrupts machine mode: the firmware never enables interrupts there.
LEMMA MachineIsMasked ==
    ASSUME NEW pend, Levels, Booting \/ InFirmware
    PROVE  Deliverable(pend) = {}
<1>1. privilege_level = 3 /\ ~status.mie
  BY DEF Levels, LevelOf, Booting, InFirmware, PRIVILEGE_LEVEL_MACHINE
<1>2. \A v : ~is_interrupt_deliverable(v, pend)
  BY <1>1 DEF is_interrupt_deliverable, interrupt_target_privilege_level,
     PRIVILEGE_LEVEL_MACHINE, PRIVILEGE_LEVEL_SUPERVISOR
<1> QED BY <1>2 DEF Deliverable

\* At machine level only the timer and the software interrupt are taken, at
\* supervisor level those of the supervisor, where the kernel does not mask them.
LEMMA WhatIsDelivered ==
    ASSUME SbiInv, ~Booting, ~InFirmware, NEW pend, NEW v \in Interrupts,
           is_interrupt_deliverable(v, pend)
    PROVE  /\ v \in pend /\ v \in ienable
           /\ interrupt_target_privilege_level(v) = PRIVILEGE_LEVEL_MACHINE
                => v \in {"MSI", "MTI"}
           /\ interrupt_target_privilege_level(v) # PRIVILEGE_LEVEL_MACHINE =>
                /\ interrupt_target_privilege_level(v) = PRIVILEGE_LEVEL_SUPERVISOR
                /\ v \in SupervisorInterrupts
                /\ pc.at \in {"run", "user"}
<1>1. v \in pend /\ v \in ienable
  BY DEF is_interrupt_deliverable
<1>2. idelegation = SupervisorInterrupts /\ "MEI" \notin ienable
  BY DEF SbiInv, SetUp, MIDELEG_TO_SUPERVISOR
<1>3. CASE v \in SupervisorInterrupts
  <2>1. interrupt_target_privilege_level(v) = PRIVILEGE_LEVEL_SUPERVISOR
    BY <1>2, <1>3 DEF interrupt_target_privilege_level
  <2>2. privilege_level < 1 \/ (privilege_level = 1 /\ status.sie)
    BY <2>1 DEF is_interrupt_deliverable, PRIVILEGE_LEVEL_SUPERVISOR, PRIVILEGE_LEVEL_MACHINE
  <2>3. /\ privilege_level = LevelOf(pc.at) /\ pc.at \in GuestPlaces
        /\ pc.at \in HandlerPlaces \cup {"boot"} => ~status.sie
    BY DEF SbiInv, Levels, Placed, IsGuestPc, GuestPc, KernelTraps
  <2>4. pc.at \in {"run", "user"}
    BY <2>2, <2>3 DEF LevelOf, GuestPlaces, KernelPlaces, HandlerPlaces, BootPlaces,
       FirmwarePlaces, PRIVILEGE_LEVEL_MACHINE, PRIVILEGE_LEVEL_USER, PRIVILEGE_LEVEL_SUPERVISOR
  <2> QED BY <1>1, <1>3, <2>1, <2>4 DEF PRIVILEGE_LEVEL_MACHINE, PRIVILEGE_LEVEL_SUPERVISOR
<1>4. CASE v \notin SupervisorInterrupts
  <2>1. interrupt_target_privilege_level(v) = PRIVILEGE_LEVEL_MACHINE
    BY <1>2, <1>4 DEF interrupt_target_privilege_level
  <2>2. v \in {"MSI", "MTI"}
    BY <1>1, <1>2, <1>4 DEF Interrupts, MachineInterrupts
  <2> QED BY <1>1, <2>1, <2>2
<1> QED BY <1>3, <1>4

----------------------------------------------------------------------------
(* The steps of the firmware *)

\* Machine state at reset.
LEMMA SbiInit == Init => SbiInv
<1> SUFFICES ASSUME Init PROVE SbiInv
  OBVIOUS
<1>1. /\ privilege_level = 3
      /\ status = [uie |-> FALSE, upie |-> FALSE, sie |-> FALSE, spie |-> FALSE, spp |-> 0,
                   mie |-> FALSE, mpie |-> FALSE, mpp |-> 0]
      /\ ipending = {} /\ ienable = {} /\ idelegation = {} /\ medeleg = {}
      /\ pc = At("rom_entry") /\ mcause = "fault" /\ mscratch = 0 /\ sp = 0
      /\ mepc = At("nowhere") /\ sepc = At("nowhere") /\ mtvec = At("nowhere")
      /\ mtime = 0 /\ mtimecmp = Forever /\ msip = 0
      /\ t0 = 0 /\ frame_sp = 0 /\ mode = "vmm" /\ external = FALSE
      /\ nr_external = 0 /\ deadline = Forever /\ fw_depth = 0
  BY DEF Init, hart_init, clint_init, PRIVILEGE_LEVEL_MACHINE, PRIVILEGE_LEVEL_USER
<1>2. \A place \in BootPlaces \cup {"boot", "nowhere"} : At(place) \in Pcs
  BY DEF At, Pcs, Calls, KernelPlaces
<1>3. pc.at = "rom_entry" /\ pc.call = "none" /\ Booting /\ ~InFirmware
  BY <1>1 DEF At, Booting, InFirmware, BootPlaces, FirmwarePlaces
<1>4. Forever \in Nat /\ MaxTime \in Nat /\ MaxTime < Forever
  BY ClintAssumption DEF Forever
<1>5. interrupted \in [pc : Pcs, privilege_level : {0, 1, 3}, sie : BOOLEAN,
                        spie : BOOLEAN, spp : {0, 1}, sp : GuestSps \cup {0, FwStackTop}]
  BY <1>2 DEF Init
<1>6. TypeOK
  <2>1. status \in [uie : BOOLEAN, upie : BOOLEAN, sie : BOOLEAN, spie : BOOLEAN, spp : {0, 1},
                    mie : BOOLEAN, mpie : BOOLEAN, mpp : {0, 1, 3}]
    BY <1>1
  <2>2. pc \in Pcs /\ mepc \in Pcs /\ sepc \in Pcs /\ mtvec \in Pcs
    BY <1>1, <1>2 DEF BootPlaces
  <2>3. /\ mtime \in 0 .. MaxTime /\ mtimecmp \in 0 .. Forever /\ nr_external \in 0 .. MaxExternal
        /\ fw_depth \in Nat
    BY <1>1, <1>4, SbiAssumption
  <2> QED BY <1>1, <1>5, <2>1, <2>2, <2>3 DEF TypeOK, Exceptions
<1> QED BY <1>1, <1>3, <1>6 DEF SbiInv, FirmwareIsNotReentered, NoEarlyTick, Placed,
     Levels, LevelOf, KernelTraps, SetUp, Frame, Interrupted, Comparator, Tick, BootPlaces,
     PRIVILEGE_LEVEL_MACHINE

\* The firmware goes from one of its places to another.
LEMMA FirmwareGoto ==
    ASSUME SbiInv, InFirmware, NEW place \in FirmwarePlaces \ {"fw_fatal"}, Goto(place),
           fw_depth' = fw_depth
    PROVE  /\ pc' \in Pcs /\ pc'.at = place /\ InFirmware' /\ ~Booting
           /\ FirmwareIsNotReentered' /\ Placed' /\ Levels' /\ KernelTraps'
<1>1. /\ pc' = At(place) /\ privilege_level' = privilege_level /\ status' = status
      /\ mepc' = mepc /\ sepc' = sepc /\ mcause' = mcause
  BY DEF Goto
<1>2. pc' \in Pcs /\ pc'.at = place /\ pc'.call = "none"
  BY <1>1 DEF At, Pcs, Calls
<1>3. InFirmware' /\ ~Booting /\ ~Booting' /\ place # "nowhere"
  BY <1>2 DEF InFirmware, Booting, BootPlaces, FirmwarePlaces
<1>4. fw_depth = 1 /\ privilege_level = PRIVILEGE_LEVEL_MACHINE
  BY DEF SbiInv, FirmwareIsNotReentered
<1>5. FirmwareIsNotReentered'
  BY <1>1, <1>2, <1>3, <1>4 DEF FirmwareIsNotReentered
<1>6. GuestPc' = GuestPc
  BY <1>1, <1>3 DEF GuestPc
<1>7. Placed'
  BY <1>2, <1>3, <1>6 DEF SbiInv, Placed, IsGuestPc
<1>8. Levels'
  BY <1>1, <1>2, <1>3, <1>4 DEF SbiInv, Levels, LevelOf
<1>9. KernelTraps'
  BY <1>1, <1>3, <1>6 DEF SbiInv, KernelTraps, IsGuestPc
<1> QED BY <1>2, <1>3, <1>5, <1>7, <1>8, <1>9

TimerPlaces == {"mti_2", "set_timer_2", "set_timer_3", "set_timer_4", "set_timer_5"}

\* Steps that leave the comparator, the deadline and the tick alone while the
\* clock may go on.
LEMMA TimerKept ==
    ASSUME SbiInv, pc.at \notin TimerPlaces, pc'.at \notin TimerPlaces,
           mtimecmp' = mtimecmp, deadline' = deadline, mtime' \in Nat, mtime' >= mtime,
           "MTI" \in ienable' <=> "MTI" \in ienable,
           "STI" \in ipending' <=> "STI" \in ipending,
           InFirmware' /\ mcause' = "MTI" =>
               (InFirmware /\ mcause = "MTI") \/ mtime' >= deadline
    PROVE  Comparator' /\ Tick' /\ NoEarlyTick'
<1>1. mtime \in Nat /\ deadline \in Nat
  BY ClintAssumption, SbiAssumption DEF SbiInv, TypeOK, Forever
<1>2. mtime >= deadline => mtime' >= deadline
  BY <1>1
<1>3. Comparator'
  BY DEF SbiInv, Comparator, TimerPlaces, Forever
<1>4. Tick'
  BY <1>2 DEF SbiInv, Tick, TimerPlaces, Forever
<1>5. NoEarlyTick'
  BY <1>2 DEF SbiInv, NoEarlyTick
<1> QED BY <1>3, <1>4, <1>5

\* The places where the frame holds the interrupted stack pointer.
FramePlaces == FirmwarePlaces \ {"fw_trap_vector", "save_sp_1", "save_sp_2", "swap_back", "mret"}

\* Steps between these places leave the stack alone.
LEMMA FrameKept ==
    ASSUME SbiInv, pc.at \in FramePlaces, pc'.at \in FramePlaces,
           UNCHANGED stack_vars, interrupted' = interrupted
    PROVE  /\ Frame'
           /\ {sp', mscratch', t0', frame_sp'} \subseteq
                  GuestSps \cup {0, FwStackTop, FwStackTop - 1}
<1>1. InFirmware
  BY DEF InFirmware, FramePlaces
<1>2. sp' = sp /\ mscratch' = mscratch /\ t0' = t0 /\ frame_sp' = frame_sp
  BY DEF stack_vars, hart_stack_vars
<1>3. sp = FwStackTop - 1 /\ mscratch = FwStackTop /\ frame_sp = interrupted.sp
  BY <1>1 DEF SbiInv, Frame, FramePlaces
<1>4. Frame'
  BY <1>2, <1>3 DEF Frame, FramePlaces, FwStackTop
<1> QED BY <1>2, <1>4 DEF SbiInv, TypeOK, FwStackTop

\* What is left to show of a step of the firmware.
LEMMA FirmwareStep ==
    ASSUME SbiInv, InFirmware, NEW place \in FirmwarePlaces \ {"fw_fatal"}, Goto(place),
           UNCHANGED <<setup_vars, external, nr_external, fw_depth, interrupted, mtime>>,
           {sp', mscratch', t0', frame_sp'} \subseteq GuestSps \cup {0, FwStackTop, FwStackTop - 1},
           ienable' \subseteq Interrupts \ {"MEI"}, ipending' \subseteq Interrupts,
           mtimecmp' \in 0 .. Forever, msip' \in {0, 1}, mode' \in {"guest", "vmm"},
           deadline' \in Deadlines \cup {Forever},
           Frame', Interrupted', Comparator', Tick', NoEarlyTick'
    PROVE  SbiInv'
<1>1. /\ pc' \in Pcs /\ pc'.at = place /\ InFirmware' /\ ~Booting
      /\ FirmwareIsNotReentered' /\ Placed' /\ Levels' /\ KernelTraps'
  BY FirmwareGoto
<1>2. /\ privilege_level' = privilege_level /\ status' = status
      /\ mepc' = mepc /\ sepc' = sepc /\ mcause' = mcause
      /\ idelegation' = idelegation /\ medeleg' = medeleg /\ mtvec' = mtvec
      /\ external' = external /\ nr_external' = nr_external /\ fw_depth' = fw_depth
      /\ interrupted' = interrupted /\ mtime' = mtime
  BY DEF Goto, setup_vars
<1>3. TypeOK'
  BY <1>1, <1>2 DEF SbiInv, TypeOK, FwStackTop, Forever
<1>4. SetUp'
  <2>1. ~Booting' /\ place \notin BootPlaces
    BY <1>1 DEF Booting, BootPlaces, FirmwarePlaces
  <2>2. pc.at \notin {"rom_entry", "boot_mtvec"}
    BY <1>1 DEF Booting, BootPlaces
  <2> QED BY <1>1, <1>2, <2>1, <2>2 DEF SbiInv, SetUp, BootPlaces, At,
       MEDELEG_TO_SUPERVISOR, MIDELEG_TO_SUPERVISOR
<1> QED BY <1>1, <1>3, <1>4 DEF SbiInv

\* What the types say of a state, for the steps that follow.
LEMMA Typed ==
    ASSUME SbiInv
    PROVE  /\ ienable \subseteq Interrupts \ {"MEI"} /\ ipending \subseteq Interrupts
           /\ mtime \in Nat /\ mtimecmp \in 0 .. Forever /\ msip \in {0, 1}
           /\ deadline \in Deadlines \cup {Forever} /\ deadline \in Nat
           /\ {sp, mscratch, t0, frame_sp} \subseteq GuestSps \cup {0, FwStackTop, FwStackTop - 1}
           /\ interrupted.sp \in GuestSps \cup {0, FwStackTop}
  BY ClintAssumption, SbiAssumption DEF SbiInv, TypeOK, SetUp, Forever

LEMMA TrapEntryStep == ASSUME SbiInv, TrapEntry PROVE SbiInv'
<1>1. /\ pc.at \in {"fw_trap_vector", "save_sp_1", "save_sp_2"} /\ InFirmware
      /\ mode' = "vmm" /\ mtimecmp' = mtimecmp /\ mtime' = mtime /\ msip' = msip
      /\ ienable' = ienable /\ ipending' = ipending /\ deadline' = deadline
      /\ UNCHANGED <<setup_vars, external, nr_external, fw_depth, interrupted, mtime>>
  BY DEF TrapEntry, FwAt, Ends, clint_vars, history_vars, InFirmware, FirmwarePlaces
<1>2. ASSUME NEW place \in {"save_sp_1", "save_sp_2", "fw_trap_handler"}, Goto(place),
             Frame',
             {sp', mscratch', t0', frame_sp'} \subseteq
                 GuestSps \cup {0, FwStackTop, FwStackTop - 1}
      PROVE  SbiInv'
  <2>1. place \in FirmwarePlaces \ {"fw_fatal"}
    BY DEF FirmwarePlaces
  <2>2. pc'.at = place
    BY <1>2 DEF Goto, At
  <2>3. /\ status' = status /\ mepc' = mepc /\ mcause' = mcause /\ interrupted' = interrupted
    BY <1>1, <1>2 DEF Goto
  <2>4. Interrupted'
    BY <1>1, <2>2, <2>3 DEF SbiInv, Interrupted, Entering, Returning, SettingTimer, Next4, At
  <2>5. Comparator' /\ Tick' /\ NoEarlyTick'
    BY <1>1, <2>2, <2>3, Typed, TimerKept DEF TimerPlaces
  <2> QED BY <1>1, <1>2, <2>1, <2>4, <2>5, FirmwareStep, Typed
<1>3. CASE FwAt("fw_trap_vector")
  <2>1. /\ sp' = mscratch /\ mscratch' = sp /\ t0' = t0 /\ frame_sp' = frame_sp
        /\ Goto("save_sp_1") /\ pc'.at = "save_sp_1"
    BY <1>3 DEF TrapEntry, FwAt, SwapSpMscratch, Goto, At
  <2>2. sp = interrupted.sp /\ mscratch = FwStackTop
    BY <1>1, <1>3 DEF SbiInv, Frame, FwAt
  <2>3. Frame'
    BY <1>1, <2>1, <2>2 DEF Frame, FwStackTop
  <2> QED BY <1>2, <2>1, <2>3, Typed
<1>4. CASE FwAt("save_sp_1")
  <2>1. /\ sp' = sp - 1 /\ mscratch' = mscratch /\ t0' = mscratch /\ frame_sp' = frame_sp
        /\ Goto("save_sp_2") /\ pc'.at = "save_sp_2"
    BY <1>4 DEF TrapEntry, FwAt, Goto, At
  <2>2. sp = FwStackTop /\ mscratch = interrupted.sp
    BY <1>1, <1>4 DEF SbiInv, Frame, FwAt
  <2>3. Frame'
    BY <1>1, <2>1, <2>2 DEF Frame, FwStackTop
  <2> QED BY <1>2, <2>1, <2>2, <2>3, Typed DEF FwStackTop
<1>5. CASE FwAt("save_sp_2")
  <2>1. /\ sp' = sp /\ mscratch' = sp + 1 /\ t0' = t0 /\ frame_sp' = t0
        /\ Goto("fw_trap_handler") /\ pc'.at = "fw_trap_handler"
    BY <1>5 DEF TrapEntry, FwAt, Goto, At
  <2>2. sp = FwStackTop - 1 /\ t0 = interrupted.sp
    BY <1>1, <1>5 DEF SbiInv, Frame, FwAt
  <2>3. Frame'
    BY <1>1, <2>1, <2>2 DEF Frame, FwStackTop
  <2> QED BY <1>2, <2>1, <2>2, <2>3, Typed DEF FwStackTop
<1> QED BY <1>3, <1>4, <1>5 DEF TrapEntry

LEMMA TrapExitStep == ASSUME SbiInv, TrapExit PROVE SbiInv'
<1>1. /\ pc.at \in {"fw_return", "swap_back"} /\ InFirmware
      /\ mode' = "vmm" /\ mtimecmp' = mtimecmp /\ mtime' = mtime /\ msip' = msip
      /\ ienable' = ienable /\ ipending' = ipending /\ deadline' = deadline
      /\ UNCHANGED <<setup_vars, external, nr_external, fw_depth, interrupted, mtime>>
  BY DEF TrapExit, FwAt, Ends, clint_vars, history_vars, InFirmware, FirmwarePlaces
<1>2. ASSUME NEW place \in {"swap_back", "mret"}, Goto(place),
             Frame',
             {sp', mscratch', t0', frame_sp'} \subseteq
                 GuestSps \cup {0, FwStackTop, FwStackTop - 1}
      PROVE  SbiInv'
  <2>1. place \in FirmwarePlaces \ {"fw_fatal"}
    BY DEF FirmwarePlaces
  <2>2. pc'.at = place
    BY <1>2 DEF Goto, At
  <2>3. /\ status' = status /\ mepc' = mepc /\ mcause' = mcause /\ interrupted' = interrupted
    BY <1>1, <1>2 DEF Goto
  <2>4. Interrupted'
    BY <1>1, <2>2, <2>3 DEF SbiInv, Interrupted, Entering, Returning, SettingTimer, Next4, At
  <2>5. Comparator' /\ Tick' /\ NoEarlyTick'
    BY <1>1, <2>2, <2>3, Typed, TimerKept DEF TimerPlaces
  <2> QED BY <1>1, <1>2, <2>1, <2>4, <2>5, FirmwareStep, Typed
<1>3. CASE FwAt("fw_return")
  <2>1. /\ sp' = sp /\ mscratch' = frame_sp /\ t0' = frame_sp /\ frame_sp' = frame_sp
        /\ Goto("swap_back") /\ pc'.at = "swap_back"
    BY <1>3 DEF TrapExit, FwAt, Goto, At
  <2>2. sp = FwStackTop - 1 /\ frame_sp = interrupted.sp
    BY <1>1, <1>3 DEF SbiInv, Frame, FwAt
  <2>3. Frame'
    BY <1>1, <2>1, <2>2 DEF Frame, FwStackTop
  <2> QED BY <1>2, <2>1, <2>3, Typed
<1>4. CASE FwAt("swap_back")
  <2>1. /\ sp' = mscratch /\ mscratch' = sp + 1 /\ t0' = t0 /\ frame_sp' = frame_sp
        /\ Goto("mret") /\ pc'.at = "mret"
    BY <1>4 DEF TrapExit, FwAt, SwapSpMscratch, Goto, At
  <2>2. sp = FwStackTop - 1 /\ mscratch = interrupted.sp
    BY <1>1, <1>4 DEF SbiInv, Frame, FwAt
  <2>3. Frame'
    BY <1>1, <2>1, <2>2 DEF Frame, FwStackTop
  <2> QED BY <1>2, <2>1, <2>2, <2>3, Typed DEF FwStackTop
<1> QED BY <1>3, <1>4 DEF TrapExit

\* What is left to show of a step between places with a frame.
LEMMA FrameStep ==
    ASSUME SbiInv, pc.at \in FramePlaces, NEW place \in FramePlaces \ {"fw_fatal"}, Goto(place),
           UNCHANGED <<setup_vars, stack_vars, external, nr_external, fw_depth, interrupted,
                       mtime>>,
           ienable' \subseteq Interrupts \ {"MEI"}, ipending' \subseteq Interrupts,
           mtimecmp' \in 0 .. Forever, msip' \in {0, 1}, mode' \in {"guest", "vmm"},
           deadline' \in Deadlines \cup {Forever},
           Interrupted', Comparator', Tick', NoEarlyTick'
    PROVE  SbiInv'
<1>1. place \in FirmwarePlaces \ {"fw_fatal"} /\ InFirmware /\ pc'.at = place
  BY DEF FramePlaces, InFirmware, Goto, At
<1>2. /\ UNCHANGED <<setup_vars, external, nr_external, fw_depth, interrupted, mtime>>
      /\ UNCHANGED stack_vars /\ interrupted' = interrupted
  OBVIOUS
<1>3. /\ Frame'
      /\ {sp', mscratch', t0', frame_sp'} \subseteq GuestSps \cup {0, FwStackTop, FwStackTop - 1}
  BY <1>1, <1>2, FrameKept
<1> QED BY <1>1, <1>2, <1>3, FirmwareStep

\* fw_trap_handler knows every cause that leads to it.
LEMMA DispatchStep == ASSUME SbiInv, FirmwareDispatches PROVE SbiInv'
<1>1. /\ pc.at = "fw_trap_handler" /\ InFirmware
      /\ mode' = "vmm" /\ mtimecmp' = mtimecmp /\ mtime' = mtime /\ msip' = msip
      /\ ienable' = ienable /\ ipending' = ipending /\ deadline' = deadline
      /\ interrupted' = interrupted
      /\ UNCHANGED <<setup_vars, stack_vars, external, nr_external, fw_depth, interrupted,
                     mtime>>
  BY DEF FirmwareDispatches, FwAt, Ends, clint_vars, history_vars, InFirmware, FirmwarePlaces
<1>2. /\ mcause \in {"MTI", "MSI", "ecall_s"}
      /\ mcause = "ecall_s" => mepc.call \in {"set_timer", "send_ipi", "clear_ipi", "other"}
  BY <1>1 DEF SbiInv, Interrupted, Entering, Returning, TypeOK, Pcs, Calls
<1>3. PICK place \in {"mti_1", "msi_1", "set_timer_1", "send_ipi", "clear_ipi", "skip_ecall"} :
          /\ Goto(place)
          /\ place = "mti_1" => mcause = "MTI"
          /\ place = "msi_1" => mcause = "MSI"
          /\ place \in {"set_timer_1", "send_ipi", "clear_ipi", "skip_ecall"} => mcause = "ecall_s"
          /\ place = "set_timer_1" => mepc.call = "set_timer"
  BY <1>2 DEF FirmwareDispatches
<1>4. /\ pc'.at = place /\ status' = status /\ mepc' = mepc /\ mcause' = mcause
  BY <1>3 DEF Goto, At
<1>5. place \in FramePlaces \ {"fw_fatal"} /\ pc.at \in FramePlaces
  BY <1>1 DEF FramePlaces, FirmwarePlaces
<1>6. Interrupted'
  BY <1>1, <1>3, <1>4 DEF SbiInv, Interrupted, Entering, Returning, SettingTimer
<1>7. Comparator' /\ Tick' /\ NoEarlyTick'
  BY <1>1, <1>4, Typed, TimerKept DEF TimerPlaces
<1> QED BY <1>1, <1>3, <1>5, <1>6, <1>7, FrameStep, Typed

\* The machine timer is silenced and the tick becomes the supervisor's.
LEMMA TickStep == ASSUME SbiInv, ForwardTick PROVE SbiInv'
<1>1. /\ InFirmware /\ mode' = "vmm" /\ mtimecmp' = mtimecmp /\ mtime' = mtime
      /\ msip' = msip /\ deadline' = deadline /\ interrupted' = interrupted
      /\ UNCHANGED <<setup_vars, stack_vars, external, nr_external, fw_depth, interrupted,
                     mtime>>
  BY DEF ForwardTick, FwAt, Ends, clint_vars, history_vars, InFirmware, FirmwarePlaces
<1>2. CASE FwAt("mti_1")
  <2>1. /\ pc.at = "mti_1" /\ Goto("mti_2") /\ ipending' = ipending
        /\ ienable' = csrrc("mie", {"MTI"})
    BY <1>2 DEF ForwardTick, FwAt, csr_mie_write
  <2>2. ienable' = ienable \ {"MTI"}
    BY <2>1, EnableCsrs DEF SbiInv
  <2>3. pc'.at = "mti_2" /\ status' = status /\ mepc' = mepc /\ mcause' = mcause
    BY <2>1 DEF Goto, At
  <2>4. Interrupted'
    BY <1>1, <2>1, <2>3 DEF SbiInv, Interrupted, Entering, Returning, SettingTimer
  <2>5. Comparator' /\ Tick' /\ NoEarlyTick'
    BY <1>1, <2>1, <2>2, <2>3 DEF SbiInv, Comparator, Tick, NoEarlyTick, InFirmware, Forever
  <2>6. "mti_2" \in FramePlaces \ {"fw_fatal"} /\ pc.at \in FramePlaces
    BY <2>1 DEF FramePlaces, FirmwarePlaces
  <2>7. ienable' \subseteq Interrupts \ {"MEI"}
    BY <2>2, Typed
  <2> QED BY <1>1, <2>1, <2>4, <2>5, <2>6, <2>7, FrameStep, Typed
<1>3. CASE FwAt("mti_2")
  <2>1. /\ pc.at = "mti_2" /\ Goto("fw_return") /\ ienable' = ienable
        /\ ipending' = (csrrs("mip", {"STI"}) \ MachineInterrupts)
                           \cup (ipending \cap MachineInterrupts)
    BY <1>3 DEF ForwardTick, FwAt, csr_mip_write
  <2>2. ipending' = ipending \cup {"STI"}
    <3>1. "STI" \in SupervisorInterrupts /\ "STI" \notin MachineInterrupts
      BY DEF SupervisorInterrupts, MachineInterrupts
    <3>2. csrrs("mip", {"STI"}) = ipending \cup {"STI"}
      BY <3>1, PendingCsrs DEF SbiInv
    <3> QED BY <2>1, <3>1, <3>2
  <2>3. pc'.at = "fw_return" /\ status' = status /\ mepc' = mepc /\ mcause' = mcause
    BY <2>1 DEF Goto, At
  <2>4. mcause = "MTI" /\ mtime >= deadline
    BY <1>1, <2>1 DEF SbiInv, Interrupted, Tick
  <2>5. Interrupted'
    BY <1>1, <2>1, <2>3, <2>4 DEF SbiInv, Interrupted, Entering, Returning, SettingTimer
  <2>6. Comparator' /\ Tick' /\ NoEarlyTick'
    BY <1>1, <2>1, <2>2, <2>3, <2>4 DEF SbiInv, Comparator, Tick, NoEarlyTick, Forever
  <2>7. "fw_return" \in FramePlaces \ {"fw_fatal"} /\ pc.at \in FramePlaces
    BY <2>1 DEF FramePlaces, FirmwarePlaces
  <2>8. ipending' \subseteq Interrupts
    BY <2>2, Typed DEF Interrupts, SupervisorInterrupts
  <2> QED BY <1>1, <2>1, <2>5, <2>6, <2>7, <2>8, FrameStep, Typed
<1> QED BY <1>2, <1>3 DEF ForwardTick

\* The doorbell, forwarded, rung or taken back, does not touch the timer.
LEMMA IpiStep == ASSUME SbiInv, ForwardIpi \/ sbi_send_ipi \/ ClearIpi PROVE SbiInv'
<1> DEFINE SameTick == "STI" \in ipending' <=> "STI" \in ipending
<1>1. ASSUME pc.at \in {"msi_1", "msi_2", "send_ipi", "clear_ipi"},
             NEW place \in {"msi_2", "fw_return", "skip_ecall"}, Goto(place),
             pc.at = "msi_1" => place = "msi_2",
             pc.at = "msi_2" => place = "fw_return",
             pc.at \in {"send_ipi", "clear_ipi"} => place = "skip_ecall",
             ienable' = ienable, ipending' \subseteq Interrupts, SameTick,
             mtimecmp' = mtimecmp, mtime' = mtime, msip' \in {0, 1}, deadline' = deadline,
             interrupted' = interrupted, mode' \in {"guest", "vmm"},
             UNCHANGED <<setup_vars, stack_vars, external, nr_external, fw_depth, interrupted,
                         mtime>>
      PROVE  SbiInv'
  <2>1. InFirmware /\ pc.at \in FramePlaces /\ place \in FramePlaces \ {"fw_fatal"}
    BY <1>1 DEF FramePlaces, FirmwarePlaces, InFirmware
  <2>2. pc'.at = place /\ status' = status /\ mepc' = mepc /\ mcause' = mcause
    BY <1>1 DEF Goto, At
  <2>3. Interrupted'
    BY <1>1, <2>1, <2>2 DEF SbiInv, Interrupted, Entering, Returning, SettingTimer
  <2>4. Comparator' /\ Tick' /\ NoEarlyTick'
    BY <1>1, <2>1, <2>2, Typed, TimerKept DEF TimerPlaces
  <2> QED BY <1>1, <2>1, <2>3, <2>4, FrameStep, Typed
<1>2. /\ "STI" # "SSI" /\ "SSI" \in SupervisorInterrupts
      /\ SupervisorInterrupts \subseteq Interrupts
      /\ "STI" \notin MachineInterrupts /\ MachineInterrupts \subseteq Interrupts
  BY DEF SupervisorInterrupts, Interrupts, MachineInterrupts
<1>3. /\ csrrs("mip", {"SSI"}) = ipending \cup {"SSI"}
      /\ csrrc("mip", {"SSI"}) = ipending \ {"SSI"}
  BY <1>2, PendingCsrs DEF SbiInv
<1>4. ipending \subseteq Interrupts /\ msip \in {0, 1}
  BY Typed
<1>5. CASE ForwardIpi
  <2>1. CASE FwAt("msi_1")
    BY <1>1, <1>4, <1>5, <2>1 DEF ForwardIpi, FwAt, WriteMsip, MayEnd, history_vars
  <2>2. CASE FwAt("msi_2")
    <3>1. /\ pc.at = "msi_2" /\ Goto("fw_return") /\ msip' = msip /\ mode' = "vmm"
          /\ ienable' = ienable /\ mtime' = mtime /\ mtimecmp' = mtimecmp
          /\ deadline' = deadline /\ interrupted' = interrupted
          /\ UNCHANGED <<setup_vars, stack_vars, external, nr_external, fw_depth, interrupted,
                         mtime>>
          /\ csr_mip_write(csrrs("mip", {"SSI"}))
      BY <1>5, <2>2 DEF ForwardIpi, FwAt, Ends, history_vars
    <3>2. ipending' \subseteq Interrupts /\ SameTick
      BY <1>2, <1>3, <1>4, <3>1 DEF csr_mip_write
    <3> HIDE DEF SameTick
    <3> QED BY <1>1, <1>4, <3>1, <3>2
  <2> QED BY <1>5, <2>1, <2>2 DEF ForwardIpi
<1>6. CASE sbi_send_ipi
  BY <1>1, <1>4, <1>6 DEF sbi_send_ipi, FwAt, WriteMsip, MayEnd, history_vars
<1>7. CASE ClearIpi
  <2>1. /\ pc.at = "clear_ipi" /\ Goto("skip_ecall") /\ msip' = msip /\ mode' = "vmm"
        /\ ienable' = ienable /\ mtime' = mtime /\ mtimecmp' = mtimecmp
        /\ deadline' = deadline /\ interrupted' = interrupted
        /\ UNCHANGED <<setup_vars, stack_vars, external, nr_external, fw_depth, interrupted,
                       mtime>>
        /\ csr_mip_write(csrrc("mip", {"SSI"}))
    BY <1>7 DEF ClearIpi, FwAt, Ends, history_vars, clint_vars
  <2>2. ipending' \subseteq Interrupts /\ SameTick
    BY <1>2, <1>3, <1>4, <2>1 DEF csr_mip_write
  <2> HIDE DEF SameTick
  <2> QED BY <1>1, <1>4, <2>1, <2>2
<1> QED BY <1>5, <1>6, <1>7

\* The three stores to mtimecmp, and the two CSR instructions behind them.
LEMMA SetTimerStep == ASSUME SbiInv, SetTimer \/ SetTimerCsrs PROVE SbiInv'
<1> DEFINE when == mepc.when
<1>1. /\ pc.at \in SettingTimer /\ InFirmware /\ mode' \in {"guest", "vmm"}
      /\ mtime' = mtime /\ msip' = msip /\ interrupted' = interrupted
      /\ UNCHANGED <<setup_vars, stack_vars, external, nr_external, fw_depth, interrupted,
                     mtime>>
  BY DEF SetTimer, SetTimerCsrs, FwAt, Ends, MayEnd, clint_vars, history_vars, InFirmware,
     FirmwarePlaces, SettingTimer
<1>2. mcause = "ecall_s" /\ mepc.call = "set_timer"
  BY <1>1 DEF SbiInv, Interrupted
<1>3. when \in Deadlines
  BY <1>1, <1>2 DEF SbiInv, Placed, IsGuestPc, GuestPc, Booting, InFirmware, BootPlaces,
     FirmwarePlaces
<1>4. Half \in Nat \ {0} /\ Forever = Half * Half - 1 /\ MaxTime < Forever /\ MaxTime \in Nat
  BY ClintAssumption DEF Forever
<1>5. when \in 0 .. Half * Half - 1 /\ mtimecmp \in 0 .. Half * Half - 1
  <2>1. Forever \in Nat /\ \A d \in Deadlines : d \in 0 .. Forever
    BY <1>4, SbiAssumption
  <2> QED BY <1>3, <1>4, <2>1, Typed
<1>6. /\ when \div Half \in 0 .. Half - 1 /\ when % Half \in 0 .. Half - 1
      /\ when = (when \div Half) * Half + (when % Half)
  BY <1>4, <1>5, HalvesOf, Zenon
<1>7. mtimecmp \div Half \in 0 .. Half - 1 /\ mtimecmp % Half \in 0 .. Half - 1
  BY <1>4, <1>5, HalvesOf, Zenon
<1> HIDE DEF when
<1>8. ASSUME NEW place \in SettingTimer \cup {"skip_ecall"}, Goto(place),
             ienable' \subseteq Interrupts \ {"MEI"}, ipending' \subseteq Interrupts,
             mtimecmp' \in 0 .. Forever, deadline' \in Deadlines \cup {Forever},
             Comparator', Tick', NoEarlyTick'
      PROVE  SbiInv'
  <2>1. place \in FramePlaces \ {"fw_fatal"} /\ pc.at \in FramePlaces
    BY <1>1, <1>8 DEF FramePlaces, FirmwarePlaces, SettingTimer
  <2>2. pc'.at = place /\ status' = status /\ mepc' = mepc /\ mcause' = mcause
    BY <1>8 DEF Goto, At
  <2>3. Interrupted'
    BY <1>1, <1>2, <2>2 DEF SbiInv, Interrupted, Entering, Returning, SettingTimer
  <2> QED BY <1>1, <1>8, <2>1, <2>3, FrameStep, Typed
<1>9. CASE SetTimer
  <2>1. ienable' = ienable /\ ipending' = ipending /\ deadline' = deadline
    BY <1>9 DEF SetTimer, history_vars
  <2>2. NoEarlyTick'
    BY <1>1, <2>1 DEF SbiInv, NoEarlyTick
  <2>3. CASE FwAt("set_timer_1")
    <3>1. Goto("set_timer_2") /\ mtimecmp' = (Half - 1) * Half + (mtimecmp % Half)
      BY <1>9, <2>3 DEF SetTimer, FwAt, WriteMtimecmpHigh
    <3>2. Half - 1 \in 0 .. Half - 1
      BY <1>4
    <3>3. mtimecmp' \in 0 .. Forever
      BY <1>4, <1>7, <3>1, <3>2, HalvesFit, Zenon
    <3>4. pc'.at = "set_timer_2" /\ mcause' = mcause
      BY <3>1 DEF Goto, At
    <3>5. Comparator' /\ Tick'
      BY <1>2, <3>4 DEF Comparator, Tick
    <3> QED BY <1>8, <2>1, <2>2, <3>1, <3>3, <3>5, Typed DEF SettingTimer
  <2>4. CASE FwAt("set_timer_2")
    <3>1. Goto("set_timer_3") /\ mtimecmp' = (mtimecmp \div Half) * Half + (when % Half)
      BY <1>9, <2>4 DEF SetTimer, FwAt, WriteMtimecmpLow, Next32, when
    <3>2. mtimecmp' \in 0 .. Forever
      BY <1>4, <1>6, <1>7, <3>1, HalvesFit, Zenon
    <3>3. mtimecmp' % Half = when % Half
      <4>1. mtimecmp \div Half \in Nat
        BY <1>4, <1>7
      <4> QED BY <1>4, <1>6, <3>1, <4>1, Halves, Zenon
    <3>4. pc'.at = "set_timer_3" /\ mcause' = mcause /\ mepc' = mepc
      BY <3>1 DEF Goto, At
    <3>5. Comparator' /\ Tick'
      BY <1>2, <3>3, <3>4 DEF Comparator, Tick, Next32, when
    <3> QED BY <1>8, <2>1, <2>2, <3>1, <3>2, <3>5, Typed DEF SettingTimer
  <2>5. CASE FwAt("set_timer_3")
    <3>1. Goto("set_timer_4") /\ mtimecmp' = (when \div Half) * Half + (mtimecmp % Half)
      BY <1>9, <2>5 DEF SetTimer, FwAt, WriteMtimecmpHigh, High32, when
    <3>2. mtimecmp % Half = when % Half
      BY <2>5 DEF FwAt, SbiInv, Comparator, Next32, when
    <3>3. mtimecmp' = when
      BY <1>6, <3>1, <3>2, Zenon
    <3>4. pc'.at = "set_timer_4" /\ mcause' = mcause /\ mepc' = mepc
      BY <3>1 DEF Goto, At
    <3>5. Comparator' /\ Tick'
      BY <1>2, <3>3, <3>4 DEF Comparator, Tick, when
    <3>6. mtimecmp' \in 0 .. Forever
      BY <1>4, <1>5, <3>3
    <3> QED BY <1>8, <2>1, <2>2, <3>1, <3>5, <3>6, Typed DEF SettingTimer
  <2> QED BY <1>9, <2>3, <2>4, <2>5 DEF SetTimer
<1>10. CASE SetTimerCsrs
  <2>1. mtimecmp' = mtimecmp
    BY <1>10 DEF SetTimerCsrs, clint_vars
  <2>2. CASE FwAt("set_timer_4")
    <3>1. /\ Goto("set_timer_5") /\ ienable' = ienable /\ deadline' = when
          /\ ipending' = (csrrc("mip", {"STI"}) \ MachineInterrupts)
                           \cup (ipending \cap MachineInterrupts)
      BY <1>10, <2>2 DEF SetTimerCsrs, FwAt, csr_mip_write, when
    <3>2. /\ "STI" \in SupervisorInterrupts /\ "STI" \notin MachineInterrupts
      BY DEF SupervisorInterrupts, MachineInterrupts
    <3>3. ipending' = ipending \ {"STI"}
      <4>1. csrrc("mip", {"STI"}) = ipending \ {"STI"}
        BY <3>2, PendingCsrs DEF SbiInv
      <4> QED BY <3>1, <3>2, <4>1
    <3>4. pc'.at = "set_timer_5" /\ mcause' = mcause /\ mepc' = mepc
      BY <3>1 DEF Goto, At
    <3>5. mtimecmp = when
      BY <2>2 DEF FwAt, SbiInv, Comparator, when
    <3>6. Comparator'
      BY <1>3, <2>1, <3>1, <3>4, <3>5 DEF Comparator
    <3>7. Tick' /\ NoEarlyTick'
      BY <1>2, <3>3, <3>4 DEF Tick, NoEarlyTick
    <3>8. ipending' \subseteq Interrupts
      BY <3>3, Typed
    <3> QED BY <1>3, <1>8, <2>1, <3>1, <3>6, <3>7, <3>8, Typed DEF SettingTimer
  <2>3. CASE FwAt("set_timer_5")
    <3>1. /\ Goto("skip_ecall") /\ ipending' = ipending /\ deadline' = deadline
          /\ ienable' = csrrs("mie", {"MTI"})
      BY <1>10, <2>3 DEF SetTimerCsrs, FwAt, csr_mie_write
    <3>2. ienable' = ienable \cup {"MTI"}
      BY <3>1, EnableCsrs DEF SbiInv
    <3>3. pc'.at = "skip_ecall" /\ mcause' = mcause /\ mepc' = mepc
      BY <3>1 DEF Goto, At
    <3>4. mtimecmp = deadline /\ mtimecmp \in Deadlines \cup {Forever}
      BY <2>3 DEF FwAt, SbiInv, Comparator
    <3>5. Comparator'
      BY <2>1, <3>1, <3>3, <3>4 DEF Comparator, Forever
    <3>6. Tick'
      BY <1>2, <2>1, <3>1, <3>2, <3>3, <3>4 DEF Tick
    <3>7. NoEarlyTick'
      BY <1>1, <3>1 DEF SbiInv, NoEarlyTick
    <3>8. ienable' \subseteq Interrupts \ {"MEI"}
      BY <3>2, Typed DEF Interrupts, MachineInterrupts
    <3> QED BY <1>8, <2>1, <3>1, <3>5, <3>6, <3>7, <3>8, Typed DEF SettingTimer
  <2> QED BY <1>10, <2>2, <2>3 DEF SetTimerCsrs
<1> QED BY <1>9, <1>10

\* The place behind an ecall is one of the same level, and of a handler if the
\* ecall was.
LEMMA BehindEcall ==
    ASSUME NEW p, IsGuestPc(p), p.call # "none"
    PROVE  /\ IsGuestPc(Next4(p)) /\ Next4(p) \in Pcs
           /\ LevelOf(Next4(p).at) = LevelOf(p.at)
           /\ Next4(p).at \in HandlerPlaces <=> p.at \in HandlerPlaces
           /\ Next4(p).at \in {"run", "done"}
<1>1. p.at \in {"run", "tick"}
  BY DEF IsGuestPc
<1>2. PICK place \in {"run", "done"} : /\ Next4(p) = At(place)
                                       /\ place = "done" <=> p.at = "tick"
  BY <1>1 DEF Next4
<1>3. Next4(p).at = place /\ Next4(p).call = "none" /\ Next4(p) \in Pcs
  BY <1>2 DEF At, Pcs, Calls, KernelPlaces
<1> QED BY <1>1, <1>2, <1>3 DEF IsGuestPc, LevelOf, HandlerPlaces, GuestPlaces, KernelPlaces,
     BootPlaces, FirmwarePlaces

\* mepc is moved behind the ecall.
LEMMA SkipStep == ASSUME SbiInv, SkipEcall PROVE SbiInv'
<1>1. /\ pc.at = "skip_ecall" /\ pc' = At("fw_return") /\ mepc' = Next4(mepc) /\ mode' = "vmm"
      /\ privilege_level' = privilege_level /\ status' = status /\ sepc' = sepc
      /\ mcause' = mcause /\ ipending' = ipending /\ ienable' = ienable
      /\ idelegation' = idelegation /\ medeleg' = medeleg /\ mtvec' = mtvec
      /\ sp' = sp /\ mscratch' = mscratch /\ t0' = t0 /\ frame_sp' = frame_sp
      /\ mtime' = mtime /\ mtimecmp' = mtimecmp /\ msip' = msip /\ external' = external
      /\ nr_external' = nr_external /\ deadline' = deadline /\ fw_depth' = fw_depth
      /\ interrupted' = interrupted
  BY DEF SkipEcall, FwAt, AfterEcall, Ends, setup_vars, stack_vars, hart_stack_vars,
     clint_vars, history_vars
<1>2. /\ InFirmware /\ ~Booting /\ pc'.at = "fw_return" /\ pc'.call = "none" /\ pc' \in Pcs
      /\ InFirmware' /\ ~Booting'
  BY <1>1 DEF At, InFirmware, Booting, BootPlaces, FirmwarePlaces, Pcs, Calls
<1>3. mcause = "ecall_s" /\ mepc = interrupted.pc
  BY <1>1, <1>2 DEF SbiInv, Interrupted, Returning
<1>4. IsGuestPc(mepc) /\ mepc.call # "none"
  <2>1. IsGuestPc(mepc)
    BY <1>2 DEF SbiInv, Placed, GuestPc
  <2> QED BY <1>1, <1>2, <1>3, <2>1 DEF SbiInv, Interrupted, Returning
<1>5. /\ IsGuestPc(mepc') /\ mepc' \in Pcs /\ LevelOf(mepc'.at) = LevelOf(mepc.at)
      /\ mepc'.at \in HandlerPlaces <=> mepc.at \in HandlerPlaces
      /\ mepc'.at \in {"run", "done"}
  BY <1>1, <1>4, BehindEcall
<1>6. GuestPc = mepc /\ GuestPc' = mepc'
  BY <1>2 DEF GuestPc
<1>7. TypeOK'
  BY <1>1, <1>2, <1>5 DEF SbiInv, TypeOK, Forever, FwStackTop
<1>8. FirmwareIsNotReentered'
  BY <1>1, <1>2 DEF SbiInv, FirmwareIsNotReentered
<1>9. Placed'
  BY <1>2, <1>5, <1>6 DEF Placed, IsGuestPc
<1>10. Levels'
  <2>1. LevelOf(pc'.at) = PRIVILEGE_LEVEL_MACHINE /\ LevelOf(pc.at) = PRIVILEGE_LEVEL_MACHINE
    BY <1>1, <1>2 DEF LevelOf, FirmwarePlaces
  <2> QED BY <1>1, <1>2, <1>5, <2>1 DEF SbiInv, Levels
<1>11. KernelTraps'
  <2>1. mepc'.at \in HandlerPlaces \cup {"boot"} => mepc.at \in HandlerPlaces
    BY <1>5
  <2> QED BY <1>1, <1>2, <1>5, <1>6, <2>1 DEF SbiInv, KernelTraps, IsGuestPc
<1>12. SetUp'
  BY <1>1, <1>2 DEF SbiInv, SetUp, BootPlaces, At, MEDELEG_TO_SUPERVISOR, MIDELEG_TO_SUPERVISOR,
     Booting, Forever
<1>13. Frame'
  BY <1>1, <1>2 DEF SbiInv, Frame, FwStackTop
<1>14. Interrupted'
  BY <1>1, <1>2, <1>3 DEF SbiInv, Interrupted, Entering, Returning, SettingTimer, Next4, At
<1>15. Comparator' /\ Tick' /\ NoEarlyTick'
  BY <1>1, <1>2, Typed, TimerKept DEF TimerPlaces
<1> QED BY <1>7, <1>8, <1>9, <1>10, <1>11, <1>12, <1>13, <1>14, <1>15 DEF SbiInv

\* The return to what was interrupted.
LEMMA ReturnStep ==
    ASSUME SbiInv, FirmwareReturns
    PROVE  /\ SbiInv'
           /\ privilege_level' = interrupted.privilege_level
           /\ status'.sie = interrupted.sie
           /\ status'.spie = interrupted.spie
           /\ status'.spp = interrupted.spp
           /\ sp' = interrupted.sp
           /\ pc' = IF mcause = "ecall_s" THEN Next4(interrupted.pc) ELSE interrupted.pc
<1>1. /\ pc.at = "mret" /\ pc' = mepc /\ mepc' = mepc /\ mode' = "vmm"
      /\ privilege_level' = status.mpp /\ sepc' = sepc
      /\ status' = [status EXCEPT !.mpp = PRIVILEGE_LEVEL_USER, !.mie = status.mpie, !.mpie = TRUE]
      /\ mcause' = mcause /\ ipending' = ipending /\ ienable' = ienable
      /\ idelegation' = idelegation /\ medeleg' = medeleg /\ mtvec' = mtvec
      /\ sp' = sp /\ mscratch' = mscratch /\ t0' = t0 /\ frame_sp' = frame_sp
      /\ mtime' = mtime /\ mtimecmp' = mtimecmp /\ msip' = msip /\ external' = external
      /\ nr_external' = nr_external /\ deadline' = deadline /\ fw_depth' = fw_depth - 1
      /\ interrupted' = interrupted
  BY DEF FirmwareReturns, mret, FwAt, Ends, setup_vars, stack_vars, hart_stack_vars, clint_vars
<1>2. InFirmware /\ ~Booting /\ GuestPc = mepc /\ IsGuestPc(mepc)
  BY <1>1 DEF SbiInv, Placed, GuestPc, InFirmware, Booting, BootPlaces, FirmwarePlaces
<1>3. /\ ~InFirmware' /\ ~Booting' /\ pc'.at \in GuestPlaces /\ GuestPc' = mepc
      /\ pc'.at # "nowhere" /\ pc'.at # "fw_fatal"
  BY <1>1, <1>2 DEF IsGuestPc, GuestPlaces, KernelPlaces, InFirmware, Booting, BootPlaces,
     FirmwarePlaces, GuestPc
<1>4. /\ status.mpp = LevelOf(mepc.at) /\ status.mpp # PRIVILEGE_LEVEL_MACHINE
  <2>1. status.mpp = LevelOf(mepc.at)
    BY <1>2 DEF SbiInv, Levels
  <2> QED BY <1>1, <1>3, <2>1 DEF LevelOf, GuestPlaces, KernelPlaces, BootPlaces, FirmwarePlaces,
       PRIVILEGE_LEVEL_MACHINE, PRIVILEGE_LEVEL_SUPERVISOR, PRIVILEGE_LEVEL_USER
<1>5. status \in [uie : BOOLEAN, upie : BOOLEAN, sie : BOOLEAN, spie : BOOLEAN, spp : {0, 1},
                  mie : BOOLEAN, mpie : BOOLEAN, mpp : {0, 1, 3}]
  BY DEF SbiInv, TypeOK
<1>6. /\ status'.sie = status.sie /\ status'.spie = status.spie /\ status'.spp = status.spp
      /\ status' \in [uie : BOOLEAN, upie : BOOLEAN, sie : BOOLEAN, spie : BOOLEAN, spp : {0, 1},
                      mie : BOOLEAN, mpie : BOOLEAN, mpp : {0, 1, 3}]
      /\ status.mpp \in {0, 1, 3}
  BY <1>1, <1>5 DEF PRIVILEGE_LEVEL_USER
<1>7. fw_depth = 1 /\ fw_depth' = 0
  BY <1>1, <1>2 DEF SbiInv, FirmwareIsNotReentered
<1>8. TypeOK'
  BY <1>1, <1>2, <1>6, <1>7 DEF SbiInv, TypeOK, IsGuestPc, Forever, FwStackTop
<1>9. FirmwareIsNotReentered' /\ Placed'
  BY <1>1, <1>2, <1>3, <1>4, <1>7 DEF FirmwareIsNotReentered, Placed, IsGuestPc
<1>10. Levels'
  BY <1>1, <1>3, <1>4 DEF Levels
<1>11. KernelTraps'
  BY <1>1, <1>2, <1>3, <1>6 DEF SbiInv, KernelTraps, IsGuestPc
<1>12. sp = interrupted.sp /\ mscratch = FwStackTop
  BY <1>1, <1>2 DEF SbiInv, Frame
<1>13. SetUp'
  <2>1. pc'.at \notin BootPlaces
    BY <1>3 DEF Booting
  <2> QED BY <1>1, <1>2, <1>3, <1>12, <2>1, Typed DEF SbiInv, SetUp, BootPlaces, At, FwStackTop,
       MEDELEG_TO_SUPERVISOR, MIDELEG_TO_SUPERVISOR
<1>14. Frame' /\ Interrupted'
  BY <1>3 DEF Frame, Interrupted
<1>15. Comparator' /\ Tick' /\ NoEarlyTick'
  <2>1. pc'.at \notin TimerPlaces /\ pc.at \notin TimerPlaces
    BY <1>1, <1>3 DEF TimerPlaces, GuestPlaces, KernelPlaces
  <2> QED BY <1>1, <1>3, <2>1, Typed, TimerKept
<1>16. /\ status.mpp = interrupted.privilege_level /\ status.sie = interrupted.sie
       /\ status.spie = interrupted.spie /\ status.spp = interrupted.spp
       /\ mepc = IF mcause = "ecall_s" THEN Next4(interrupted.pc) ELSE interrupted.pc
  BY <1>1, <1>2 DEF SbiInv, Interrupted, Returning
<1>17. SbiInv'
  BY <1>8, <1>9, <1>10, <1>11, <1>13, <1>14, <1>15 DEF SbiInv
<1> QED BY <1>1, <1>6, <1>12, <1>16, <1>17

\* What is left to show of a step of the boot sequence.
LEMMA BootGoto ==
    ASSUME SbiInv, Booting, NEW place \in BootPlaces, pc' = At(place),
           status' \in [uie : BOOLEAN, upie : BOOLEAN, sie : BOOLEAN, spie : BOOLEAN, spp : {0, 1},
                        mie : BOOLEAN, mpie : BOOLEAN, mpp : {0, 1, 3}],
           ~status'.mie, ~status'.sie, mepc' \in Pcs, mtvec' \in Pcs, mode' \in {"guest", "vmm"},
           idelegation' \subseteq SupervisorInterrupts, medeleg' \subseteq Exceptions,
           {sp', mscratch'} \subseteq GuestSps \cup {0, FwStackTop, FwStackTop - 1},
           ienable' \subseteq Interrupts \ {"MEI", "MTI"}, ipending' \subseteq ipending,
           UNCHANGED <<privilege_level, sepc, mcause, t0, frame_sp, mtime, mtimecmp, msip,
                       external, nr_external, deadline, fw_depth, interrupted>>,
           SetUp'
    PROVE  SbiInv'
<1>1. /\ pc' \in Pcs /\ pc'.at = place /\ pc'.call = "none" /\ pc'.at \notin {"nowhere", "fw_fatal"}
      /\ Booting' /\ ~InFirmware' /\ ~InFirmware
  BY DEF At, Pcs, Calls, Booting, InFirmware, BootPlaces, FirmwarePlaces
<1>2. /\ privilege_level' = privilege_level /\ sepc' = sepc /\ mcause' = mcause
      /\ t0' = t0 /\ frame_sp' = frame_sp /\ mtime' = mtime /\ mtimecmp' = mtimecmp
      /\ msip' = msip /\ external' = external /\ nr_external' = nr_external
      /\ deadline' = deadline /\ fw_depth' = fw_depth /\ interrupted' = interrupted
  OBVIOUS
<1>3. ienable' \subseteq Interrupts /\ "MTI" \notin ienable'
  OBVIOUS
<1>4. TypeOK'
  BY <1>1, <1>2, <1>3 DEF SbiInv, TypeOK, Forever, FwStackTop
<1>5. FirmwareIsNotReentered' /\ Placed' /\ Levels' /\ KernelTraps'
  <2>1. fw_depth = 0 /\ privilege_level = PRIVILEGE_LEVEL_MACHINE
    BY <1>1 DEF SbiInv, FirmwareIsNotReentered
  <2> QED BY <1>1, <1>2, <2>1 DEF FirmwareIsNotReentered, Placed, Levels, LevelOf, KernelTraps
<1>6. Frame' /\ Interrupted'
  BY <1>1 DEF Frame, Interrupted
<1>7. pc.at \notin TimerPlaces /\ pc'.at \notin TimerPlaces
  BY <1>1 DEF Booting, BootPlaces, TimerPlaces
<1>8. deadline = Forever /\ mtimecmp \in Deadlines \cup {Forever}
  BY <1>7 DEF SbiInv, SetUp, Comparator, TimerPlaces
<1>9. Comparator' /\ Tick' /\ NoEarlyTick'
  <2>1. Comparator'
    BY <1>2, <1>3, <1>7, <1>8 DEF Comparator, TimerPlaces, Forever
  <2>2. Tick'
    BY <1>1, <1>2, <1>8 DEF Tick, Forever
  <2>3. NoEarlyTick'
    BY <1>2 DEF SbiInv, NoEarlyTick
  <2> QED BY <2>1, <2>2, <2>3
<1> QED BY <1>4, <1>5, <1>6, <1>9 DEF SbiInv

\* The boot sequence, up to its mret.
LEMMA BootStep == ASSUME SbiInv, Boots, pc.at # "boot_mret" PROVE SbiInv'
<1>1. /\ Booting /\ mode' \in {"guest", "vmm"}
      /\ UNCHANGED <<privilege_level, sepc, mcause, t0, frame_sp, mtime, mtimecmp, msip,
                     external, nr_external, deadline, fw_depth, interrupted>>
  BY DEF Boots, RomEntry, sbi_init, Delegates, SetsPreviousLevel, enter_supervisor, FwAt, Goto,
     Ends, MayEnd, clint_vars, history_vars, stack_vars, hart_stack_vars, Booting, BootPlaces
<1>2. /\ status \in [uie : BOOLEAN, upie : BOOLEAN, sie : BOOLEAN, spie : BOOLEAN, spp : {0, 1},
                     mie : BOOLEAN, mpie : BOOLEAN, mpp : {0, 1, 3}]
      /\ ~status.mie /\ ~status.sie /\ mepc \in Pcs /\ mtvec \in Pcs
      /\ idelegation \subseteq SupervisorInterrupts /\ medeleg \subseteq Exceptions
      /\ {sp, mscratch} \subseteq GuestSps \cup {0, FwStackTop, FwStackTop - 1}
      /\ ienable \subseteq Interrupts \ {"MEI", "MTI"}
  <2>1. ienable \subseteq Interrupts \ {"MEI", "MTI"}
    BY <1>1, Typed DEF SbiInv, SetUp
  <2> QED BY <1>1, <2>1 DEF SbiInv, TypeOK, Levels, KernelTraps
<1>3. ~InFirmware
  BY <1>1 DEF Booting, InFirmware, BootPlaces, FirmwarePlaces
<1>4. sp \in GuestSps \cup {0, FwStackTop} /\ "MEI" \notin ienable /\ deadline = Forever
  BY <1>1, <1>3 DEF SbiInv, SetUp
<1>5. CASE RomEntry
  <2>1. /\ pc.at = "rom_entry" /\ pc' = At("boot_mtvec") /\ sp' = FwStackTop
        /\ status' = status /\ mepc' = mepc /\ ipending' = ipending /\ ienable' = ienable
        /\ idelegation' = idelegation /\ medeleg' = medeleg /\ mtvec' = mtvec
        /\ mscratch' = mscratch
    BY <1>5 DEF RomEntry, FwAt, Goto, setup_vars
  <2>2. pc'.at = "boot_mtvec" /\ "boot_mtvec" \in BootPlaces /\ Booting' /\ ~InFirmware'
    BY <2>1 DEF At, BootPlaces, FirmwarePlaces, Booting, InFirmware
  <2>3. SetUp'
    BY <1>1, <1>2, <1>4, <2>1, <2>2 DEF SetUp
  <2> QED BY <1>1, <1>2, <2>1, <2>2, <2>3, BootGoto
<1>6. CASE FwAt("boot_mtvec")
  <2>1. /\ pc.at = "boot_mtvec" /\ pc' = At("boot_mie") /\ sp' = sp
        /\ status' = status /\ mepc' = mepc /\ ipending' = ipending /\ ienable' = ienable
        /\ idelegation' = idelegation /\ medeleg' = medeleg /\ mtvec' = At("fw_trap_vector")
        /\ mscratch' = mscratch
    BY <1>6 DEF Boots, RomEntry, sbi_init, Delegates, SetsPreviousLevel, enter_supervisor, FwAt,
       Goto, stack_vars, hart_stack_vars
  <2>2. /\ pc'.at = "boot_mie" /\ "boot_mie" \in BootPlaces /\ Booting' /\ ~InFirmware'
        /\ mtvec' \in Pcs
    BY <2>1 DEF At, Pcs, Calls, BootPlaces, FirmwarePlaces, Booting, InFirmware
  <2>3. SetUp'
    BY <1>1, <1>2, <1>4, <2>1, <2>2 DEF SetUp, At
  <2> QED BY <1>1, <1>2, <2>1, <2>2, <2>3, BootGoto
<1>7. CASE FwAt("boot_mie")
  <2>1. /\ pc.at = "boot_mie" /\ pc' = At("boot_mip") /\ sp' = sp
        /\ status' = status /\ mepc' = mepc /\ ipending' = ipending
        /\ ienable' = csrrw("mie", {"MSI"})
        /\ idelegation' = idelegation /\ medeleg' = medeleg /\ mtvec' = mtvec
        /\ mscratch' = mscratch
    BY <1>7 DEF Boots, RomEntry, sbi_init, Delegates, SetsPreviousLevel, enter_supervisor, FwAt,
       Goto, stack_vars, hart_stack_vars, csr_mie_write
  <2>2. pc'.at = "boot_mip" /\ "boot_mip" \in BootPlaces /\ Booting' /\ ~InFirmware'
    BY <2>1 DEF At, BootPlaces, FirmwarePlaces, Booting, InFirmware
  <2>3. ienable' = {"MSI"} /\ ienable' \subseteq Interrupts \ {"MEI", "MTI"}
    BY <2>1, EnableCsrs DEF SbiInv, Interrupts, MachineInterrupts
  <2>4. SetUp'
    BY <1>1, <1>2, <1>4, <2>1, <2>2, <2>3 DEF SbiInv, SetUp, At
  <2> QED BY <1>1, <1>2, <2>1, <2>2, <2>3, <2>4, BootGoto
<1>8. CASE FwAt("boot_mip")
  <2>1. /\ pc.at = "boot_mip" /\ pc' = At("boot_medeleg") /\ sp' = sp
        /\ status' = status /\ mepc' = mepc /\ ienable' = ienable
        /\ ipending' = (csrrw("mip", {}) \ MachineInterrupts) \cup (ipending \cap MachineInterrupts)
        /\ idelegation' = idelegation /\ medeleg' = medeleg /\ mtvec' = mtvec
        /\ mscratch' = mscratch
    BY <1>8 DEF Boots, RomEntry, sbi_init, Delegates, SetsPreviousLevel, enter_supervisor, FwAt,
       Goto, stack_vars, hart_stack_vars, csr_mip_write
  <2>2. pc'.at = "boot_medeleg" /\ "boot_medeleg" \in BootPlaces /\ Booting' /\ ~InFirmware'
    BY <2>1 DEF At, BootPlaces, FirmwarePlaces, Booting, InFirmware
  <2>3. ipending' \subseteq ipending
    BY <2>1, PendingCsrs DEF SbiInv
  <2>4. SetUp'
    BY <1>1, <1>2, <1>4, <2>1, <2>2 DEF SbiInv, SetUp, At
  <2> QED BY <1>1, <1>2, <2>1, <2>2, <2>3, <2>4, BootGoto
<1>9. CASE FwAt("boot_medeleg")
  <2>1. /\ pc.at = "boot_medeleg" /\ pc' = At("boot_mideleg") /\ sp' = sp
        /\ status' = status /\ mepc' = mepc /\ ienable' = ienable /\ ipending' = ipending
        /\ idelegation' = idelegation /\ mtvec' = mtvec /\ mscratch' = mscratch
        /\ medeleg' = csrrw("medeleg", MEDELEG_TO_SUPERVISOR)
    BY <1>9 DEF Boots, RomEntry, sbi_init, Delegates, SetsPreviousLevel, enter_supervisor, FwAt,
       Goto, stack_vars, hart_stack_vars, csr_medeleg_write
  <2>2. pc'.at = "boot_mideleg" /\ "boot_mideleg" \in BootPlaces /\ Booting' /\ ~InFirmware'
    BY <2>1 DEF At, BootPlaces, FirmwarePlaces, Booting, InFirmware
  <2>3. medeleg' = MEDELEG_TO_SUPERVISOR /\ medeleg' \subseteq Exceptions
    BY <2>1, DelegationCsrs DEF MEDELEG_TO_SUPERVISOR
  <2>4. SetUp'
    BY <1>1, <1>2, <1>4, <2>1, <2>2, <2>3 DEF SbiInv, SetUp, At, MEDELEG_TO_SUPERVISOR
  <2> QED BY <1>1, <1>2, <2>1, <2>2, <2>3, <2>4, BootGoto
<1>10. CASE FwAt("boot_mideleg")
  <2>1. /\ pc.at = "boot_mideleg" /\ pc' = At("boot_mstatus") /\ sp' = sp
        /\ status' = status /\ mepc' = mepc /\ ienable' = ienable /\ ipending' = ipending
        /\ medeleg' = medeleg /\ mtvec' = mtvec /\ mscratch' = mscratch
        /\ idelegation' = csrrw("mideleg", MIDELEG_TO_SUPERVISOR)
    BY <1>10 DEF Boots, RomEntry, sbi_init, Delegates, SetsPreviousLevel, enter_supervisor, FwAt,
       Goto, stack_vars, hart_stack_vars, csr_mideleg_write
  <2>2. pc'.at = "boot_mstatus" /\ "boot_mstatus" \in BootPlaces /\ Booting' /\ ~InFirmware'
    BY <2>1 DEF At, BootPlaces, FirmwarePlaces, Booting, InFirmware
  <2>3. /\ idelegation' = MIDELEG_TO_SUPERVISOR /\ idelegation' \subseteq SupervisorInterrupts
    BY <2>1, DelegationCsrs DEF MIDELEG_TO_SUPERVISOR
  <2>4. SetUp'
    BY <1>1, <1>2, <1>4, <2>1, <2>2, <2>3 DEF SbiInv, SetUp, At, MEDELEG_TO_SUPERVISOR,
       MIDELEG_TO_SUPERVISOR
  <2> QED BY <1>1, <1>2, <2>1, <2>2, <2>3, <2>4, BootGoto
<1>11. CASE SetsPreviousLevel
  <2>1. /\ pc.at = "boot_mstatus" /\ pc' = At("boot_mepc") /\ sp' = sp
        /\ mepc' = mepc /\ ienable' = ienable /\ ipending' = ipending
        /\ idelegation' = idelegation /\ medeleg' = medeleg /\ mtvec' = mtvec
        /\ mscratch' = mscratch
        /\ csr_mstatus_write(csrrw("mstatus",
               (value_to_read("mstatus") \ {"MPP0", "MPP1"}) \cup {"MPP0", "MPIE"}))
    BY <1>11 DEF SetsPreviousLevel, FwAt, setup_vars, stack_vars, hart_stack_vars
  <2>2. pc'.at = "boot_mepc" /\ "boot_mepc" \in BootPlaces /\ Booting' /\ ~InFirmware'
    BY <2>1 DEF At, BootPlaces, FirmwarePlaces, Booting, InFirmware
  <2>3. TypeOK
    BY DEF SbiInv
  <2>4. /\ status' \in [uie : BOOLEAN, upie : BOOLEAN, sie : BOOLEAN, spie : BOOLEAN,
                        spp : {0, 1}, mie : BOOLEAN, mpie : BOOLEAN, mpp : {0, 1, 3}]
        /\ ~status'.mie /\ ~status'.sie
        /\ status'.mpp = PRIVILEGE_LEVEL_SUPERVISOR
    BY <1>2, <2>1, <2>3, BootStatus
  <2>5. SetUp'
    BY <1>1, <1>2, <1>4, <2>1, <2>2, <2>4 DEF SbiInv, SetUp, At, MEDELEG_TO_SUPERVISOR,
       MIDELEG_TO_SUPERVISOR
  <2> QED BY <1>1, <1>2, <2>1, <2>2, <2>4, <2>5, BootGoto
<1>12. CASE FwAt("boot_mepc")
  <2>1. /\ pc.at = "boot_mepc" /\ pc' = At("boot_mscratch") /\ sp' = sp
        /\ status' = status /\ mepc' = At("boot") /\ ienable' = ienable /\ ipending' = ipending
        /\ idelegation' = idelegation /\ medeleg' = medeleg /\ mtvec' = mtvec
        /\ mscratch' = mscratch
    BY <1>12 DEF Boots, RomEntry, sbi_init, Delegates, SetsPreviousLevel, enter_supervisor, FwAt,
       Goto, setup_vars
  <2>2. /\ pc'.at = "boot_mscratch" /\ "boot_mscratch" \in BootPlaces /\ Booting' /\ ~InFirmware'
        /\ mepc' \in Pcs
    BY <2>1 DEF At, BootPlaces, FirmwarePlaces, Booting, InFirmware, Pcs, Calls, KernelPlaces
  <2>3. SetUp'
    BY <1>1, <1>2, <1>4, <2>1, <2>2 DEF SbiInv, SetUp, At, MEDELEG_TO_SUPERVISOR,
       MIDELEG_TO_SUPERVISOR
  <2> QED BY <1>1, <1>2, <2>1, <2>2, <2>3, BootGoto
<1>13. CASE FwAt("boot_mscratch")
  <2>1. /\ pc.at = "boot_mscratch" /\ pc' = At("boot_mret") /\ sp' = sp
        /\ status' = status /\ mepc' = mepc /\ ienable' = ienable /\ ipending' = ipending
        /\ idelegation' = idelegation /\ medeleg' = medeleg /\ mtvec' = mtvec
        /\ mscratch' = FwStackTop
    BY <1>13 DEF Boots, RomEntry, sbi_init, Delegates, SetsPreviousLevel, enter_supervisor, FwAt,
       Goto, setup_vars
  <2>2. pc'.at = "boot_mret" /\ "boot_mret" \in BootPlaces /\ Booting' /\ ~InFirmware'
    BY <2>1 DEF At, BootPlaces, FirmwarePlaces, Booting, InFirmware
  <2>3. SetUp'
    BY <1>1, <1>2, <1>4, <2>1, <2>2 DEF SbiInv, SetUp, At, MEDELEG_TO_SUPERVISOR,
       MIDELEG_TO_SUPERVISOR
  <2> QED BY <1>1, <1>2, <2>1, <2>2, <2>3, BootGoto
<1> QED BY <1>5, <1>6, <1>7, <1>8, <1>9, <1>10, <1>11, <1>12, <1>13 DEF Boots, sbi_init,
     Delegates, enter_supervisor, FwAt

----------------------------------------------------------------------------
(* The steps of the vmm and the guest *)

\* refresh_device_interrupts leaves the tick alone, and the machine timer is
\* pending only when it is due.
LEMMA RefreshFacts ==
    ASSUME SbiInv, NEW t
    PROVE  /\ Refreshed(t) \subseteq Interrupts
           /\ "STI" \in Refreshed(t) <=> "STI" \in ipending
           /\ "MTI" \in Refreshed(t) => t >= mtimecmp
<1>1. /\ "MTI" \in Interrupts /\ "MSI" \in Interrupts /\ "SEI" \in Interrupts
      /\ "SSI" \in Interrupts /\ "STI" \in Interrupts
  BY DEF Interrupts, MachineInterrupts, SupervisorInterrupts
<1> QED BY <1>1 DEF Refreshed, clint_refresh_pending

\* The clock goes on, up to the bound of the model.
LEMMA ClockFacts ==
    ASSUME SbiInv
    PROVE  /\ mtime \in 0 .. MaxTime /\ mtime \in Nat
           /\ clint_advance_time(mtime) \in 0 .. MaxTime /\ clint_advance_time(mtime) \in Nat
           /\ clint_advance_time(mtime) >= mtime
<1>1. mtime \in 0 .. MaxTime /\ MaxTime \in Nat /\ Ticks \in Nat
  BY ClintAssumption DEF SbiInv, TypeOK
<1> QED BY <1>1 DEF clint_advance_time

\* A step of the vmm that takes no interrupt, or none at all, wherever the guest is.
LEMMA VmmQuiet ==
    ASSUME SbiInv,
           UNCHANGED <<trap_vars, ienable, setup_vars, stack_vars, mtimecmp, msip, deadline,
                       fw_depth, interrupted>>,
           mtime' \in 0 .. MaxTime, mtime' >= mtime,
           ipending' \subseteq Interrupts, "STI" \in ipending' <=> "STI" \in ipending,
           mode' \in {"guest", "vmm"}, external' \in BOOLEAN, nr_external' \in 0 .. MaxExternal
    PROVE  SbiInv'
<1>1. /\ privilege_level' = privilege_level /\ status' = status /\ pc' = pc /\ mepc' = mepc
      /\ sepc' = sepc /\ mcause' = mcause /\ ienable' = ienable
      /\ idelegation' = idelegation /\ medeleg' = medeleg /\ mtvec' = mtvec
      /\ sp' = sp /\ mscratch' = mscratch /\ t0' = t0 /\ frame_sp' = frame_sp
      /\ mtimecmp' = mtimecmp /\ msip' = msip /\ deadline' = deadline /\ fw_depth' = fw_depth
      /\ interrupted' = interrupted
  BY DEF trap_vars, setup_vars, stack_vars, hart_stack_vars
<1>2. (InFirmware' <=> InFirmware) /\ (Booting' <=> Booting) /\ GuestPc' = GuestPc
  BY <1>1 DEF InFirmware, Booting, GuestPc
<1>3. mtime >= deadline => mtime' >= deadline
  BY ClintAssumption, Typed
<1>4. TypeOK'
  BY <1>1 DEF SbiInv, TypeOK, Forever, FwStackTop
<1>5. FirmwareIsNotReentered' /\ Placed' /\ Levels' /\ KernelTraps'
  BY <1>1, <1>2 DEF SbiInv, FirmwareIsNotReentered, Placed, Levels, KernelTraps
<1>6. SetUp'
  BY <1>1, <1>2 DEF SbiInv, SetUp, At, FwStackTop, Forever
<1>7. Frame' /\ Interrupted'
  BY <1>1, <1>2 DEF SbiInv, Frame, Interrupted, FwStackTop
<1>8. Comparator'
  BY <1>1 DEF SbiInv, Comparator, Forever
<1>9. Tick' /\ NoEarlyTick'
  BY <1>1, <1>2, <1>3 DEF SbiInv, Tick, NoEarlyTick, Forever
<1> QED BY <1>4, <1>5, <1>6, <1>7, <1>8, <1>9 DEF SbiInv

\* A trap to machine mode.
LEMMA MachineTrap ==
    ASSUME SbiInv, ~Booting, ~InFirmware, NEW cause \in {"MTI", "MSI", "ecall_s"},
           Trap(PRIVILEGE_LEVEL_MACHINE, cause),
           cause = "ecall_s" => pc.call # "none",
           cause = "MTI" => mtime' >= deadline,
           mtime' \in 0 .. MaxTime, mtime' >= mtime,
           ipending' \subseteq Interrupts, "STI" \in ipending' <=> "STI" \in ipending,
           UNCHANGED <<ienable, setup_vars, stack_vars, mtimecmp, msip, external>>
    PROVE  SbiInv' /\ InFirmware'
<1>1. /\ mcause' = cause /\ mepc' = pc /\ pc' = mtvec /\ sepc' = sepc
      /\ status' = [status EXCEPT !.mpp = privilege_level, !.mpie = status.mie, !.mie = FALSE]
      /\ privilege_level' = 3 /\ fw_depth' = fw_depth + 1
      /\ interrupted' = [pc |-> pc, privilege_level |-> privilege_level,
                         sie |-> status.sie, spie |-> status.spie,
                         spp |-> status.spp, sp |-> sp]
      /\ mode' = "vmm" /\ nr_external' = nr_external /\ deadline' = deadline
  BY DEF Trap, raise_trap_raw, setup_mmode_trap, PRIVILEGE_LEVEL_MACHINE
<1>2. /\ ienable' = ienable /\ external' = external
      /\ idelegation' = idelegation /\ medeleg' = medeleg /\ mtvec' = mtvec
      /\ sp' = sp /\ mscratch' = mscratch /\ t0' = t0 /\ frame_sp' = frame_sp
      /\ mtimecmp' = mtimecmp /\ msip' = msip
  BY DEF setup_vars, stack_vars, hart_stack_vars
<1>3. /\ IsGuestPc(pc) /\ GuestPc = pc /\ privilege_level = LevelOf(pc.at)
      /\ fw_depth = 0 /\ mtvec = At("fw_trap_vector") /\ mscratch = FwStackTop
      /\ sp \in GuestSps \cup {0, FwStackTop}
  BY DEF SbiInv, Placed, GuestPc, Levels, FirmwareIsNotReentered, SetUp, Booting, BootPlaces
<1>4. /\ pc'.at = "fw_trap_vector" /\ pc'.call = "none" /\ pc' \in Pcs /\ InFirmware' /\ ~Booting'
      /\ GuestPc' = pc
  BY <1>1, <1>3 DEF At, Pcs, Calls, InFirmware, Booting, BootPlaces, FirmwarePlaces, GuestPc
<1>5. status \in [uie : BOOLEAN, upie : BOOLEAN, sie : BOOLEAN, spie : BOOLEAN, spp : {0, 1},
                  mie : BOOLEAN, mpie : BOOLEAN, mpp : {0, 1, 3}]
      /\ privilege_level \in {0, 1, 3} /\ pc \in Pcs
  BY DEF SbiInv, TypeOK
<1>6. /\ status' \in [uie : BOOLEAN, upie : BOOLEAN, sie : BOOLEAN, spie : BOOLEAN, spp : {0, 1},
                      mie : BOOLEAN, mpie : BOOLEAN, mpp : {0, 1, 3}]
      /\ status'.mpp = privilege_level /\ ~status'.mie
      /\ status'.sie = status.sie /\ status'.spie = status.spie /\ status'.spp = status.spp
  BY <1>1, <1>5
<1>7. interrupted' \in [pc : Pcs, privilege_level : {0, 1, 3}, sie : BOOLEAN,
                        spie : BOOLEAN, spp : {0, 1}, sp : GuestSps \cup {0, FwStackTop}]
  BY <1>1, <1>3, <1>5
<1>8. TypeOK'
  <2>1. cause \in Interrupts \cup Exceptions
    BY DEF Interrupts, MachineInterrupts, Exceptions
  <2> QED BY <1>1, <1>2, <1>3, <1>4, <1>5, <1>6, <1>7, <2>1 DEF SbiInv, TypeOK, Forever, FwStackTop
<1>9. FirmwareIsNotReentered' /\ Placed' /\ Levels'
  <2>1. LevelOf("fw_trap_vector") = 3
    BY DEF LevelOf, FirmwarePlaces, PRIVILEGE_LEVEL_MACHINE
  <2> QED BY <1>1, <1>3, <1>4, <1>6, <2>1 DEF FirmwareIsNotReentered, Placed, Levels, IsGuestPc,
       PRIVILEGE_LEVEL_MACHINE
<1>10. KernelTraps'
  BY <1>1, <1>3, <1>4, <1>6 DEF SbiInv, KernelTraps, IsGuestPc
<1>11. SetUp'
  BY <1>2, <1>4 DEF SbiInv, SetUp, At, MEDELEG_TO_SUPERVISOR, MIDELEG_TO_SUPERVISOR, BootPlaces,
     Booting
<1>12. Frame'
  BY <1>1, <1>2, <1>3, <1>4 DEF Frame, FwStackTop
<1>13. Interrupted'
  BY <1>1, <1>4, <1>6 DEF Interrupted, Entering, Returning, SettingTimer
<1>14. Comparator' /\ Tick' /\ NoEarlyTick'
  <2>1. pc.at \notin TimerPlaces /\ pc'.at \notin TimerPlaces
    BY <1>3, <1>4 DEF TimerPlaces, IsGuestPc, GuestPlaces, KernelPlaces
  <2>2. mtime' \in Nat
    BY ClintAssumption
  <2> QED BY <1>1, <1>2, <2>1, <2>2, TimerKept
<1> QED BY <1>4, <1>8, <1>9, <1>10, <1>11, <1>12, <1>13, <1>14 DEF SbiInv

\* What is left to show of a step after which the guest runs.
LEMMA GuestGoto ==
    ASSUME SbiInv, ~InFirmware, ~Booting \/ pc.at = "boot_mret",
           IsGuestPc(pc'), privilege_level' = LevelOf(pc'.at), sepc' \in Pcs,
           status' \in [uie : BOOLEAN, upie : BOOLEAN, sie : BOOLEAN, spie : BOOLEAN, spp : {0, 1},
                        mie : BOOLEAN, mpie : BOOLEAN, mpp : {0, 1, 3}],
           pc'.at \in HandlerPlaces \cup {"boot"} => ~status'.sie,
           pc'.at \in HandlerPlaces => /\ IsGuestPc(sepc') /\ sepc'.at \in {"run", "user"}
                                       /\ status'.spp = LevelOf(sepc'.at),
           sp' \in GuestSps \cup {0, FwStackTop},
           UNCHANGED <<mepc, mcause, setup_vars, mscratch, t0, frame_sp, mtimecmp, msip, deadline,
                       fw_depth, interrupted>>,
           mtime' \in 0 .. MaxTime, mtime' >= mtime,
           ipending' \subseteq Interrupts, "STI" \in ipending' <=> "STI" \in ipending,
           ienable' \subseteq Interrupts \ {"MEI"}, "MTI" \in ienable' <=> "MTI" \in ienable,
           mode' \in {"guest", "vmm"}, external' \in BOOLEAN, nr_external' \in 0 .. MaxExternal
    PROVE  SbiInv' /\ ~InFirmware'
<1>1. /\ mepc' = mepc /\ mcause' = mcause
      /\ idelegation' = idelegation /\ medeleg' = medeleg /\ mtvec' = mtvec
      /\ mscratch' = mscratch /\ t0' = t0 /\ frame_sp' = frame_sp
      /\ mtimecmp' = mtimecmp /\ msip' = msip /\ deadline' = deadline /\ fw_depth' = fw_depth
      /\ interrupted' = interrupted
  BY DEF setup_vars
<1>2. /\ ~InFirmware' /\ ~Booting' /\ GuestPc' = pc' /\ pc'.at \in GuestPlaces
      /\ pc'.at # "nowhere" /\ pc'.at # "fw_fatal" /\ pc'.at \notin BootPlaces
      /\ LevelOf(pc'.at) \in {0, 1} /\ pc' \in Pcs
  BY DEF IsGuestPc, GuestPlaces, KernelPlaces, InFirmware, Booting, BootPlaces, FirmwarePlaces,
     GuestPc, LevelOf, PRIVILEGE_LEVEL_USER, PRIVILEGE_LEVEL_SUPERVISOR, PRIVILEGE_LEVEL_MACHINE
<1>3. /\ mtvec = At("fw_trap_vector") /\ medeleg = MEDELEG_TO_SUPERVISOR
      /\ idelegation = MIDELEG_TO_SUPERVISOR /\ mscratch = FwStackTop /\ fw_depth = 0
  BY DEF SbiInv, SetUp, FirmwareIsNotReentered, Booting, BootPlaces
<1>4. TypeOK'
  BY <1>1, <1>2 DEF SbiInv, TypeOK, Forever, FwStackTop
<1>5. FirmwareIsNotReentered' /\ Placed' /\ Levels' /\ KernelTraps'
  BY <1>1, <1>2, <1>3 DEF FirmwareIsNotReentered, Placed, Levels, KernelTraps, IsGuestPc,
     PRIVILEGE_LEVEL_MACHINE
<1>6. SetUp'
  BY <1>1, <1>2, <1>3 DEF SetUp, BootPlaces, At, FwStackTop, MEDELEG_TO_SUPERVISOR,
     MIDELEG_TO_SUPERVISOR
<1>7. Frame' /\ Interrupted'
  BY <1>2 DEF Frame, Interrupted
<1>8. Comparator' /\ Tick' /\ NoEarlyTick'
  <2>1. pc'.at \notin TimerPlaces /\ pc.at \notin TimerPlaces
    BY <1>2 DEF TimerPlaces, GuestPlaces, KernelPlaces, InFirmware, FirmwarePlaces
  <2>2. mtime' \in Nat
    BY ClintAssumption
  <2> QED BY <1>1, <1>2, <2>1, <2>2, TimerKept
<1> QED BY <1>2, <1>4, <1>5, <1>6, <1>7, <1>8 DEF SbiInv

\* The levels of the guest's places, and what its places are.
LEMMA GuestLevels ==
    /\ \A place \in KernelPlaces : LevelOf(place) = 1
    /\ LevelOf("user") = 0
    /\ HandlerPlaces \cup {"run", "boot"} = KernelPlaces
    /\ \A place \in GuestPlaces : IsGuestPc(At(place)) /\ At(place).at = place
<1>1. \A place \in KernelPlaces : LevelOf(place) = 1
  BY DEF LevelOf, KernelPlaces, BootPlaces, FirmwarePlaces, PRIVILEGE_LEVEL_SUPERVISOR
<1>2. LevelOf("user") = 0
  BY DEF LevelOf, BootPlaces, FirmwarePlaces, PRIVILEGE_LEVEL_USER
<1>3. HandlerPlaces \cup {"run", "boot"} = KernelPlaces
  BY DEF HandlerPlaces, KernelPlaces
<1>4. ASSUME NEW place \in GuestPlaces PROVE IsGuestPc(At(place)) /\ At(place).at = place
  BY DEF At, IsGuestPc, GuestPlaces, Pcs, Calls
<1> QED BY <1>1, <1>2, <1>3, <1>4

\* A trap to the kernel, from its main loop or from the user program.
LEMMA SupervisorTrap ==
    ASSUME SbiInv, ~Booting, ~InFirmware, NEW cause,
           Trap(PRIVILEGE_LEVEL_SUPERVISOR, cause), pc.at \in {"run", "user"},
           mtime' \in 0 .. MaxTime, mtime' >= mtime,
           ipending' \subseteq Interrupts, "STI" \in ipending' <=> "STI" \in ipending,
           UNCHANGED <<ienable, setup_vars, stack_vars, mtimecmp, msip, external>>
    PROVE  SbiInv' /\ ~InFirmware'
<1>1. /\ sepc' = pc /\ pc' = KernelHandler(cause) /\ mepc' = mepc /\ mcause' = mcause
      /\ status' = [status EXCEPT !.spp = privilege_level % 2, !.spie = status.sie, !.sie = FALSE]
      /\ privilege_level' = 1 /\ fw_depth' = fw_depth /\ interrupted' = interrupted
      /\ mode' = "vmm" /\ nr_external' = nr_external /\ deadline' = deadline
  BY DEF Trap, raise_trap_raw, setup_smode_trap, PRIVILEGE_LEVEL_MACHINE, PRIVILEGE_LEVEL_SUPERVISOR
<1>2. /\ ienable' = ienable /\ external' = external
      /\ mscratch' = mscratch /\ sp' = sp /\ t0' = t0 /\ frame_sp' = frame_sp
      /\ mtimecmp' = mtimecmp /\ msip' = msip /\ UNCHANGED setup_vars
  BY DEF stack_vars, hart_stack_vars
<1>3. /\ IsGuestPc(pc) /\ privilege_level = LevelOf(pc.at)
      /\ sp \in GuestSps \cup {0, FwStackTop} /\ pc \in Pcs
  BY DEF SbiInv, Placed, GuestPc, Levels, SetUp, TypeOK
<1>4. PICK place \in HandlerPlaces : pc' = At(place)
  BY <1>1 DEF KernelHandler, HandlerPlaces
<1>5. /\ IsGuestPc(pc') /\ pc'.at = place /\ LevelOf(pc'.at) = 1
      /\ privilege_level % 2 = LevelOf(pc.at) /\ privilege_level % 2 \in {0, 1}
  <2>1. place \in GuestPlaces /\ place \in KernelPlaces /\ "run" \in KernelPlaces
    BY DEF HandlerPlaces, GuestPlaces, KernelPlaces
  <2>2. privilege_level = 0 \/ privilege_level = 1
    BY <1>3, <2>1, GuestLevels
  <2>3. privilege_level % 2 = privilege_level
    BY <2>2
  <2> QED BY <1>3, <1>4, <2>1, <2>2, <2>3, GuestLevels
<1>6. status \in [uie : BOOLEAN, upie : BOOLEAN, sie : BOOLEAN, spie : BOOLEAN, spp : {0, 1},
                  mie : BOOLEAN, mpie : BOOLEAN, mpp : {0, 1, 3}]
  BY DEF SbiInv, TypeOK
<1>7. /\ status' \in [uie : BOOLEAN, upie : BOOLEAN, sie : BOOLEAN, spie : BOOLEAN, spp : {0, 1},
                      mie : BOOLEAN, mpie : BOOLEAN, mpp : {0, 1, 3}]
      /\ status'.spp = privilege_level % 2 /\ ~status'.sie
  BY <1>1, <1>5, <1>6
<1>8. nr_external' \in 0 .. MaxExternal /\ external' \in BOOLEAN
  BY <1>1, <1>2 DEF SbiInv, TypeOK
<1>9. IsGuestPc(sepc') /\ sepc'.at \in {"run", "user"} /\ sepc' \in Pcs
      /\ status'.spp = LevelOf(sepc'.at)
  BY <1>1, <1>3, <1>5, <1>7 DEF IsGuestPc
<1> QED BY <1>1, <1>2, <1>3, <1>5, <1>7, <1>8, <1>9, GuestGoto, Typed

\* pump_devices_and_deliver_interrupts.
LEMMA PumpStep == ASSUME SbiInv, PumpDelivers \/ PumpResumes \/ DeviceRaises PROVE SbiInv'
<1>1. CASE DeviceRaises
  <2>1. /\ UNCHANGED <<trap_vars, ienable, setup_vars, stack_vars, mtimecmp, msip, deadline,
                       fw_depth, interrupted>>
        /\ mtime' = mtime /\ ipending' = ipending /\ mode' = mode /\ external' = TRUE
        /\ nr_external' = nr_external + 1 /\ nr_external < MaxExternal
    BY <1>1 DEF DeviceRaises, clint_vars
  <2>2. nr_external' \in 0 .. MaxExternal /\ mode' \in {"guest", "vmm"} /\ mtime' \in 0 .. MaxTime
    BY <2>1, SbiAssumption DEF SbiInv, TypeOK
  <2>3. mtime' >= mtime
    BY <2>1, Typed
  <2> QED BY <2>1, <2>2, <2>3, VmmQuiet, Typed
<1>2. CASE PumpResumes
  <2>1. /\ UNCHANGED <<trap_vars, ienable, setup_vars, stack_vars, mtimecmp, msip, deadline,
                       fw_depth, interrupted>>
        /\ mtime' = clint_advance_time(mtime) /\ ipending' = Refreshed(mtime') /\ mode' = "guest"
        /\ external' = external /\ nr_external' = nr_external
    BY <1>2 DEF PumpResumes, device_vars, history_vars
  <2>2. nr_external' \in 0 .. MaxExternal /\ external' \in BOOLEAN
    BY <2>1 DEF SbiInv, TypeOK
  <2>3. mtime' \in 0 .. MaxTime /\ mtime' >= mtime
    BY <2>1, ClockFacts
  <2>4. ipending' \subseteq Interrupts /\ ("STI" \in ipending' <=> "STI" \in ipending)
    BY <2>1, RefreshFacts
  <2> QED BY <2>1, <2>2, <2>3, <2>4, VmmQuiet
<1>3. CASE PumpDelivers
  <2>1. /\ mtime' = clint_advance_time(mtime) /\ ipending' = Refreshed(mtime')
        /\ Deliverable(ipending') # {}
        /\ UNCHANGED <<ienable, setup_vars, stack_vars, mtimecmp, msip, external>>
    BY <1>3 DEF PumpDelivers, device_vars
  <2>2. mtime' \in 0 .. MaxTime /\ mtime' >= mtime
    BY <2>1, ClockFacts
  <2>3. /\ ipending' \subseteq Interrupts /\ ("STI" \in ipending' <=> "STI" \in ipending)
        /\ "MTI" \in ipending' => mtime' >= mtimecmp
    BY <2>1, RefreshFacts
  <2>4. PICK pend : pend = ipending'
    OBVIOUS
  <2>5. Deliverable(pend) # {}
    BY <2>1, <2>4
  <2>6. ~Booting /\ ~InFirmware
    BY <2>5, MachineIsMasked DEF SbiInv
  <2> DEFINE v == HighestDeliverable(pend)
             target == interrupt_target_privilege_level(v)
  <2>7. v \in Interrupts /\ is_interrupt_deliverable(v, pend)
    BY <2>5, HighestIsDeliverable
  <2>8. Trap(target, v)
    BY <1>3, <2>4 DEF PumpDelivers
  <2>9. PICK cause \in Interrupts : cause = v
    BY <2>7
  <2> HIDE DEF v, target
  <2>10. /\ cause \in pend /\ cause \in ienable
         /\ target = PRIVILEGE_LEVEL_MACHINE => cause \in {"MSI", "MTI"}
         /\ target # PRIVILEGE_LEVEL_MACHINE =>
               target = PRIVILEGE_LEVEL_SUPERVISOR /\ pc.at \in {"run", "user"}
    BY <2>6, <2>7, <2>9, WhatIsDelivered DEF target
  <2>11. CASE target = PRIVILEGE_LEVEL_MACHINE
    <3>1. Trap(PRIVILEGE_LEVEL_MACHINE, cause) /\ cause \in {"MTI", "MSI", "ecall_s"}
      BY <2>8, <2>9, <2>10, <2>11
    <3>2. cause = "MTI" => mtime' >= deadline
      <4>1. cause = "MTI" => mtimecmp = deadline
        BY <2>6, <2>10 DEF SbiInv, Comparator, InFirmware, FirmwarePlaces
      <4> QED BY <2>3, <2>4, <2>10, <4>1
    <3>3. cause # "ecall_s"
      BY <2>10, <2>11
    <3> QED BY <2>1, <2>2, <2>3, <2>6, <3>1, <3>2, <3>3, MachineTrap
  <2>12. CASE target # PRIVILEGE_LEVEL_MACHINE
    <3>1. Trap(PRIVILEGE_LEVEL_SUPERVISOR, cause) /\ pc.at \in {"run", "user"}
      BY <2>8, <2>9, <2>10, <2>12
    <3> QED BY <2>1, <2>2, <2>3, <2>6, <3>1, SupervisorTrap
  <2> QED BY <2>11, <2>12
<1> QED BY <1>1, <1>2, <1>3

\* ecall_callback: the kernel's calls go to the firmware, the user's to the kernel.
LEMMA EcallStep ==
    ASSUME SbiInv, NEW cause \in {"ecall_s", "ecall_u"}, Ecall(cause) PROVE SbiInv'
<1>1. /\ \/ cause = "ecall_s" /\ pc.call # "none"
         \/ cause = "ecall_u" /\ pc = At("user")
      /\ Trap(exception_target_privilege_level(cause), cause)
      /\ UNCHANGED <<ienable, setup_vars, stack_vars, mtimecmp, msip, external>>
      /\ ipending' = ipending /\ mtime' = mtime
  BY DEF Ecall, clint_vars
<1>2. ~Booting /\ ~InFirmware
  <2>1. pc.call # "none" \/ pc.at = "user"
    BY <1>1 DEF At
  <2> QED BY <2>1 DEF SbiInv, Placed, Booting, InFirmware, BootPlaces, FirmwarePlaces
<1>3. medeleg = MEDELEG_TO_SUPERVISOR /\ privilege_level # PRIVILEGE_LEVEL_MACHINE
  BY <1>2 DEF SbiInv, SetUp, FirmwareIsNotReentered
<1>4. mtime' \in 0 .. MaxTime /\ mtime' >= mtime /\ ipending' \subseteq Interrupts
  BY <1>1, ClockFacts, Typed
<1>5. CASE cause = "ecall_s"
  <2>1. exception_target_privilege_level(cause) = PRIVILEGE_LEVEL_MACHINE
    BY <1>3, <1>5 DEF exception_target_privilege_level, MEDELEG_TO_SUPERVISOR
  <2>2. Trap(PRIVILEGE_LEVEL_MACHINE, cause) /\ pc.call # "none"
    BY <1>1, <1>5, <2>1
  <2>3. cause # "MTI"
    BY <1>5
  <2> QED BY <1>1, <1>2, <1>4, <1>5, <2>2, <2>3, MachineTrap
<1>6. CASE cause = "ecall_u"
  <2>1. exception_target_privilege_level(cause) = PRIVILEGE_LEVEL_SUPERVISOR
    BY <1>3, <1>6 DEF exception_target_privilege_level, MEDELEG_TO_SUPERVISOR, Exceptions
  <2>2. Trap(PRIVILEGE_LEVEL_SUPERVISOR, cause) /\ pc.at = "user"
    BY <1>1, <1>6, <2>1 DEF At
  <2> QED BY <1>1, <1>2, <1>4, <2>2, SupervisorTrap
<1> QED BY <1>5, <1>6

\* What a write of sstatus keeps.
LEMMA SstatusKeepsTypes ==
    ASSUME SbiInv, NEW value
    PROVE  /\ StatusAfterSstatus(value) \in
                  [uie : BOOLEAN, upie : BOOLEAN, sie : BOOLEAN, spie : BOOLEAN, spp : {0, 1},
                   mie : BOOLEAN, mpie : BOOLEAN, mpp : {0, 1, 3}]
           /\ StatusAfterSstatus(value).spp = IF "SPP" \in value THEN 1 ELSE 0
<1>1. status \in [uie : BOOLEAN, upie : BOOLEAN, sie : BOOLEAN, spie : BOOLEAN, spp : {0, 1},
                  mie : BOOLEAN, mpie : BOOLEAN, mpp : {0, 1, 3}]
  BY DEF SbiInv, TypeOK
<1> DEFINE u == "UIE" \in value
           up == "UPIE" \in value
           si == "SIE" \in value
           spi == "SPIE" \in value
           pp == IF "SPP" \in value THEN 1 ELSE 0
<1>2. u \in BOOLEAN /\ up \in BOOLEAN /\ si \in BOOLEAN /\ spi \in BOOLEAN /\ pp \in {0, 1}
  OBVIOUS
<1>3. StatusAfterSstatus(value) =
          [status EXCEPT !.uie = u, !.upie = up, !.sie = si, !.spie = spi, !.spp = pp]
  BY Zenon DEF StatusAfterSstatus
<1>4. pp = IF "SPP" \in value THEN 1 ELSE 0
  OBVIOUS
<1> HIDE DEF u, up, si, spi, pp
<1>5. /\ StatusAfterSstatus(value) \in
             [uie : BOOLEAN, upie : BOOLEAN, sie : BOOLEAN, spie : BOOLEAN, spp : {0, 1},
              mie : BOOLEAN, mpie : BOOLEAN, mpp : {0, 1, 3}]
      /\ StatusAfterSstatus(value).spp = pp
  BY <1>1, <1>2, <1>3
<1> QED BY <1>4, <1>5

\* The return that ends the boot sequence.
LEMMA BootReturns == ASSUME SbiInv, Boots, pc.at = "boot_mret" PROVE SbiInv' /\ ~InFirmware'
<1>1. /\ mret /\ mode' = "vmm"
      /\ UNCHANGED <<mscratch, sp, t0, frame_sp, ipending, ienable, setup_vars, clint_vars,
                     external, history_vars>>
  BY DEF Boots, RomEntry, sbi_init, Delegates, SetsPreviousLevel, enter_supervisor, FwAt, Ends
<1>2. Booting /\ ~InFirmware
  BY DEF Booting, InFirmware, BootPlaces, FirmwarePlaces
<1>3. /\ mepc = At("boot") /\ status.mpp = 1 /\ ~status.sie /\ sp \in GuestSps \cup {0, FwStackTop}
  BY <1>2 DEF SbiInv, SetUp, KernelTraps, PRIVILEGE_LEVEL_SUPERVISOR
<1>4. /\ status \in [uie : BOOLEAN, upie : BOOLEAN, sie : BOOLEAN, spie : BOOLEAN, spp : {0, 1},
                     mie : BOOLEAN, mpie : BOOLEAN, mpp : {0, 1, 3}]
      /\ sepc \in Pcs /\ external \in BOOLEAN /\ nr_external \in 0 .. MaxExternal
  BY DEF SbiInv, TypeOK
<1>5. /\ pc' = At("boot") /\ privilege_level' = 1 /\ sepc' = sepc /\ ~status'.sie
      /\ status' \in [uie : BOOLEAN, upie : BOOLEAN, sie : BOOLEAN, spie : BOOLEAN, spp : {0, 1},
                      mie : BOOLEAN, mpie : BOOLEAN, mpp : {0, 1, 3}]
      /\ mepc' = mepc /\ mcause' = mcause
  BY <1>1, <1>3, <1>4 DEF mret, PRIVILEGE_LEVEL_USER
<1>6. IsGuestPc(pc') /\ pc'.at = "boot" /\ LevelOf(pc'.at) = 1 /\ "boot" \notin HandlerPlaces
  BY <1>5, GuestLevels DEF GuestPlaces, KernelPlaces, HandlerPlaces
<1>7. /\ sp' = sp /\ mtime' = mtime /\ ipending' = ipending /\ ienable' = ienable
      /\ external' = external /\ nr_external' = nr_external
      /\ UNCHANGED <<mepc, mcause, setup_vars, mscratch, t0, frame_sp, mtimecmp, msip, deadline,
                     fw_depth, interrupted>>
  BY <1>1, <1>5 DEF clint_vars, history_vars
<1>8. mtime' \in 0 .. MaxTime /\ mtime' >= mtime
  BY <1>7, ClockFacts
<1> QED BY <1>1, <1>2, <1>3, <1>4, <1>5, <1>6, <1>7, <1>8, GuestGoto, Typed

\* A step of the kernel or the user program that touches neither the clock nor
\* the firmware's state.
LEMMA GuestMoves ==
    ASSUME SbiInv, pc.at \in GuestPlaces,
           IsGuestPc(pc'), privilege_level' = LevelOf(pc'.at), sepc' \in Pcs,
           status' \in [uie : BOOLEAN, upie : BOOLEAN, sie : BOOLEAN, spie : BOOLEAN, spp : {0, 1},
                        mie : BOOLEAN, mpie : BOOLEAN, mpp : {0, 1, 3}],
           pc'.at # "boot",
           pc'.at \in HandlerPlaces =>
               pc.at \in HandlerPlaces /\ sepc' = sepc /\ status' = status,
           sp' \in GuestSps \cup {sp},
           UNCHANGED <<mepc, mcause, setup_vars, mscratch, t0, frame_sp, clint_vars, history_vars>>,
           ipending' \in {ipending, ipending \ {"SSI"}},
           ienable' \in {ienable, ienable \cup SupervisorInterrupts},
           mode' \in {"guest", "vmm"}, external' \in BOOLEAN
    PROVE  SbiInv' /\ ~InFirmware'
<1>1. ~InFirmware /\ ~Booting
  BY DEF InFirmware, Booting, GuestPlaces, KernelPlaces, BootPlaces, FirmwarePlaces
<1>2. /\ nr_external \in 0 .. MaxExternal /\ sp \in GuestSps \cup {0, FwStackTop}
      /\ GuestPc = pc
  BY <1>1 DEF SbiInv, TypeOK, SetUp, GuestPc
<1>3. pc'.at \in HandlerPlaces => /\ ~status'.sie
                                  /\ IsGuestPc(sepc') /\ sepc'.at \in {"run", "user"}
                                  /\ status'.spp = LevelOf(sepc'.at)
  BY <1>1, <1>2 DEF SbiInv, KernelTraps, IsGuestPc
<1>4. /\ mtime' = mtime /\ nr_external' = nr_external
      /\ UNCHANGED <<mepc, mcause, setup_vars, mscratch, t0, frame_sp, mtimecmp, msip, deadline,
                     fw_depth, interrupted>>
  BY DEF clint_vars, history_vars
<1>5. mtime' \in 0 .. MaxTime /\ mtime' >= mtime
  BY <1>4, ClockFacts
<1>6. /\ ipending' \subseteq Interrupts /\ ("STI" \in ipending' <=> "STI" \in ipending)
      /\ ienable' \subseteq Interrupts \ {"MEI"} /\ ("MTI" \in ienable' <=> "MTI" \in ienable)
  <2>1. SupervisorInterrupts \subseteq Interrupts \ {"MEI"} /\ "MTI" \notin SupervisorInterrupts
    BY DEF Interrupts, SupervisorInterrupts
  <2> QED BY <2>1, Typed
<1>7. pc'.at \in HandlerPlaces \cup {"boot"} => ~status'.sie
  BY <1>3
<1>8. sp' \in GuestSps \cup {0, FwStackTop} /\ nr_external' \in 0 .. MaxExternal
  BY <1>2, <1>4
<1> QED BY <1>1, <1>3, <1>4, <1>5, <1>6, <1>7, <1>8, GuestGoto

\* The steps of the kernel and the user program, but for their ecalls.
LEMMA KernelStep ==
    ASSUME SbiInv, Kernel, \A c \in {"ecall_s", "ecall_u"} : ~Ecall(c)
    PROVE  SbiInv' /\ ~InFirmware'
<1>1. /\ status \in [uie : BOOLEAN, upie : BOOLEAN, sie : BOOLEAN, spie : BOOLEAN, spp : {0, 1},
                     mie : BOOLEAN, mpie : BOOLEAN, mpp : {0, 1, 3}]
      /\ sepc \in Pcs /\ external \in BOOLEAN /\ nr_external \in 0 .. MaxExternal
  BY DEF SbiInv, TypeOK
<1>2. ASSUME NEW place \in GuestPlaces, pc = At(place)
      PROVE  /\ pc.at = place /\ IsGuestPc(pc) /\ ~Booting /\ ~InFirmware
             /\ privilege_level = LevelOf(place)
  <2>1. pc.at = place /\ IsGuestPc(pc)
    BY <1>2, GuestLevels
  <2> QED BY <2>1 DEF SbiInv, Levels, Booting, InFirmware, GuestPlaces, KernelPlaces, BootPlaces,
       FirmwarePlaces
<1>3. KernelPlaces \subseteq GuestPlaces /\ {"run", "tick", "boot", "soft", "external", "syscall",
                                             "done"} \subseteq KernelPlaces
  BY DEF GuestPlaces, KernelPlaces
<1>4. /\ "run" \notin HandlerPlaces /\ "user" \notin HandlerPlaces /\ "user" \in GuestPlaces
      /\ {"tick", "soft", "external", "syscall", "done"} \subseteq HandlerPlaces
  BY DEF HandlerPlaces, GuestPlaces
<1>5. /\ \A place \in KernelPlaces :
             LevelOf(place) = 1 /\ IsGuestPc(At(place)) /\ At(place).at = place
      /\ LevelOf("user") = 0 /\ IsGuestPc(At("user")) /\ At("user").at = "user"
  BY <1>3, <1>4, GuestLevels
<1>6. CASE KernelBoots
  <2>1. /\ pc = At("boot") /\ pc' = At("run") /\ sp' \in GuestSps /\ mode' = "vmm"
        /\ privilege_level' = privilege_level /\ status' = status /\ sepc' = sepc
        /\ ienable' = (ienable \ SupervisorInterrupts)
                        \cup (csrrs("sie", SupervisorInterrupts) \cap SupervisorInterrupts)
        /\ ipending' = ipending /\ external' = external
        /\ UNCHANGED <<mepc, mcause, setup_vars, mscratch, t0, frame_sp, clint_vars, history_vars>>
    BY <1>6 DEF KernelBoots, KernelAt, Goto, Ends, csr_sie_write
  <2>2. ienable' = ienable \cup SupervisorInterrupts
    BY <2>1, EnableCsrs DEF SbiInv
  <2> QED BY <1>1, <1>2, <1>3, <1>4, <1>5, <2>1, <2>2, GuestMoves
<1>7. CASE KernelPreparesCall
  <2>1. PICK place \in {"run", "tick"}, c \in Calls \ {"none"}, d \in Deadlines :
            pc = At(place) /\ pc' = [at |-> place, call |-> c, when |-> d]
    <3>1. "set_timer" \in Calls \ {"none"}
      BY DEF Calls
    <3> QED BY <1>7, <3>1 DEF KernelPreparesCall, KernelAt
  <2>2. IsGuestPc(pc') /\ pc'.at = place
    BY <1>3, <2>1 DEF IsGuestPc, Pcs, GuestPlaces, KernelPlaces
  <2>3. /\ mode' \in {"guest", "vmm"}
        /\ privilege_level' = privilege_level /\ status' = status /\ sepc' = sepc
        /\ ienable' = ienable /\ ipending' = ipending /\ external' = external /\ sp' = sp
        /\ UNCHANGED <<mepc, mcause, setup_vars, mscratch, t0, frame_sp, clint_vars, history_vars>>
    BY <1>7 DEF KernelPreparesCall, MayEnd, stack_vars, hart_stack_vars
  <2>4. place \in KernelPlaces /\ place # "boot"
    BY <1>3, <2>1
  <2>5. pc.at = place /\ privilege_level' = LevelOf(place) /\ pc.at \in GuestPlaces
    BY <1>2, <1>3, <2>1, <2>3, <2>4
  <2> QED BY <1>1, <2>2, <2>3, <2>4, <2>5, GuestMoves
<1>8. CASE KernelUnmasks \/ KernelMasks
  <2>1. PICK value : status' = StatusAfterSstatus(value)
    BY <1>8 DEF KernelUnmasks, KernelMasks, csr_sstatus_write
  <2>2. /\ mode' = "vmm" /\ pc = At("run") /\ pc' = pc
        /\ privilege_level' = privilege_level /\ sepc' = sepc
        /\ ienable' = ienable /\ ipending' = ipending /\ external' = external /\ sp' = sp
        /\ UNCHANGED <<mepc, mcause, setup_vars, mscratch, t0, frame_sp, clint_vars, history_vars>>
    BY <1>8 DEF KernelUnmasks, KernelMasks, KernelAt, Ends, stack_vars, hart_stack_vars
  <2> QED BY <1>1, <1>2, <1>3, <1>4, <1>5, <2>1, <2>2, SstatusKeepsTypes, GuestMoves
<1>9. CASE KernelStartsUser
  <2>1. PICK value : /\ value = csrrw("sstatus", {"SPIE"})
                     /\ sret(StatusAfterSstatus(value), At("user"))
    BY <1>9 DEF KernelStartsUser
  <2> DEFINE st == StatusAfterSstatus(value)
  <2>2. /\ st \in [uie : BOOLEAN, upie : BOOLEAN, sie : BOOLEAN, spie : BOOLEAN, spp : {0, 1},
                   mie : BOOLEAN, mpie : BOOLEAN, mpp : {0, 1, 3}]
        /\ st.spp = 0
    <3>1. "SPP" \notin value
      BY <2>1 DEF csrrw
    <3>2. /\ st \in [uie : BOOLEAN, upie : BOOLEAN, sie : BOOLEAN, spie : BOOLEAN, spp : {0, 1},
                     mie : BOOLEAN, mpie : BOOLEAN, mpp : {0, 1, 3}]
          /\ st.spp = IF "SPP" \in value THEN 1 ELSE 0
      BY SstatusKeepsTypes
    <3> QED BY <3>1, <3>2
  <2> HIDE DEF st
  <2>3. /\ privilege_level' = 0 /\ pc' = At("user")
        /\ status' \in [uie : BOOLEAN, upie : BOOLEAN, sie : BOOLEAN, spie : BOOLEAN, spp : {0, 1},
                        mie : BOOLEAN, mpie : BOOLEAN, mpp : {0, 1, 3}]
        /\ mepc' = mepc /\ mcause' = mcause
    <3>1. sret(st, At("user"))
      BY <2>1 DEF st
    <3> QED BY <2>2, <3>1 DEF sret, PRIVILEGE_LEVEL_USER
  <2>4. /\ mode' = "vmm" /\ pc = At("run") /\ sepc' = At("user")
        /\ ienable' = ienable /\ ipending' = ipending /\ external' = external /\ sp' = sp
        /\ UNCHANGED <<setup_vars, mscratch, t0, frame_sp, clint_vars, history_vars>>
    BY <1>9 DEF KernelStartsUser, KernelAt, Ends, stack_vars, hart_stack_vars
  <2>5. sepc' \in Pcs
    BY <1>5, <2>4 DEF IsGuestPc
  <2>6. UNCHANGED <<mepc, mcause, setup_vars, mscratch, t0, frame_sp, clint_vars, history_vars>>
    BY <2>3, <2>4
  <2> QED BY <1>1, <1>2, <1>3, <1>4, <1>5, <2>3, <2>4, <2>5, <2>6, GuestMoves
<1>10. CASE KernelWaits
  <2>1. /\ UNCHANGED <<trap_vars, ienable, setup_vars, stack_vars, mtimecmp, msip, deadline,
                       fw_depth, interrupted>>
        /\ mtime' \in {mtime, clint_skip_to_next_deadline(mtime)} /\ ipending' = Refreshed(mtime')
        /\ mode' = "vmm" /\ external' = external /\ nr_external' = nr_external
        /\ pc = At("run") /\ pc' = pc
    BY <1>10 DEF KernelWaits, KernelAt, Ends, device_vars, history_vars, trap_vars
  <2>2. pc.at = "run" /\ ~InFirmware
    BY <1>2, <1>3, <2>1
  <2>3. mtimecmp \in 0 .. MaxTime \cup {Forever}
    BY <2>2, SbiAssumption DEF SbiInv, Comparator
  <2>4. mtime' \in 0 .. MaxTime /\ mtime' >= mtime
    BY <2>1, <2>3, ClockFacts, ClintAssumption DEF clint_skip_to_next_deadline
  <2>5. ipending' \subseteq Interrupts /\ ("STI" \in ipending' <=> "STI" \in ipending)
    BY <2>1, RefreshFacts
  <2>6. SbiInv'
    BY <1>1, <2>1, <2>4, <2>5, VmmQuiet
  <2> QED BY <2>1, <2>2, <2>6 DEF InFirmware
<1>11. CASE GuestRuns
  <2>1. /\ mode' = "vmm" /\ sp' \in GuestSps /\ status' = status /\ pc' = pc
        /\ privilege_level' = privilege_level /\ sepc' = sepc
        /\ ienable' = ienable /\ ipending' = ipending /\ external' = external
        /\ UNCHANGED <<mepc, mcause, setup_vars, mscratch, t0, frame_sp, clint_vars, history_vars>>
    BY <1>11 DEF GuestRuns, Ends, trap_vars
  <2>2. PICK place \in {"run", "user"} : pc = At(place)
    BY <1>11 DEF GuestRuns, KernelAt
  <2>3. place \in GuestPlaces /\ place \notin HandlerPlaces /\ place # "boot"
    BY <1>3, <1>4, <2>2
  <2>4. /\ pc.at = place /\ pc'.at = place /\ privilege_level' = LevelOf(place) /\ IsGuestPc(pc')
    BY <1>2, <2>1, <2>2, <2>3
  <2> QED BY <1>1, <2>1, <2>3, <2>4, GuestMoves
<1>12. CASE KernelHandles
  <2>1. /\ mode' = "vmm" /\ pc' = At("done") /\ sp' = sp
        /\ privilege_level' = privilege_level /\ status' = status /\ sepc' = sepc
        /\ ienable' = ienable
        /\ UNCHANGED <<mepc, mcause, setup_vars, mscratch, t0, frame_sp, clint_vars, history_vars>>
    BY <1>12 DEF KernelHandles, Goto, Ends, stack_vars, hart_stack_vars
  <2>2. PICK place \in {"soft", "external", "syscall"} : pc = At(place)
    BY <1>12 DEF KernelHandles, KernelAt
  <2>3. ipending' \in {ipending, ipending \ {"SSI"}} /\ external' \in BOOLEAN
    <3>1. "SSI" \notin csrrc("sip", {"SSI"})
      BY PendingCsrs DEF SbiInv
    <3> QED BY <1>1, <1>12, <3>1 DEF KernelHandles, csr_sip_write
  <2>4. place \in KernelPlaces /\ place \in HandlerPlaces
    BY <1>3, <1>4, <2>2
  <2>5. pc.at = place /\ privilege_level' = 1 /\ pc.at \in GuestPlaces
    BY <1>2, <1>3, <1>5, <2>1, <2>2, <2>4
  <2>6. IsGuestPc(pc') /\ pc'.at = "done" /\ LevelOf(pc'.at) = 1
    BY <1>3, <1>5, <2>1
  <2> QED BY <1>1, <2>1, <2>3, <2>4, <2>5, <2>6, GuestMoves
<1>13. CASE KernelReturns
  <2>1. /\ mode' = "vmm" /\ pc = At("done") /\ sret(status, sepc) /\ sepc' = sepc /\ sp' = sp
        /\ ienable' = ienable /\ ipending' = ipending /\ external' = external
        /\ UNCHANGED <<setup_vars, mscratch, t0, frame_sp, clint_vars, history_vars>>
    BY <1>13 DEF KernelReturns, KernelAt, Ends, stack_vars, hart_stack_vars
  <2>2. /\ pc' = sepc /\ privilege_level' = status.spp /\ mepc' = mepc /\ mcause' = mcause
        /\ status' \in [uie : BOOLEAN, upie : BOOLEAN, sie : BOOLEAN, spie : BOOLEAN, spp : {0, 1},
                        mie : BOOLEAN, mpie : BOOLEAN, mpp : {0, 1, 3}]
    BY <1>1, <2>1 DEF sret, PRIVILEGE_LEVEL_USER
  <2>3. pc.at = "done" /\ ~Booting /\ ~InFirmware /\ pc.at \in GuestPlaces
    BY <1>2, <1>3, <2>1
  <2>4. IsGuestPc(sepc) /\ sepc.at \in {"run", "user"} /\ status.spp = LevelOf(sepc.at)
    BY <1>4, <2>3 DEF SbiInv, KernelTraps, GuestPc
  <2>5. /\ IsGuestPc(pc') /\ privilege_level' = LevelOf(pc'.at) /\ pc'.at \notin HandlerPlaces
        /\ pc'.at # "boot"
    BY <1>4, <2>2, <2>4
  <2>6. UNCHANGED <<mepc, mcause, setup_vars, mscratch, t0, frame_sp, clint_vars, history_vars>>
    BY <2>1, <2>2
  <2> QED BY <1>1, <2>1, <2>2, <2>3, <2>5, <2>6, GuestMoves
<1>14. CASE KernelSchedules
  <2>1. /\ mode' = "vmm" /\ pc = At("syscall") /\ pc' = At("run") /\ sp' = sp
        /\ privilege_level' = privilege_level /\ status' = status /\ sepc' = sepc
        /\ ienable' = ienable /\ ipending' = ipending /\ external' = external
        /\ UNCHANGED <<mepc, mcause, setup_vars, mscratch, t0, frame_sp, clint_vars, history_vars>>
    BY <1>14 DEF KernelSchedules, KernelAt, Goto, Ends, stack_vars, hart_stack_vars
  <2> QED BY <1>1, <1>2, <1>3, <1>4, <1>5, <2>1, GuestMoves
<1> QED BY <1>6, <1>7, <1>8, <1>9, <1>10, <1>11, <1>12, <1>13, <1>14 DEF Kernel

\* The inductive invariant holds in every state.
LEMMA SbiStep == SbiInv /\ [Next]_vars => SbiInv'
<1> SUFFICES ASSUME SbiInv, [Next]_vars PROVE SbiInv'
  OBVIOUS
<1>1. CASE PumpDelivers \/ PumpResumes \/ DeviceRaises
  BY <1>1, PumpStep
<1>2. CASE Firmware
  <2>1. CASE Boots
    BY <2>1, BootStep, BootReturns
  <2>2. CASE TrapEntry \/ TrapExit
    BY <2>2, TrapEntryStep, TrapExitStep
  <2>3. CASE FirmwareDispatches \/ ForwardTick
    BY <2>3, DispatchStep, TickStep
  <2>4. CASE ForwardIpi \/ sbi_send_ipi \/ ClearIpi
    BY <2>4, IpiStep
  <2>5. CASE SetTimer \/ SetTimerCsrs
    BY <2>5, SetTimerStep
  <2>6. CASE SkipEcall \/ FirmwareReturns
    BY <2>6, SkipStep, ReturnStep
  <2> QED BY <1>2, <2>1, <2>2, <2>3, <2>4, <2>5, <2>6 DEF Firmware
<1>3. CASE Kernel
  <2>1. CASE \E c \in {"ecall_s", "ecall_u"} : Ecall(c)
    BY <2>1, EcallStep
  <2>2. CASE \A c \in {"ecall_s", "ecall_u"} : ~Ecall(c)
    BY <1>3, <2>2, KernelStep
  <2> QED BY <2>1, <2>2
<1>4. CASE UNCHANGED vars
  <2>1. /\ UNCHANGED <<trap_vars, ienable, setup_vars, stack_vars, mtimecmp, msip, deadline,
                       fw_depth, interrupted>>
        /\ ipending' = ipending /\ mtime' = mtime /\ mode' = mode /\ external' = external
        /\ nr_external' = nr_external
    BY <1>4 DEF vars, clint_vars, history_vars
  <2>2. mode \in {"guest", "vmm"} /\ external \in BOOLEAN /\ nr_external \in 0 .. MaxExternal
    BY DEF SbiInv, TypeOK
  <2>3. mtime' \in 0 .. MaxTime /\ mtime' >= mtime
    BY <2>1, ClockFacts
  <2>4. ipending' \subseteq Interrupts /\ ("STI" \in ipending' <=> "STI" \in ipending)
    BY <2>1, Typed
  <2> QED BY <2>1, <2>2, <2>3, <2>4, VmmQuiet
<1> QED BY <1>1, <1>2, <1>3, <1>4 DEF Next

\* Only the firmware's mret leaves it.
LEMMA OnlyMretLeaves ==
    ASSUME SbiInv, Next, InFirmware, ~FirmwareReturns PROVE InFirmware'
<1>1. pc.at \notin BootPlaces /\ pc.at \notin GuestPlaces /\ pc.call = "none" /\ Levels
  BY DEF SbiInv, Placed, InFirmware, BootPlaces, FirmwarePlaces, GuestPlaces, KernelPlaces
<1>2. \A place \in GuestPlaces : ~KernelAt(place) /\ pc # At(place)
  BY <1>1 DEF KernelAt, At
<1>3. \A place \in BootPlaces : ~FwAt(place)
  BY <1>1 DEF FwAt
<1>4. ~PumpDelivers
  BY <1>1, MachineIsMasked DEF PumpDelivers
<1>5. CASE PumpResumes \/ DeviceRaises
  BY <1>5 DEF PumpResumes, DeviceRaises, trap_vars, InFirmware
<1>6. ~Boots
  BY <1>3 DEF Boots, RomEntry, sbi_init, Delegates, SetsPreviousLevel, enter_supervisor, BootPlaces
<1>7. ~Kernel
  <2>1. ~KernelBoots /\ ~KernelPreparesCall /\ ~KernelUnmasks /\ ~KernelMasks /\ ~KernelStartsUser
    BY <1>2 DEF KernelBoots, KernelPreparesCall, KernelUnmasks, KernelMasks, KernelStartsUser,
       GuestPlaces, KernelPlaces
  <2>2. ~KernelWaits /\ ~GuestRuns /\ ~KernelHandles /\ ~KernelReturns /\ ~KernelSchedules
    BY <1>2 DEF KernelWaits, GuestRuns, KernelHandles, KernelReturns, KernelSchedules,
       GuestPlaces, KernelPlaces
  <2>3. \A c \in {"ecall_s", "ecall_u"} : ~Ecall(c)
    BY <1>1, <1>2 DEF Ecall, GuestPlaces
  <2> QED BY <2>1, <2>2, <2>3 DEF Kernel
<1>8. CASE Firmware
  <2>1. \A place \in FirmwarePlaces : pc' = At(place) => InFirmware'
    BY DEF InFirmware, At
  <2>2. CASE TrapEntry \/ TrapExit \/ ForwardTick \/ ForwardIpi
    BY <2>1, <2>2 DEF TrapEntry, TrapExit, ForwardTick, ForwardIpi, Goto, FirmwarePlaces
  <2>3. CASE SetTimer \/ SetTimerCsrs \/ sbi_send_ipi \/ ClearIpi \/ SkipEcall
    BY <2>1, <2>3 DEF SetTimer, SetTimerCsrs, sbi_send_ipi, ClearIpi, SkipEcall, Goto,
       FirmwarePlaces
  <2>4. CASE FirmwareDispatches
    <3>1. PICK place \in {"mti_1", "msi_1", "set_timer_1", "send_ipi", "clear_ipi", "skip_ecall",
                          "fw_fatal"} : Goto(place)
      BY <2>4 DEF FirmwareDispatches
    <3> QED BY <2>1, <3>1 DEF Goto, FirmwarePlaces
  <2> QED BY <1>6, <1>8, <2>2, <2>3, <2>4 DEF Firmware
<1> QED BY <1>4, <1>5, <1>7, <1>8 DEF Next

\* What FirmwareIsTransparent says of a step, as a step.
LEMMA TransparentStep ==
    ASSUME SbiInv, [Next]_vars, InFirmware, ~InFirmware'
    PROVE  /\ privilege_level' = interrupted.privilege_level
           /\ status'.sie = interrupted.sie
           /\ status'.spie = interrupted.spie
           /\ status'.spp = interrupted.spp
           /\ sp' = interrupted.sp
           /\ pc' = IF mcause = "ecall_s" THEN Next4(interrupted.pc) ELSE interrupted.pc
<1>1. Next
  BY DEF vars, trap_vars, InFirmware
<1>2. FirmwareReturns
  BY <1>1, OnlyMretLeaves
<1> QED BY <1>2, ReturnStep

LEMMA TickIsKept == SbiInv => TickIsNotLost
BY DEF SbiInv, Tick, TickIsNotLost, InFirmware, FirmwarePlaces

----------------------------------------------------------------------------

\* The CSRs of hart and CLINT, the stacks and the firmware's place stay in their
\* types from reset on.
THEOREM SbiTypeTheorem == Spec => []TypeOK
<1>1. SbiInv => TypeOK
  BY DEF SbiInv
<1> QED BY SbiInit, SbiStep, <1>1, PTL DEF Spec

\* The firmware of bootrom/sbi.c is never entered while it runs, nor for a cause it
\* does not handle: whatever the hart delivers, whichever deadlines the kernel asks
\* for and wherever its stack is.
THEOREM ReentryTheorem == Spec => []FirmwareIsNotReentered
<1>1. SbiInv => FirmwareIsNotReentered
  BY DEF SbiInv
<1> QED BY SbiInit, SbiStep, <1>1, PTL DEF Spec

\* sbi_set_timer and the machine timer handler together never forget a deadline:
\* outside the firmware the comparator holds it with the machine timer enabled, or
\* the supervisor's tick is pending.
THEOREM TickTheorem == Spec => []TickIsNotLost
BY SbiInit, SbiStep, TickIsKept, PTL DEF Spec

\* No tick reaches the supervisor before its deadline, for every width of the
\* comparator's halves and every deadline: the machine timer bit follows the
\* comparator while sbi_set_timer writes it in three stores, but is delivered only
\* outside the firmware, where the comparator is whole and holds the deadline.
THEOREM EarlyTheorem == Spec => []NoEarlyTick
<1>1. SbiInv => NoEarlyTick
  BY DEF SbiInv
<1> QED BY SbiInit, SbiStep, <1>1, PTL DEF Spec

\* What the firmware interrupts continues with its level, its supervisor status
\* bits, its stack pointer and its place, past the ecall if it made one.
THEOREM TransparentTheorem == Spec => FirmwareIsTransparent
<1>1. SbiInv /\ [Next]_vars =>
        [ InFirmware /\ ~InFirmware' =>
            /\ privilege_level' = interrupted.privilege_level
            /\ status'.sie = interrupted.sie
            /\ status'.spie = interrupted.spie
            /\ status'.spp = interrupted.spp
            /\ sp' = interrupted.sp
            /\ pc' = IF mcause = "ecall_s" THEN Next4(interrupted.pc) ELSE interrupted.pc ]_vars
  BY TransparentStep
<1> QED BY SbiInit, SbiStep, <1>1, PTL DEF Spec, FirmwareIsTransparent
=============================================================================
