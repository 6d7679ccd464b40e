------------------------------ MODULE Console ------------------------------
(***************************************************************************)
(* Console input end to end: the operator types, the vmm polls at          *)
(* translation unit boundaries and while the guest idles, the uart raises  *)
(* its line, the interrupt controller raises the supervisor's external     *)
(* interrupt, the hart delivers it, and the guest's driver claims, reads   *)
(* and completes (hart_interrupt.c, emulate_uart.c, emulate_plic.c).       *)
(*                                                                         *)
(* The driver is guest software and not part of the repository: a minimal  *)
(* one, in the manner of the kernel the emulator is built to boot.         *)
(***************************************************************************)
EXTENDS Uart

CONSTANTS
    NrSources, Contexts, MaxPriority,   \* see Plic
    UART0,         \* PLIC_IRQ_UART0
    Supervisor,    \* PLIC_CONTEXT_SUPERVISOR of the hart
    PollInterval,  \* CONSOLE_POLL_INTERVAL
    MaxRead        \* the size of buf in uart_poll_input

ASSUME ConsoleAssumption ==
    /\ NrSources \in Nat
    /\ UART0 \in 1 .. NrSources - 1
    /\ Supervisor \in Contexts
    /\ PollInterval \in Nat
    /\ MaxRead \in Nat \ {0}
    /\ MaxPriority \in Nat \ {0}

VARIABLES
    priority, asserted, pending, claimed, enable, threshold, ipending, outstanding,
    mode,           \* guest, pump, poll, refresh, deliver or exit
    idling,         \* in hart_idle: at its own poll, or past it; else no
    poll_countdown, \* the static of refresh_device_interrupts
    nr_read,        \* bytes of this read already handled
    driver          \* where the guest's driver is

P == INSTANCE Plic

level_vars == <<asserted, pending, claimed, outstanding>>
config_vars == <<priority, enable, threshold>>
plic_vars == <<level_vars, config_vars, ipending>>
vmm_vars == <<mode, idling, poll_countdown, nr_read>>
vars == <<uart_vars, plic_vars, vmm_vars, driver>>

----------------------------------------------------------------------------
(* The vmm *)

PollNever == FALSE

PollIsDue == poll_countdown = 0

\* refresh_device_interrupts begins: poll, or count down.
PumpBegins ==
    /\ mode = "pump"
    /\ IF PollIsDue
       THEN mode' = "poll" /\ poll_countdown' = PollInterval
       ELSE mode' = "refresh" /\ poll_countdown' = poll_countdown - 1
    /\ nr_read' = 0
    /\ UNCHANGED <<uart_vars, plic_vars, idling, driver>>

\* uart_poll_input handles a byte of what it read.
PollByte(b) ==
    /\ mode = "poll"
    /\ nr_read < MaxRead
    /\ nr_read' = nr_read + 1
    /\ IF EndsEmulator(b)
       THEN mode' = "exit" /\ UNCHANGED uart_vars
       ELSE mode' = mode /\ Receive(b)
    /\ UNCHANGED <<plic_vars, idling, poll_countdown, driver>>

\* The poll of hart_idle comes before all of refresh_device_interrupts.
PollEnds ==
    /\ mode = "poll"
    /\ IF idling = "poll"
       THEN mode' = "pump" /\ idling' = "past"
       ELSE mode' = "refresh" /\ idling' = idling
    /\ UNCHANGED <<uart_vars, plic_vars, poll_countdown, nr_read, driver>>

\* uart_refresh_interrupt, for the state of the uart after the step.
uart_refresh_interrupt ==
    P!plic_set_pending(UART0, uart_interrupt_pending')

RefreshUart ==
    /\ mode = "refresh"
    /\ mode' = "deliver"
    /\ UNCHANGED uart_vars
    /\ uart_refresh_interrupt
    /\ UNCHANGED <<config_vars, ipending, idling, poll_countdown, nr_read, driver>>

InterruptsEnabled == driver = "idle"

\* plic_refresh_pending, and then the pump delivers the interrupt, which ends
\* in vmexit and so in another pump, or resumes the guest.
Deliver ==
    /\ mode = "deliver"
    /\ idling = "no"
    /\ P!plic_refresh_pending
    /\ IF Supervisor \in ipending' /\ InterruptsEnabled
       THEN driver' = "entered" /\ mode' = "pump"
       ELSE driver' = driver /\ mode' = "guest"
    /\ UNCHANGED <<uart_vars, level_vars, config_vars, idling, poll_countdown, nr_read>>

\* plic_refresh_pending inside hart_idle: leave when an interrupt is pending or
\* after the last of 64 turns, else poll again.
Idle ==
    /\ mode = "deliver"
    /\ idling = "past"
    /\ P!plic_refresh_pending
    /\ \/ mode' = "pump" /\ idling' = "no" /\ UNCHANGED nr_read
       \/ /\ Supervisor \notin ipending'
          /\ mode' = "poll" /\ idling' = "poll" /\ nr_read' = 0
    /\ UNCHANGED <<uart_vars, level_vars, config_vars, poll_countdown, driver>>

Vmm == PumpBegins \/ PollEnds \/ RefreshUart \/ Deliver \/ Idle

----------------------------------------------------------------------------
(* The guest *)

\* After an access the translation unit goes on, or ends.
Continue(next) ==
    /\ driver' = next
    /\ mode' \in {"guest", "pump"}
    /\ UNCHANGED <<idling, poll_countdown, nr_read>>

At(d) == mode = "guest" /\ driver = d

NoRefresh == UNCHANGED level_vars

\* The last statement of uart_mmio_read and uart_mmio_write.
MmioRefresh == uart_refresh_interrupt

OnUart(next, Access) ==
    /\ Access
    /\ MmioRefresh
    /\ UNCHANGED <<config_vars, ipending>>
    /\ Continue(next)

OnPlic(next, Access) ==
    /\ Access
    /\ UNCHANGED uart_vars
    /\ Continue(next)

\* Probe: route the interrupt, set the line speed, reset the fifo, and enable
\* the receive interrupt.
DriverBoots ==
    \/ At("off") /\ OnPlic("routed", P!WritePriority(UART0, 1))
    \/ At("routed") /\ OnPlic("latch", P!WriteEnable(Supervisor, {UART0}))
    \/ At("latch") /\ OnUart("speed", WriteLcr(TRUE))
    \/ At("speed") /\ OnUart("unlatch", WriteIer({"thr"}))
    \/ At("unlatch") /\ OnUart("reset", WriteLcr(FALSE))
    \/ At("reset") /\ OnUart("listen", WriteFcr)
    \/ At("listen") /\ OnUart("idle", WriteIer({"rx"}))

StartTransmit == At("idle") /\ OnUart("idle", WriteIer({"rx", "thr"}))

\* Something else, up to the end of a translation unit.
Compute ==
    /\ At("idle")
    /\ mode' = "pump"
    /\ UNCHANGED <<uart_vars, plic_vars, idling, poll_countdown, nr_read, driver>>

\* wfi: hart_idle polls before anything else.
Wfi ==
    /\ At("idle")
    /\ mode' = "poll"
    /\ idling' = "poll"
    /\ nr_read' = 0
    /\ UNCHANGED <<uart_vars, plic_vars, poll_countdown, driver>>

\* The handler claims until there is nothing left, then returns.
HandlerClaims ==
    /\ At("entered") \/ At("claim")
    /\ OnPlic(IF P!plic_best_source(Supervisor) = UART0 THEN "iir" ELSE "idle",
              P!Claim(Supervisor))

HandlerServes ==
    \/ At("iir") /\ OnUart(IF Iir = "none" THEN "complete" ELSE Iir, UNCHANGED uart_vars)
    \/ At("rx") /\ OnUart("lsr", ReadQueue)
    \/ At("lsr") /\ OnUart(IF uart_rx_empty THEN "iir" ELSE "rx", UNCHANGED uart_vars)
    \/ At("thr") /\ OnUart("complete", WriteIer({"rx"}))

HandlerCompletes ==
    At("complete") /\ OnPlic("claim", P!Complete(Supervisor, UART0))

Handler == HandlerClaims \/ HandlerServes \/ HandlerCompletes

Exited == mode = "exit" /\ UNCHANGED vars

Init ==
    /\ uart_init
    /\ P!plic_init
    /\ mode = "guest"
    /\ idling = "no"
    /\ poll_countdown = 0
    /\ nr_read = 0
    /\ driver = "off"

Next ==
    \/ Vmm
    \/ \E b \in Bytes : PollByte(b)
    \/ DriverBoots
    \/ StartTransmit
    \/ Compute
    \/ Wfi
    \/ Handler
    \/ Exited

Spec == Init /\ [][Next]_vars

\* The emulator's thread runs; the guest's code runs on, and comes to the end of
\* a translation unit (GuestReturnsToVmm in TranslationCache).
FairSpec ==
    /\ Spec
    /\ WF_vars(Vmm)
    /\ WF_vars(DriverBoots)
    /\ WF_vars(Handler)
    /\ WF_vars(Compute)

----------------------------------------------------------------------------
(* Properties *)

Places == {"off", "routed", "latch", "speed", "unlatch", "reset", "listen", "idle",
           "entered", "claim", "iir", "rx", "lsr", "thr", "complete"}

\* Types, and the indices of the ring, the poll countdown and the bytes of one
\* read within their bounds.
TypeOK ==
    /\ UartTypeOK
    /\ P!TypeOK
    /\ mode \in {"guest", "pump", "poll", "refresh", "deliver", "exit"}
    /\ idling \in {"no", "poll", "past"}
    /\ poll_countdown \in 0 .. PollInterval
    /\ nr_read \in 0 .. MaxRead
    /\ driver \in Places

\* Wherever someone may look at it, the line of the uart at the interrupt
\* controller is what the state of the uart asks for: no access to a register
\* and no poll leaves a stale level behind.
LineMatchesUart ==
    mode \in {"guest", "deliver"} =>
        (UART0 \in asserted <=> uart_interrupt_pending)

\* An external interrupt that is delivered is still there when the handler
\* makes its first claim.
HandlerFindsWork ==
    driver = "entered" => P!plic_best_source(Supervisor) = UART0

\* A byte in the ring is read by the driver sooner or later, also one that
\* arrives between the last look of the handler and its completion.
ReceivedIsRead ==
    \A h \in 0 .. FifoSize - 1 :
        (rx_head = h /\ ~uart_rx_empty)
            ~> (rx_head # h \/ uart_rx_empty \/ mode = "exit")
=============================================================================
