------------------------------- MODULE Uart --------------------------------
(***************************************************************************)
(* The NS16550 console (emulate_uart.c): a ring buffer between the bytes   *)
(* the operator types and the guest's reads of the data register, the      *)
(* registers that decide what an access means and whether the interrupt    *)
(* line is up, and the escape character that lets the operator quit.       *)
(*                                                                         *)
(* Registers whose content has no effect (scratch, modem control, fifo     *)
(* control, the divisor) are left out, and so is what the guest transmits. *)
(***************************************************************************)
EXTENDS Naturals, Sequences

CONSTANTS
    FifoSize,  \* UART_RX_FIFO_SIZE
    Bytes,     \* what can be typed
    Escape,    \* UART_ESCAPE_CHAR, ctrl-a
    Quit       \* the letter x

ASSUME UartAssumption ==
    /\ FifoSize \in Nat \ {0}
    /\ Escape \in Bytes
    /\ Quit \in Bytes
    /\ Escape # Quit

VARIABLES
    ier,           \* a subset of {"rx", "thr"}
    dlab,          \* the divisor latch bit of the line control register
    rx_fifo,
    rx_head,
    rx_tail,
    escape_armed,
    queue          \* history: the bytes taken in and not yet read

fifo_vars == <<rx_fifo, rx_head, rx_tail, queue>>
uart_vars == <<ier, dlab, fifo_vars, escape_armed>>

uart_rx_empty == rx_head = rx_tail

PushOverwriting(ch) ==
    /\ rx_fifo' = [rx_fifo EXCEPT ![rx_tail] = ch]
    /\ rx_tail' = (rx_tail + 1) % FifoSize
    /\ queue' = Append(queue, ch)
    /\ UNCHANGED rx_head

\* A byte that finds the ring full is dropped.
uart_rx_push(ch) ==
    LET next == (rx_tail + 1) % FifoSize IN
    IF next = rx_head THEN UNCHANGED fifo_vars
    ELSE /\ rx_fifo' = [rx_fifo EXCEPT ![rx_tail] = ch]
         /\ rx_tail' = next
         /\ queue' = Append(queue, ch)
         /\ UNCHANGED rx_head

uart_rx_pop ==
    IF uart_rx_empty THEN UNCHANGED fifo_vars
    ELSE /\ rx_head' = (rx_head + 1) % FifoSize
         /\ queue' = Tail(queue)
         /\ UNCHANGED <<rx_fifo, rx_tail>>

\* One turn of the loop of uart_poll_input, unless the byte ends the emulator.
Receive(b) ==
    /\ IF escape_armed
       THEN escape_armed' = FALSE /\ uart_rx_push(b)
       ELSE IF b = Escape
       THEN escape_armed' = TRUE /\ UNCHANGED fifo_vars
       ELSE UNCHANGED escape_armed /\ uart_rx_push(b)
    /\ UNCHANGED <<ier, dlab>>

EndsEmulator(b) == escape_armed /\ b = Quit

uart_interrupt_pending ==
    \/ "rx" \in ier /\ ~uart_rx_empty
    \/ "thr" \in ier

----------------------------------------------------------------------------
(* Accesses that change the device.  Each handler ends by recomputing the  *)
(* interrupt line, see Console.                                            *)

ReadQueue ==
    /\ IF dlab THEN UNCHANGED fifo_vars ELSE uart_rx_pop
    /\ UNCHANGED <<ier, dlab, escape_armed>>

WriteIer(value) ==
    /\ ier' = IF dlab THEN ier ELSE value
    /\ UNCHANGED <<dlab, fifo_vars, escape_armed>>

WriteLcr(value) ==
    /\ dlab' = value
    /\ UNCHANGED <<ier, fifo_vars, escape_armed>>

\* With bit 1 of the value set.
WriteFcr ==
    /\ rx_head' = 0
    /\ rx_tail' = 0
    /\ queue' = <<>>
    /\ UNCHANGED <<ier, dlab, rx_fifo, escape_armed>>

\* What the interrupt identification register answers.
Iir ==
    IF "rx" \in ier /\ ~uart_rx_empty THEN "rx"
    ELSE IF "thr" \in ier THEN "thr"
    ELSE "none"

uart_init ==
    /\ ier = {}
    /\ dlab = FALSE
    /\ rx_fifo \in [0 .. FifoSize - 1 -> {Quit}]
    /\ rx_head = 0
    /\ rx_tail = 0
    /\ escape_armed = FALSE
    /\ queue = <<>>

----------------------------------------------------------------------------
(* Properties *)

\* Types; both indices stay inside the ring.
UartTypeOK ==
    /\ ier \subseteq {"rx", "thr"}
    /\ dlab \in BOOLEAN
    /\ rx_fifo \in [0 .. FifoSize - 1 -> Bytes]
    /\ rx_head \in 0 .. FifoSize - 1
    /\ rx_tail \in 0 .. FifoSize - 1
    /\ escape_armed \in BOOLEAN
    /\ queue \in Seq(Bytes)

\* The ring between rx_head and rx_tail holds the bytes taken in and not yet
\* read, in order: none is overwritten, repeated or skipped when the indices
\* wrap or when the ring is full.
FifoIsQueue ==
    /\ Len(queue) = (rx_tail + FifoSize - rx_head) % FifoSize
    /\ \A i \in 1 .. Len(queue) :
        queue[i] = rx_fifo[(rx_head + i - 1) % FifoSize]
=============================================================================
