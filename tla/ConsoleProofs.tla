---------------------------- MODULE ConsoleProofs ----------------------------
(***************************************************************************)
(* Proofs about the console, for rings of any size, any number of          *)
(* interrupt sources and any poll interval.                                *)
(*                                                                         *)
(* The line of the uart is stale while the vmm polls, so LineMatchesUart   *)
(* and HandlerFindsWork need to know which way it can be stale: a poll     *)
(* only adds bytes, so an asserted line always has a reason                *)
(* (LineHasReason), and it stays asserted until the handler that was       *)
(* entered for it has run.                                                 *)
(***************************************************************************)
EXTENDS Console, TLAPS

\* Where the handler has claimed the uart and not yet completed.
Serving == {"iir", "rx", "lsr", "thr", "complete"}

\* The driver routed the uart, and only it, to the supervisor.
Routed ==
    /\ driver # "off" => priority[UART0] = 1
    /\ driver \notin {"off", "routed"} => enable[Supervisor] = {UART0}
    /\ threshold[Supervisor] = 0

\* No other device drives a line, and a claim lasts as long as its service.
OnlyTheUart ==
    /\ asserted \subseteq {UART0}
    /\ pending = asserted
    /\ claimed = IF driver \in Serving THEN {UART0} ELSE {}
    /\ \A s \in P!Sources : outstanding[s] = IF s \in claimed THEN 1 ELSE 0

\* The line may be late to go up, never to go down.
LineHasReason == UART0 \in asserted => uart_interrupt_pending

\* The line is up from the delivery of the interrupt to the first claim.
LineStaysUp == driver = "entered" => UART0 \in asserted

ConsoleInv ==
    /\ TypeOK
    /\ FifoIsQueue
    /\ Routed
    /\ OnlyTheUart
    /\ LineHasReason
    /\ LineMatchesUart
    /\ LineStaysUp

----------------------------------------------------------------------------
(* The ring *)

\* The index behind i.
LEMMA SuccessorInRing ==
    ASSUME NEW m \in Nat \ {0}, NEW i \in 0 .. m - 1
    PROVE  (i + 1) % m = IF i + 1 < m THEN i + 1 ELSE 0
<1>1. i + 1 \in Nat /\ i + 1 <= m
  OBVIOUS
<1>2. (i + 1) % m = IF i + 1 < m THEN i + 1 ELSE i + 1 - m
  BY <1>1
<1> QED BY <1>1, <1>2

\* The number of items between two indices.
LEMMA RingDistance ==
    ASSUME NEW m \in Nat \ {0}, NEW h \in 0 .. m - 1, NEW t \in 0 .. m - 1
    PROVE  (t + m - h) % m = IF t < h THEN t + m - h ELSE t - h
<1>1. t + m - h \in Nat /\ t + m - h < 2 * m
  OBVIOUS
<1>2. (t + m - h) % m = IF t + m - h < m THEN t + m - h ELSE t + m - h - m
  BY <1>1
<1> QED BY <1>2

\* Where the ring's items are: the one behind the last goes to the tail, and
\* none before it does.
LEMMA RingPlaces ==
    ASSUME NEW m \in Nat \ {0}, NEW h \in 0 .. m - 1, NEW t \in 0 .. m - 1,
           NEW i \in 1 .. ((t + m - h) % m) + 1
    PROVE  /\ (h + i - 1) % m \in 0 .. m - 1
           /\ (h + i - 1) % m = t <=> i = ((t + m - h) % m) + 1
<1>1. (t + m - h) % m = IF t < h THEN t + m - h ELSE t - h
  BY RingDistance, Zenon
<1>2. h + i - 1 \in Nat /\ h + i - 1 < 2 * m
  BY <1>1
<1>3. (h + i - 1) % m = IF h + i - 1 < m THEN h + i - 1 ELSE h + i - 1 - m
  BY <1>2
<1> QED BY <1>1, <1>3

\* An index counted from the successor g of h.
LEMMA NextRound ==
    ASSUME NEW m \in Nat \ {0}, NEW h \in 0 .. m - 1, NEW g \in 0 .. m - 1,
           g = IF h + 1 < m THEN h + 1 ELSE 0, NEW i \in 1 .. m - 1
    PROVE  (h + (i + 1) - 1) % m = (g + i - 1) % m
<1>1. h + i \in Nat /\ h + i < 2 * m /\ g + i - 1 \in Nat /\ g + i - 1 < 2 * m
  OBVIOUS
<1>2. (h + i) % m = IF h + i < m THEN h + i ELSE h + i - m
  BY <1>1
<1>3. (g + i - 1) % m = IF g + i - 1 < m THEN g + i - 1 ELSE g + i - 1 - m
  BY <1>1
<1>4. h + (i + 1) - 1 = h + i
  OBVIOUS
<1> QED BY <1>2, <1>3, <1>4

\* uart_rx_push keeps the ring a queue, and does not empty it.
LEMMA PushKeepsQueue ==
    ASSUME UartTypeOK, FifoIsQueue, NEW b \in Bytes, uart_rx_push(b)
    PROVE  /\ rx_fifo' \in [0 .. FifoSize - 1 -> Bytes]
           /\ rx_head' \in 0 .. FifoSize - 1
           /\ rx_tail' \in 0 .. FifoSize - 1
           /\ queue' \in Seq(Bytes)
           /\ FifoIsQueue'
           /\ uart_rx_empty' => uart_rx_empty
<1> DEFINE next == (rx_tail + 1) % FifoSize
           n == Len(queue)
<1>1. /\ FifoSize \in Nat \ {0}
      /\ rx_head \in 0 .. FifoSize - 1 /\ rx_tail \in 0 .. FifoSize - 1
      /\ rx_fifo \in [0 .. FifoSize - 1 -> Bytes]
      /\ queue \in Seq(Bytes) /\ n \in Nat
  BY UartAssumption DEF UartTypeOK
<1>2. /\ n = (rx_tail + FifoSize - rx_head) % FifoSize
      /\ \A i \in 1 .. n : queue[i] = rx_fifo[(rx_head + i - 1) % FifoSize]
  BY DEF FifoIsQueue
<1>3. next = IF rx_tail + 1 < FifoSize THEN rx_tail + 1 ELSE 0
  BY <1>1, SuccessorInRing, Zenon
<1>4. n = IF rx_tail < rx_head THEN rx_tail + FifoSize - rx_head ELSE rx_tail - rx_head
  BY <1>1, <1>2, RingDistance, Zenon
<1> HIDE DEF next, n
<1>5. ASSUME NEW i \in 1 .. n + 1
      PROVE  /\ (rx_head + i - 1) % FifoSize \in 0 .. FifoSize - 1
             /\ (rx_head + i - 1) % FifoSize = rx_tail <=> i = n + 1
  BY <1>1, <1>2, RingPlaces, ZenonT(40)
<1>6. CASE next = rx_head
  <2>1. UNCHANGED fifo_vars
    BY <1>6 DEF uart_rx_push, next
  <2> QED BY <1>1, <2>1 DEF fifo_vars, FifoIsQueue, uart_rx_empty
<1>7. CASE next # rx_head
  <2>1. /\ rx_fifo' = [rx_fifo EXCEPT ![rx_tail] = b]
        /\ rx_tail' = next
        /\ queue' = Append(queue, b)
        /\ rx_head' = rx_head
    BY <1>7 DEF uart_rx_push, next
  <2>2. /\ queue' \in Seq(Bytes) /\ Len(queue') = n + 1
        /\ \A i \in 1 .. n : queue'[i] = queue[i]
        /\ queue'[n + 1] = b
    BY <1>1, <2>1 DEF n
  <2>3. next \in 0 .. FifoSize - 1
    BY <1>1, <1>3
  <2>4. n + 1 = (next + FifoSize - rx_head) % FifoSize
    <3>1. (next + FifoSize - rx_head) % FifoSize
            = IF next < rx_head THEN next + FifoSize - rx_head ELSE next - rx_head
      BY <1>1, <2>3, RingDistance, Zenon
    <3> QED BY <1>1, <1>3, <1>4, <1>7, <3>1
  <2>5. ASSUME NEW i \in 1 .. n + 1
        PROVE  queue'[i] = rx_fifo'[(rx_head + i - 1) % FifoSize]
    <3>1. CASE i = n + 1
      BY <1>1, <1>5, <2>1, <2>2, <3>1
    <3>2. CASE i \in 1 .. n
      <4>1. /\ (rx_head + i - 1) % FifoSize # rx_tail
            /\ (rx_head + i - 1) % FifoSize \in 0 .. FifoSize - 1
        BY <1>1, <1>5, <3>2
      <4>2. rx_fifo'[(rx_head + i - 1) % FifoSize] = rx_fifo[(rx_head + i - 1) % FifoSize]
        BY <1>1, <2>1, <4>1
      <4> QED BY <1>2, <2>2, <3>2, <4>2
    <3> QED BY <1>1, <3>1, <3>2
  <2>6. FifoIsQueue'
    BY <2>1, <2>2, <2>4, <2>5 DEF FifoIsQueue
  <2>7. rx_fifo' \in [0 .. FifoSize - 1 -> Bytes]
    BY <1>1, <2>1
  <2>8. ~uart_rx_empty'
    BY <1>7, <2>1 DEF uart_rx_empty
  <2> QED BY <1>1, <2>1, <2>2, <2>3, <2>6, <2>7, <2>8
<1> QED BY <1>6, <1>7

\* uart_rx_pop keeps the ring a queue.
LEMMA PopKeepsQueue ==
    ASSUME UartTypeOK, FifoIsQueue, uart_rx_pop
    PROVE  /\ rx_fifo' \in [0 .. FifoSize - 1 -> Bytes]
           /\ rx_head' \in 0 .. FifoSize - 1
           /\ rx_tail' \in 0 .. FifoSize - 1
           /\ queue' \in Seq(Bytes)
           /\ FifoIsQueue'
<1> DEFINE n == Len(queue)
           head == (rx_head + 1) % FifoSize
<1>1. /\ FifoSize \in Nat \ {0}
      /\ rx_head \in 0 .. FifoSize - 1 /\ rx_tail \in 0 .. FifoSize - 1
      /\ rx_fifo \in [0 .. FifoSize - 1 -> Bytes]
      /\ queue \in Seq(Bytes) /\ n \in Nat
  BY UartAssumption DEF UartTypeOK
<1>2. /\ n = (rx_tail + FifoSize - rx_head) % FifoSize
      /\ \A i \in 1 .. n : queue[i] = rx_fifo[(rx_head + i - 1) % FifoSize]
  BY DEF FifoIsQueue
<1>3. head = IF rx_head + 1 < FifoSize THEN rx_head + 1 ELSE 0
  BY <1>1, SuccessorInRing, Zenon
<1>4. n = IF rx_tail < rx_head THEN rx_tail + FifoSize - rx_head ELSE rx_tail - rx_head
  BY <1>1, <1>2, RingDistance, Zenon
<1> HIDE DEF n, head
<1>5. CASE uart_rx_empty
  <2>1. UNCHANGED fifo_vars
    BY <1>5 DEF uart_rx_pop
  <2> QED BY <1>1, <2>1 DEF fifo_vars, FifoIsQueue
<1>6. CASE ~uart_rx_empty
  <2>1. /\ rx_head' = head
        /\ queue' = Tail(queue)
        /\ rx_fifo' = rx_fifo /\ rx_tail' = rx_tail
    BY <1>6 DEF uart_rx_pop, head
  <2>2. n >= 1
    BY <1>1, <1>4, <1>6 DEF uart_rx_empty
  <2>3. /\ queue' \in Seq(Bytes) /\ Len(queue') = n - 1
        /\ \A i \in 1 .. n - 1 : queue'[i] = queue[i + 1]
    BY <1>1, <2>1, <2>2 DEF n
  <2>4. head \in 0 .. FifoSize - 1
    BY <1>1, <1>3
  <2>5. n - 1 = (rx_tail + FifoSize - head) % FifoSize
    <3>2. (rx_tail + FifoSize - head) % FifoSize
            = IF rx_tail < head THEN rx_tail + FifoSize - head ELSE rx_tail - head
      BY <1>1, <2>4, RingDistance, Zenon
    <3> QED BY <1>1, <1>3, <1>4, <1>6, <3>2 DEF uart_rx_empty
  <2>6. ASSUME NEW i \in 1 .. n - 1
        PROVE  queue'[i] = rx_fifo'[(head + i - 1) % FifoSize]
    <3>1. queue'[i] = rx_fifo[(rx_head + (i + 1) - 1) % FifoSize]
      <4>1. i + 1 \in 1 .. n
        BY <1>1
      <4> QED BY <1>2, <2>3, <4>1
    <3>2. (rx_head + (i + 1) - 1) % FifoSize = (head + i - 1) % FifoSize
      <4>1. i \in 1 .. FifoSize - 1
        BY <1>1, <1>4
      <4> QED BY <1>1, <1>3, <2>4, <4>1, NextRound
    <3> QED BY <2>1, <3>1, <3>2
  <2>7. FifoIsQueue'
    BY <2>1, <2>3, <2>5, <2>6 DEF FifoIsQueue
  <2> QED BY <1>1, <2>1, <2>3, <2>4, <2>7
<1> QED BY <1>5, <1>6

\* A byte that is polled keeps the ring a queue, and takes no reason for an
\* interrupt away.
LEMMA ReceiveKeepsQueue ==
    ASSUME UartTypeOK, FifoIsQueue, NEW b \in Bytes, Receive(b)
    PROVE  /\ UartTypeOK' /\ FifoIsQueue'
           /\ uart_interrupt_pending => uart_interrupt_pending'
<1>1. escape_armed' \in BOOLEAN /\ ier' = ier /\ dlab' = dlab
  BY DEF Receive, UartTypeOK
<1>2. CASE uart_rx_push(b)
  BY <1>1, <1>2, PushKeepsQueue DEF UartTypeOK, uart_interrupt_pending
<1>3. CASE UNCHANGED fifo_vars
  BY <1>1, <1>3 DEF fifo_vars, UartTypeOK, FifoIsQueue, uart_interrupt_pending,
     uart_rx_empty
<1> QED BY <1>2, <1>3 DEF Receive

----------------------------------------------------------------------------
(* The interrupt controller *)

\* Once the uart is routed the search finds it, if it asks and is not claimed.
LEMMA BestIsUart ==
    ASSUME ConsoleInv, driver \notin {"off", "routed"}
    PROVE  P!plic_best_source(Supervisor) =
               IF UART0 \in asserted /\ driver \notin Serving THEN UART0 ELSE 0
<1> DEFINE C == P!Candidates(Supervisor)
<1>1. C = IF UART0 \in asserted /\ driver \notin Serving THEN {UART0} ELSE {}
  <2>1. C = {s \in (pending \ claimed) \cap {UART0} : priority[s] > threshold[Supervisor]}
    BY DEF P!Candidates, ConsoleInv, Routed
  <2>2. priority[UART0] = 1 /\ threshold[Supervisor] = 0
    BY DEF ConsoleInv, Routed
  <2>3. pending = asserted /\ claimed = IF driver \in Serving THEN {UART0} ELSE {}
    BY DEF ConsoleInv, OnlyTheUart
  <2> HIDE DEF C
  <2> QED BY <2>1, <2>2, <2>3
<1> DEFINE Best(s) == \A t \in C : \/ priority[t] < priority[s]
                                   \/ priority[t] = priority[s] /\ s <= t
<1>2. P!plic_best_source(Supervisor) = IF C = {} THEN 0 ELSE CHOOSE s \in C : Best(s)
  BY DEF P!plic_best_source
<1>3. CASE UART0 \in asserted /\ driver \notin Serving
  <2>1. C = {UART0}
    BY <1>1, <1>3
  <2>2. Best(UART0)
    BY <2>1, ConsoleAssumption
  <2>3. (CHOOSE s \in C : Best(s)) = UART0
    <3> HIDE DEF Best
    <3> QED BY <2>1, <2>2
  <2> QED BY <1>2, <1>3, <2>1, <2>3
<1>4. CASE ~(UART0 \in asserted /\ driver \notin Serving)
  BY <1>1, <1>2, <1>4
<1> QED BY <1>3, <1>4

----------------------------------------------------------------------------
(* The steps *)

\* Everything is clear when the machine starts.
LEMMA ConsoleInit == Init => ConsoleInv
<1> SUFFICES ASSUME Init PROVE ConsoleInv
  OBVIOUS
<1>1. uart_init /\ P!plic_init /\ mode = "guest" /\ driver = "off"
  BY DEF Init
<1>2. UartTypeOK
  <2>1. rx_fifo \in [0 .. FifoSize - 1 -> Bytes]
    BY <1>1, UartAssumption DEF uart_init
  <2>2. queue \in Seq(Bytes)
    BY <1>1 DEF uart_init
  <2>3. 0 \in 0 .. FifoSize - 1
    BY UartAssumption
  <2> QED BY <1>1, <2>1, <2>2, <2>3 DEF uart_init, UartTypeOK
<1>3. P!TypeOK
  <2>1. 0 \in 0 .. 1 /\ 0 \in 0 .. MaxPriority
    BY ConsoleAssumption
  <2> QED BY <1>1, <2>1 DEF P!plic_init, P!TypeOK
<1>4. TypeOK
  BY <1>1, <1>2, <1>3, ConsoleAssumption DEF TypeOK, Init, Places
<1>5. FifoIsQueue
  <2>1. rx_head = 0 /\ rx_tail = 0 /\ queue = <<>> /\ Len(queue) = 0
    BY <1>1 DEF uart_init
  <2>2. (0 + FifoSize - 0) % FifoSize = 0
    BY UartAssumption, RingDistance
  <2> QED BY <2>1, <2>2 DEF FifoIsQueue
<1>6. /\ asserted = {} /\ pending = {} /\ claimed = {} /\ threshold[Supervisor] = 0
      /\ \A s \in P!Sources : outstanding[s] = 0
  BY <1>1, ConsoleAssumption DEF P!plic_init
<1>7. ~uart_interrupt_pending
  BY <1>1 DEF uart_init, uart_interrupt_pending
<1> QED BY <1>1, <1>4, <1>5, <1>6, <1>7 DEF ConsoleInv, Routed, OnlyTheUart,
     LineHasReason, LineMatchesUart, LineStaysUp, Serving

\* An access to the uart ends with its line recomputed.
LEMMA UartAccess ==
    ASSUME ConsoleInv, NEW next \in Places,
           driver \notin {"off", "routed"}, next \notin {"off", "routed", "entered"},
           driver \in Serving <=> next \in Serving,
           UartTypeOK', FifoIsQueue', MmioRefresh, Continue(next),
           UNCHANGED <<config_vars, ipending>>
    PROVE  ConsoleInv'
<1>1. /\ asserted' = IF uart_interrupt_pending' THEN asserted \cup {UART0} ELSE asserted \ {UART0}
      /\ pending' = IF uart_interrupt_pending' THEN pending \cup {UART0} ELSE pending \ {UART0}
      /\ claimed' = claimed /\ outstanding' = outstanding
  BY DEF MmioRefresh, uart_refresh_interrupt, P!plic_set_pending
<1>2. /\ driver' = next /\ mode' \in {"guest", "pump"}
      /\ idling' = idling /\ poll_countdown' = poll_countdown /\ nr_read' = nr_read
      /\ priority' = priority /\ enable' = enable /\ threshold' = threshold
      /\ ipending' = ipending
  BY DEF Continue, config_vars
<1>3. UART0 \in P!Sources
  BY ConsoleAssumption DEF P!Sources
<1>4. P!TypeOK'
  BY <1>1, <1>2, <1>3 DEF ConsoleInv, TypeOK, P!TypeOK
<1>5. TypeOK'
  BY <1>2, <1>4 DEF ConsoleInv, TypeOK
<1>6. OnlyTheUart'
  BY <1>1, <1>2 DEF ConsoleInv, OnlyTheUart
<1>7. UART0 \in asserted' <=> uart_interrupt_pending'
  BY <1>1
<1>8. Routed'
  BY <1>2 DEF ConsoleInv, Routed
<1> QED BY <1>2, <1>5, <1>6, <1>7, <1>8 DEF ConsoleInv, LineHasReason, LineMatchesUart,
     LineStaysUp

\* A step that leaves the uart, the lines, the routing and the driver alone, and
\* does not end where the line has to be fresh unless it was.
LEMMA QuietStep ==
    ASSUME ConsoleInv, TypeOK', UNCHANGED <<uart_vars, level_vars, config_vars>>,
           driver' = driver \/ (driver' = "entered" /\ driver = "idle" /\ UART0 \in asserted),
           mode' \in {"guest", "deliver"} => mode \in {"guest", "deliver"}
    PROVE  ConsoleInv'
<1>1. /\ asserted' = asserted /\ pending' = pending /\ claimed' = claimed
      /\ outstanding' = outstanding /\ enable' = enable /\ priority' = priority
      /\ threshold' = threshold
  BY DEF level_vars, config_vars
<1>2. FifoIsQueue' /\ (uart_interrupt_pending' <=> uart_interrupt_pending)
  BY DEF ConsoleInv, uart_vars, fifo_vars, FifoIsQueue, uart_interrupt_pending,
     uart_rx_empty
<1> QED BY <1>1, <1>2 DEF ConsoleInv, Routed, OnlyTheUart, LineHasReason,
     LineMatchesUart, LineStaysUp, Serving

\* An access to the interrupt controller leaves the uart and its line alone.
LEMMA PlicAccess ==
    ASSUME ConsoleInv, NEW next \in Places, mode = "guest",
           next # "entered", P!TypeOK', Continue(next), UNCHANGED uart_vars,
           asserted' = asserted, pending' = pending, Routed',
           claimed' = IF next \in Serving THEN {UART0} ELSE {},
           \A s \in P!Sources : outstanding'[s] = IF s \in claimed' THEN 1 ELSE 0
    PROVE  ConsoleInv'
<1>1. driver' = next /\ mode' \in {"guest", "pump"}
      /\ idling' = idling /\ poll_countdown' = poll_countdown /\ nr_read' = nr_read
  BY DEF Continue
<1>2. UartTypeOK'
  BY DEF ConsoleInv, TypeOK, UartTypeOK, uart_vars, fifo_vars
<1>3. FifoIsQueue' /\ (uart_interrupt_pending' <=> uart_interrupt_pending)
  BY DEF ConsoleInv, uart_vars, fifo_vars, FifoIsQueue, uart_interrupt_pending,
     uart_rx_empty
<1>4. TypeOK'
  BY <1>1, <1>2 DEF ConsoleInv, TypeOK
<1>5. OnlyTheUart'
  BY <1>1 DEF ConsoleInv, OnlyTheUart
<1> QED BY <1>1, <1>3, <1>4, <1>5 DEF ConsoleInv, LineHasReason, LineMatchesUart,
     LineStaysUp

\* The vmm's own steps.
LEMMA VmmStep == ASSUME ConsoleInv, Vmm PROVE ConsoleInv'
<1>1. CASE PumpBegins
  <2>1. TypeOK'
    BY <1>1, ConsoleAssumption DEF PumpBegins, PollIsDue, ConsoleInv, TypeOK, UartTypeOK,
       P!TypeOK, uart_vars, fifo_vars, plic_vars, level_vars, config_vars
  <2>2. UNCHANGED <<uart_vars, level_vars, config_vars>> /\ driver' = driver
    BY <1>1 DEF PumpBegins, plic_vars
  <2>3. mode' \notin {"guest", "deliver"}
    BY <1>1 DEF PumpBegins
  <2> QED BY <2>1, <2>2, <2>3, QuietStep
<1>2. CASE PollEnds
  <2>1. TypeOK'
    BY <1>2 DEF PollEnds, ConsoleInv, TypeOK, UartTypeOK, P!TypeOK, uart_vars, fifo_vars,
       plic_vars, level_vars, config_vars
  <2>2. UNCHANGED <<uart_vars, level_vars, config_vars>> /\ driver' = driver
    BY <1>2 DEF PollEnds, plic_vars
  <2>3. mode' \notin {"guest", "deliver"}
    BY <1>2 DEF PollEnds
  <2> QED BY <2>1, <2>2, <2>3, QuietStep
<1>3. CASE RefreshUart
  <2>1. /\ asserted' = IF uart_interrupt_pending' THEN asserted \cup {UART0} ELSE asserted \ {UART0}
        /\ pending' = IF uart_interrupt_pending' THEN pending \cup {UART0} ELSE pending \ {UART0}
        /\ claimed' = claimed /\ outstanding' = outstanding
    BY <1>3 DEF RefreshUart, uart_refresh_interrupt, P!plic_set_pending
  <2>2. /\ driver' = driver /\ mode' = "deliver"
        /\ idling' = idling /\ poll_countdown' = poll_countdown /\ nr_read' = nr_read
        /\ priority' = priority /\ enable' = enable /\ threshold' = threshold
        /\ ipending' = ipending
    BY <1>3 DEF RefreshUart, config_vars
  <2>3. UartTypeOK' /\ FifoIsQueue' /\ (uart_interrupt_pending' <=> uart_interrupt_pending)
    BY <1>3 DEF RefreshUart, ConsoleInv, TypeOK, UartTypeOK, uart_vars, fifo_vars,
       FifoIsQueue, uart_interrupt_pending, uart_rx_empty
  <2>4. P!TypeOK'
    <3>1. UART0 \in P!Sources
      BY ConsoleAssumption DEF P!Sources
    <3> QED BY <2>1, <2>2, <3>1 DEF ConsoleInv, TypeOK, P!TypeOK
  <2>5. TypeOK'
    BY <2>2, <2>3, <2>4 DEF ConsoleInv, TypeOK
  <2>6. OnlyTheUart'
    BY <2>1, <2>2 DEF ConsoleInv, OnlyTheUart
  <2>7. /\ UART0 \in asserted' <=> uart_interrupt_pending'
        /\ UART0 \in asserted => UART0 \in asserted'
    BY <2>1, <2>3 DEF ConsoleInv, LineHasReason
  <2>8. Routed'
    BY <2>2 DEF ConsoleInv, Routed
  <2> QED BY <2>2, <2>3, <2>5, <2>6, <2>7, <2>8 DEF ConsoleInv, LineHasReason,
       LineMatchesUart, LineStaysUp
<1>4. CASE Deliver
  <2>1. /\ UNCHANGED <<uart_vars, level_vars, config_vars, idling, poll_countdown, nr_read>>
        /\ mode = "deliver" /\ mode' \in {"guest", "pump"}
        /\ ipending' = {c \in Contexts : P!plic_best_source(c) # 0}
        /\ \/ driver' = driver
           \/ Supervisor \in ipending' /\ driver = "idle" /\ driver' = "entered"
    BY <1>4 DEF Deliver, P!plic_refresh_pending, InterruptsEnabled
  <2>2. TypeOK'
    BY <2>1 DEF ConsoleInv, TypeOK, UartTypeOK, P!TypeOK, uart_vars, fifo_vars,
       level_vars, config_vars, Places
  <2>3. Supervisor \in ipending' /\ driver = "idle" => UART0 \in asserted
    BY <2>1, BestIsUart
  <2>4. UNCHANGED <<uart_vars, level_vars, config_vars>>
    BY <2>1
  <2>5. driver' = driver \/ (driver' = "entered" /\ driver = "idle" /\ UART0 \in asserted)
    BY <2>1, <2>3
  <2> QED BY <2>1, <2>2, <2>4, <2>5, QuietStep
<1>5. CASE Idle
  <2>1. /\ UNCHANGED <<uart_vars, level_vars, config_vars, poll_countdown, driver>>
        /\ mode' \in {"pump", "poll"} /\ idling' \in {"no", "poll"}
        /\ nr_read' \in {nr_read, 0}
        /\ ipending' = {c \in Contexts : P!plic_best_source(c) # 0}
    BY <1>5 DEF Idle, P!plic_refresh_pending
  <2>2. TypeOK'
    BY <2>1, ConsoleAssumption DEF ConsoleInv, TypeOK, UartTypeOK, P!TypeOK, uart_vars, fifo_vars,
       level_vars, config_vars
  <2>3. UNCHANGED <<uart_vars, level_vars, config_vars>> /\ driver' = driver
    BY <2>1
  <2> QED BY <2>1, <2>2, <2>3, QuietStep
<1> QED BY <1>1, <1>2, <1>3, <1>4, <1>5 DEF Vmm

\* The poll handles a byte.
LEMMA PollStep == ASSUME ConsoleInv, NEW b \in Bytes, PollByte(b) PROVE ConsoleInv'
<1>1. /\ UNCHANGED <<plic_vars, idling, poll_countdown, driver>>
      /\ mode' \in {"exit", "poll"} /\ nr_read' \in 0 .. MaxRead
  BY ConsoleAssumption DEF PollByte, ConsoleInv, TypeOK
<1>2. /\ UartTypeOK' /\ FifoIsQueue'
      /\ uart_interrupt_pending => uart_interrupt_pending'
  <2>1. UartTypeOK /\ FifoIsQueue
    BY DEF ConsoleInv, TypeOK
  <2>2. CASE UNCHANGED uart_vars
    BY <2>1, <2>2 DEF UartTypeOK, uart_vars, fifo_vars, FifoIsQueue,
       uart_interrupt_pending, uart_rx_empty
  <2>3. CASE Receive(b)
    BY <2>1, <2>3, ReceiveKeepsQueue
  <2> QED BY <2>2, <2>3 DEF PollByte
<1>3. TypeOK'
  BY <1>1, <1>2 DEF ConsoleInv, TypeOK, P!TypeOK, plic_vars, level_vars, config_vars
<1> QED BY <1>1, <1>2, <1>3 DEF ConsoleInv, Routed, OnlyTheUart, LineHasReason,
     LineMatchesUart, LineStaysUp, Serving, plic_vars, level_vars, config_vars

\* The registers of the uart keep the ring a queue.
LEMMA RegistersKeepQueue ==
    ASSUME UartTypeOK, FifoIsQueue
    PROVE  /\ UNCHANGED uart_vars => UartTypeOK' /\ FifoIsQueue'
           /\ \A v \in SUBSET {"rx", "thr"} : WriteIer(v) => UartTypeOK' /\ FifoIsQueue'
           /\ \A v \in BOOLEAN : WriteLcr(v) => UartTypeOK' /\ FifoIsQueue'
           /\ WriteFcr => UartTypeOK' /\ FifoIsQueue'
           /\ ReadQueue => UartTypeOK' /\ FifoIsQueue'
<1>1. ASSUME UNCHANGED fifo_vars PROVE FifoIsQueue'
  BY <1>1 DEF fifo_vars, FifoIsQueue
<1>2. ASSUME UNCHANGED uart_vars PROVE UartTypeOK' /\ FifoIsQueue'
  BY <1>1, <1>2 DEF uart_vars, fifo_vars, UartTypeOK
<1>3. ASSUME NEW v \in SUBSET {"rx", "thr"}, WriteIer(v)
      PROVE  UartTypeOK' /\ FifoIsQueue'
  BY <1>1, <1>3 DEF WriteIer, fifo_vars, UartTypeOK
<1>4. ASSUME NEW v \in BOOLEAN, WriteLcr(v) PROVE UartTypeOK' /\ FifoIsQueue'
  BY <1>1, <1>4 DEF WriteLcr, fifo_vars, UartTypeOK
<1>5. ASSUME WriteFcr PROVE UartTypeOK' /\ FifoIsQueue'
  <2>1. /\ rx_head' = 0 /\ rx_tail' = 0 /\ queue' = <<>> /\ Len(queue') = 0
        /\ UNCHANGED <<ier, dlab, rx_fifo, escape_armed>>
    BY <1>5 DEF WriteFcr
  <2>2. (0 + FifoSize - 0) % FifoSize = 0 /\ 0 \in 0 .. FifoSize - 1
    BY UartAssumption, RingDistance
  <2>3. queue' \in Seq(Bytes)
    BY <2>1
  <2> QED BY <2>1, <2>2, <2>3 DEF FifoIsQueue, UartTypeOK
<1>6. ASSUME ReadQueue PROVE UartTypeOK' /\ FifoIsQueue'
  <2>1. UNCHANGED <<ier, dlab, escape_armed>>
    BY <1>6 DEF ReadQueue
  <2>2. CASE UNCHANGED fifo_vars
    BY <1>1, <2>1, <2>2 DEF fifo_vars, UartTypeOK
  <2>3. CASE uart_rx_pop
    BY <2>1, <2>3, PopKeepsQueue DEF UartTypeOK
  <2> QED BY <1>6, <2>2, <2>3 DEF ReadQueue
<1> QED BY <1>2, <1>3, <1>4, <1>5, <1>6

\* The driver's probe.
LEMMA BootStep == ASSUME ConsoleInv, DriverBoots PROVE ConsoleInv'
<1>1. UartTypeOK /\ FifoIsQueue
  BY DEF ConsoleInv, TypeOK
<1>2. UART0 \in P!Sources /\ UART0 \in 0 .. NrSources - 1 /\ 1 \in 0 .. MaxPriority
  BY ConsoleAssumption DEF P!Sources
<1>3. CASE At("off") /\ OnPlic("routed", P!WritePriority(UART0, 1))
  <2>1. /\ priority' = [priority EXCEPT ![UART0] = 1]
        /\ UNCHANGED <<level_vars, enable, threshold, ipending>>
        /\ mode = "guest" /\ driver = "off" /\ driver' = "routed"
        /\ Continue("routed") /\ UNCHANGED uart_vars
    BY <1>3 DEF At, OnPlic, P!WritePriority, P!level_vars, level_vars, Continue
  <2>2. P!TypeOK'
    BY <1>2, <2>1 DEF ConsoleInv, TypeOK, P!TypeOK, level_vars
  <2>3. Routed'
    BY <1>2, <2>1 DEF ConsoleInv, TypeOK, P!TypeOK, Routed
  <2> QED BY <2>1, <2>2, <2>3, PlicAccess DEF ConsoleInv, OnlyTheUart, level_vars, Serving, Places
<1>4. CASE At("routed") /\ OnPlic("latch", P!WriteEnable(Supervisor, {UART0}))
  <2>1. /\ enable' = [enable EXCEPT ![Supervisor] = {UART0}]
        /\ UNCHANGED <<level_vars, priority, threshold, ipending>>
        /\ mode = "guest" /\ driver = "routed" /\ driver' = "latch"
        /\ Continue("latch") /\ UNCHANGED uart_vars
    BY <1>4 DEF At, OnPlic, P!WriteEnable, P!level_vars, level_vars, Continue
  <2>2. P!TypeOK'
    BY <1>2, <2>1 DEF ConsoleInv, TypeOK, P!TypeOK, level_vars
  <2>3. Routed'
    BY <2>1, ConsoleAssumption DEF ConsoleInv, TypeOK, P!TypeOK, Routed
  <2> QED BY <2>1, <2>2, <2>3, PlicAccess DEF ConsoleInv, OnlyTheUart, level_vars, Serving, Places
<1>5. CASE At("latch") /\ OnUart("speed", WriteLcr(TRUE))
  BY <1>1, <1>5, RegistersKeepQueue, UartAccess DEF At, OnUart, Places, Serving
<1>6. CASE At("speed") /\ OnUart("unlatch", WriteIer({"thr"}))
  BY <1>1, <1>6, RegistersKeepQueue, UartAccess DEF At, OnUart, Places, Serving
<1>7. CASE At("unlatch") /\ OnUart("reset", WriteLcr(FALSE))
  BY <1>1, <1>7, RegistersKeepQueue, UartAccess DEF At, OnUart, Places, Serving
<1>8. CASE At("reset") /\ OnUart("listen", WriteFcr)
  BY <1>1, <1>8, RegistersKeepQueue, UartAccess DEF At, OnUart, Places, Serving
<1>9. CASE At("listen") /\ OnUart("idle", WriteIer({"rx"}))
  BY <1>1, <1>9, RegistersKeepQueue, UartAccess DEF At, OnUart, Places, Serving
<1> QED BY <1>3, <1>4, <1>5, <1>6, <1>7, <1>8, <1>9 DEF DriverBoots

\* The handler's claims, accesses and completion.
LEMMA HandlerStep == ASSUME ConsoleInv, Handler PROVE ConsoleInv'
<1>1. UartTypeOK /\ FifoIsQueue
  BY DEF ConsoleInv, TypeOK
<1>2. UART0 \in P!Sources /\ UART0 # 0
  BY ConsoleAssumption DEF P!Sources
<1>3. CASE HandlerClaims
  <2> DEFINE best == P!plic_best_source(Supervisor)
  <2>1. /\ mode = "guest" /\ driver \in {"entered", "claim"} /\ UNCHANGED uart_vars
        /\ P!plic_claim(Supervisor) /\ UNCHANGED <<config_vars, ipending>>
        /\ Continue(IF best = UART0 THEN "iir" ELSE "idle")
    BY <1>3 DEF HandlerClaims, At, OnPlic, P!Claim, P!config_vars, config_vars
  <2>2. best = IF UART0 \in asserted THEN UART0 ELSE 0
    BY <2>1, BestIsUart DEF Serving
  <2>3. /\ claimed' = IF best = 0 THEN claimed ELSE claimed \cup {best}
        /\ outstanding' = IF best = 0 THEN outstanding
                          ELSE [outstanding EXCEPT ![best] = @ + 1]
        /\ asserted' = asserted /\ pending' = pending
    BY <2>1 DEF P!plic_claim
  <2> HIDE DEF best
  <2>4. /\ claimed = {} /\ outstanding \in [P!Sources -> 0 .. 1]
        /\ \A s \in P!Sources : outstanding[s] = 0
    BY <2>1 DEF ConsoleInv, OnlyTheUart, Serving, TypeOK, P!TypeOK
  <2>5. PICK next \in {"iir", "idle"} : /\ next = IF best = UART0 THEN "iir" ELSE "idle"
                                       /\ Continue(next)
    BY <2>1
  <2>6. claimed' = IF next \in Serving THEN {UART0} ELSE {}
    BY <1>2, <2>2, <2>3, <2>4, <2>5 DEF Serving
  <2>7. \A s \in P!Sources : outstanding'[s] = IF s \in claimed' THEN 1 ELSE 0
    BY <1>2, <2>2, <2>3, <2>4
  <2>8. P!TypeOK'
    <3>1. outstanding' \in [P!Sources -> 0 .. 1]
      BY <1>2, <2>2, <2>3, <2>4
    <3> QED BY <1>2, <2>1, <2>3, <2>6, <3>1 DEF ConsoleInv, TypeOK, P!TypeOK, config_vars
  <2>9. Routed'
    <3>1. driver' \in {"iir", "idle"}
      BY <2>5 DEF Continue
    <3> QED BY <2>1, <3>1 DEF ConsoleInv, Routed, config_vars
  <2> QED BY <2>1, <2>3, <2>5, <2>6, <2>7, <2>8, <2>9, PlicAccess DEF Places
<1>4. CASE HandlerServes
  <2>1. CASE At("iir") /\ OnUart(IF Iir = "none" THEN "complete" ELSE Iir, UNCHANGED uart_vars)
    <3>1. PICK next \in {"rx", "thr", "complete"} :
              next = IF Iir = "none" THEN "complete" ELSE Iir
      BY DEF Iir
    <3> QED BY <1>1, <2>1, <3>1, RegistersKeepQueue, UartAccess DEF At, OnUart, Places, Serving
  <2>2. CASE At("rx") /\ OnUart("lsr", ReadQueue)
    BY <1>1, <2>2, RegistersKeepQueue, UartAccess DEF At, OnUart, Places, Serving
  <2>3. CASE At("lsr") /\ OnUart(IF uart_rx_empty THEN "iir" ELSE "rx", UNCHANGED uart_vars)
    <3>1. PICK next \in {"iir", "rx"} : next = IF uart_rx_empty THEN "iir" ELSE "rx"
      OBVIOUS
    <3> QED BY <1>1, <2>3, <3>1, RegistersKeepQueue, UartAccess DEF At, OnUart, Places, Serving
  <2>4. CASE At("thr") /\ OnUart("complete", WriteIer({"rx"}))
    BY <1>1, <2>4, RegistersKeepQueue, UartAccess DEF At, OnUart, Places, Serving
  <2> QED BY <1>4, <2>1, <2>2, <2>3, <2>4 DEF HandlerServes
<1>5. CASE HandlerCompletes
  <2>1. /\ mode = "guest" /\ driver = "complete" /\ UNCHANGED uart_vars
        /\ P!plic_complete(Supervisor, UART0) /\ UNCHANGED <<config_vars, ipending>>
        /\ Continue("claim") /\ driver' = "claim"
    BY <1>5 DEF HandlerCompletes, At, OnPlic, P!Complete, P!config_vars, config_vars, Continue
  <2>2. /\ claimed' = claimed \ {UART0}
        /\ pending' = IF UART0 \in asserted THEN pending \cup {UART0} ELSE pending \ {UART0}
        /\ outstanding' = [outstanding EXCEPT ![UART0] = 0]
        /\ asserted' = asserted
    BY <1>2, <2>1 DEF P!plic_complete
  <2>3. /\ claimed = {UART0} /\ pending = asserted
        /\ outstanding \in [P!Sources -> 0 .. 1]
        /\ \A s \in P!Sources : outstanding[s] = IF s \in claimed THEN 1 ELSE 0
    BY <2>1 DEF ConsoleInv, OnlyTheUart, Serving, TypeOK, P!TypeOK
  <2>4. claimed' = {} /\ pending' = pending
    BY <2>2, <2>3
  <2>5. \A s \in P!Sources : outstanding'[s] = 0
    BY <2>2, <2>3
  <2>6. P!TypeOK'
    BY <1>2, <2>1, <2>2, <2>3, <2>4 DEF ConsoleInv, TypeOK, P!TypeOK, config_vars
  <2>7. Routed'
    BY <2>1 DEF ConsoleInv, Routed, config_vars
  <2> QED BY <2>1, <2>2, <2>4, <2>5, <2>6, <2>7, PlicAccess DEF Places, Serving
<1> QED BY <1>3, <1>4, <1>5 DEF Handler

\* Every step keeps the invariant.
LEMMA ConsoleStep == ConsoleInv /\ [Next]_vars => ConsoleInv'
<1> SUFFICES ASSUME ConsoleInv, [Next]_vars PROVE ConsoleInv'
  OBVIOUS
<1>1. ASSUME UNCHANGED <<uart_vars, plic_vars, driver>>, mode = "guest",
             mode' \in {"pump", "poll"}, idling' \in {"no", "poll", "past"},
             poll_countdown' = poll_countdown, nr_read' \in {nr_read, 0}
      PROVE  ConsoleInv'
  <2>1. TypeOK'
    BY <1>1, ConsoleAssumption DEF ConsoleInv, TypeOK, UartTypeOK, P!TypeOK, uart_vars, fifo_vars,
       plic_vars, level_vars, config_vars
  <2>2. UNCHANGED <<uart_vars, level_vars, config_vars>> /\ driver' = driver
    BY <1>1 DEF plic_vars
  <2> QED BY <1>1, <2>1, <2>2, QuietStep
<1>2. CASE StartTransmit
  <2>1. UartTypeOK /\ FifoIsQueue
    BY DEF ConsoleInv, TypeOK
  <2> QED BY <1>2, <2>1, RegistersKeepQueue, UartAccess
       DEF StartTransmit, At, OnUart, Places, Serving
<1>3. CASE Compute
  BY <1>1, <1>3 DEF Compute, At, ConsoleInv, TypeOK
<1>4. CASE Wfi
  BY <1>1, <1>4 DEF Wfi, At
<1>5. CASE UNCHANGED vars
  <2>1. TypeOK'
    BY <1>5 DEF vars, vmm_vars, ConsoleInv, TypeOK, UartTypeOK, P!TypeOK, uart_vars, fifo_vars,
       plic_vars, level_vars, config_vars
  <2>2. UNCHANGED <<uart_vars, level_vars, config_vars>> /\ driver' = driver /\ mode' = mode
    BY <1>5 DEF vars, plic_vars, vmm_vars
  <2> QED BY <2>1, <2>2, QuietStep
<1>6. CASE Exited
  BY <1>5, <1>6 DEF Exited
<1> QED BY <1>2, <1>3, <1>4, <1>5, <1>6, VmmStep, PollStep, BootStep, HandlerStep DEF Next

----------------------------------------------------------------------------
\* The handler that is entered for the uart finds it when it claims.
LEMMA InvImpliesWork == ConsoleInv => HandlerFindsWork
  BY BestIsUart DEF ConsoleInv, LineStaysUp, HandlerFindsWork, Serving

\* The uart, the PLIC, the hart and the guest's driver stay well typed together.
THEOREM ConsoleTypeTheorem == Spec => []TypeOK
  BY ConsoleInit, ConsoleStep, PTL DEF Spec, ConsoleInv

\* No byte that was taken in is overwritten, repeated, skipped or reordered in a
\* ring of any size, and its indices stay inside it (uart_rx_push, uart_rx_pop).
THEOREM FifoTheorem == Spec => []FifoIsQueue
  BY ConsoleInit, ConsoleStep, PTL DEF Spec, ConsoleInv

\* No access and no poll leaves a stale level on the uart's line where the guest
\* or the vmm's delivery may look (uart_refresh_interrupt).
THEOREM LineTheorem == Spec => []LineMatchesUart
  BY ConsoleInit, ConsoleStep, PTL DEF Spec, ConsoleInv

\* The interrupt handler's first claim finds the uart, whatever the vmm polled
\* and refreshed since it delivered the interrupt (plic_best_source).
THEOREM WorkTheorem == Spec => []HandlerFindsWork
  BY ConsoleInit, ConsoleStep, InvImpliesWork, PTL DEF Spec
=============================================================================
