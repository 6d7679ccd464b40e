------------------------------- MODULE Clint -------------------------------
(***************************************************************************)
(* The core local interruptor of a machine with one hart                   *)
(* (emulate_clint.c): the virtual clock, the comparator and the doorbell.  *)
(* The comparator is 64 bits wide and the guest writes it in halves.       *)
(***************************************************************************)
EXTENDS Naturals

CONSTANTS
    Half,     \* 2^32
    MaxTime,  \* bound of the model: the clock stops there
    Ticks     \* ticks_per_translation_unit

ASSUME ClintAssumption ==
    /\ Half \in Nat \ {0}
    /\ Ticks \in Nat \ {0}
    /\ MaxTime \in 0 .. Half * Half - 2

VARIABLES mtime, mtimecmp, msip

clint_vars == <<mtime, mtimecmp, msip>>

\* ~0ULL: no timer is armed.
Forever == Half * Half - 1

clint_advance_time(t) == IF t + Ticks > MaxTime THEN MaxTime ELSE t + Ticks

\* The clock after clint_skip_to_next_deadline.
clint_skip_to_next_deadline(t) ==
    IF mtimecmp # Forever /\ mtimecmp > t THEN mtimecmp ELSE t

\* MTIP and MSIP at time t.
clint_refresh_pending(t) ==
    (IF t >= mtimecmp THEN {"MTI"} ELSE {}) \cup (IF msip = 1 THEN {"MSI"} ELSE {})

WriteHighUnmasked(v) == mtimecmp' = v * Half + mtimecmp

WriteMtimecmpHigh(v) == mtimecmp' = v * Half + (mtimecmp % Half)

WriteMtimecmpLow(v) == mtimecmp' = (mtimecmp \div Half) * Half + v

WriteMsip(v) == msip' = v

clint_init ==
    /\ mtime = 0
    /\ mtimecmp = Forever
    /\ msip = 0
=============================================================================
