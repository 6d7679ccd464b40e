------------------------------- MODULE Plic --------------------------------
(***************************************************************************)
(* The platform level interrupt controller (emulate_plic.c).  Devices      *)
(* drive level-triggered lines; each hart has two contexts, machine and    *)
(* supervisor, through which its software claims a source and completes it *)
(* and which end in the MEIP and SEIP bits of the hart.                    *)
(*                                                                         *)
(* Bit masks are sets of source numbers.  The registers are accessed by    *)
(* guest software in any order and with any value.                         *)
(***************************************************************************)
EXTENDS Naturals

CONSTANTS
    NrSources,   \* PLIC_NR_SOURCES; source 0 means no interrupt
    Contexts,    \* 0 .. nr_contexts-1
    MaxPriority  \* bound of the model: the largest priority or threshold

ASSUME PlicAssumption ==
    /\ NrSources \in Nat \ {0}
    /\ MaxPriority \in Nat

Sources == 1 .. NrSources - 1

VARIABLES
    priority,    \* per source
    asserted,    \* sources whose device drives the line
    pending,
    claimed,
    enable,      \* per context, the sources it listens to
    threshold,   \* per context
    ipending,    \* the contexts whose MEIP or SEIP is set in the hart
    outstanding  \* history: claims of a source since its last completion

level_vars == <<asserted, pending, claimed, outstanding>>
config_vars == <<priority, enable, threshold>>
vars == <<level_vars, config_vars, ipending>>

----------------------------------------------------------------------------

\* The line of a device goes up or down.
plic_set_pending(source, level) ==
    /\ asserted' = IF level THEN asserted \cup {source} ELSE asserted \ {source}
    /\ pending' = IF level THEN pending \cup {source} ELSE pending \ {source}
    /\ UNCHANGED <<claimed, outstanding>>

CandidatesWithClaimed(context) ==
    {s \in pending \cap enable[context] : priority[s] > threshold[context]}

\* What contends for the context.
Candidates(context) ==
    {s \in (pending \ claimed) \cap enable[context] :
        priority[s] > threshold[context]}

\* The highest priority wins, and among equals the lowest number.
plic_best_source(context) ==
    IF Candidates(context) = {} THEN 0
    ELSE CHOOSE s \in Candidates(context) :
            \A t \in Candidates(context) :
                \/ priority[t] < priority[s]
                \/ priority[t] = priority[s] /\ s <= t

StickyRefresh ==
    ipending' = ipending \cup {c \in Contexts : plic_best_source(c) # 0}

plic_refresh_pending ==
    ipending' = {c \in Contexts : plic_best_source(c) # 0}

\* A read of the claim register.
plic_claim(context) ==
    /\ LET source == plic_best_source(context) IN
       IF source = 0 THEN UNCHANGED <<claimed, outstanding>>
       ELSE /\ claimed' = claimed \cup {source}
            /\ outstanding' = [outstanding EXCEPT ![source] = @ + 1]
    /\ UNCHANGED <<asserted, pending>>

CompleteAsEdge(context, source) ==
    /\ claimed' = claimed \ {source}
    /\ pending' = pending \ {source}
    /\ outstanding' = [s \in Sources |-> IF s = source THEN 0 ELSE outstanding[s]]
    /\ UNCHANGED asserted

CompleteStaysClaimed(context, source) ==
    UNCHANGED level_vars

\* A write of a source number to the claim register, by whichever context.
plic_complete(context, source) ==
    IF source \notin Sources THEN UNCHANGED level_vars
    ELSE /\ claimed' = claimed \ {source}
         /\ pending' = IF source \in asserted THEN pending \cup {source}
                       ELSE pending \ {source}
         /\ outstanding' = [outstanding EXCEPT ![source] = 0]
         /\ UNCHANGED asserted

----------------------------------------------------------------------------
(* The operations as steps of a controller among arbitrary devices and     *)
(* software.                                                               *)

Device(source, level) ==
    /\ plic_set_pending(source, level)
    /\ UNCHANGED <<config_vars, ipending>>

Refresh ==
    /\ plic_refresh_pending
    /\ UNCHANGED <<level_vars, config_vars>>

Claim(context) ==
    /\ plic_claim(context)
    /\ UNCHANGED <<config_vars, ipending>>

Complete(context, source) ==
    /\ plic_complete(context, source)
    /\ UNCHANGED <<config_vars, ipending>>

\* Source 0 has no priority register.
WritePriority(source, value) ==
    /\ priority' = [priority EXCEPT ![source] = value]
    /\ UNCHANGED <<level_vars, enable, threshold, ipending>>

WriteEnable(context, value) ==
    /\ enable' = [enable EXCEPT ![context] = value]
    /\ UNCHANGED <<level_vars, priority, threshold, ipending>>

WriteThreshold(context, value) ==
    /\ threshold' = [threshold EXCEPT ![context] = value]
    /\ UNCHANGED <<level_vars, priority, enable, ipending>>

\* plic_init clears everything.
plic_init ==
    /\ asserted = {}
    /\ pending = {}
    /\ claimed = {}
    /\ outstanding = [s \in Sources |-> 0]
    /\ priority = [s \in Sources |-> 0]
    /\ enable = [c \in Contexts |-> {}]
    /\ threshold = [c \in Contexts |-> 0]
    /\ ipending = {}

Next ==
    \/ \E s \in Sources, level \in BOOLEAN : Device(s, level)
    \/ Refresh
    \/ \E c \in Contexts : Claim(c)
    \/ \E c \in Contexts, s \in 0 .. NrSources : Complete(c, s)
    \/ \E s \in Sources, v \in 0 .. MaxPriority : WritePriority(s, v)
    \/ \E c \in Contexts, v \in SUBSET (0 .. NrSources - 1) : WriteEnable(c, v)
    \/ \E c \in Contexts, v \in 0 .. MaxPriority : WriteThreshold(c, v)

Spec == plic_init /\ [][Next]_vars

----------------------------------------------------------------------------
(* Properties *)

\* Types; a source is claimed at most once before it is completed.
TypeOK ==
    /\ asserted \subseteq Sources
    /\ pending \subseteq Sources
    /\ claimed \subseteq Sources
    /\ outstanding \in [Sources -> 0 .. 1]
    /\ priority \in [Sources -> 0 .. MaxPriority]
    /\ enable \in [Contexts -> SUBSET (0 .. NrSources - 1)]
    /\ threshold \in [Contexts -> 0 .. MaxPriority]
    /\ ipending \subseteq Contexts

\* Interrupts are level triggered: whatever was claimed and completed in the
\* meantime, a source is pending exactly as long as its device asserts it, so
\* that none is lost between a handler's last look at the device and its
\* completion (plic_set_pending, plic_complete).
LevelTriggered == pending = asserted

\* A source is in the hands of at most one handler, whichever contexts it is
\* enabled for (plic_claim, plic_best_source).
ClaimIsExclusive ==
    \A s \in Sources : outstanding[s] = IF s \in claimed THEN 1 ELSE 0
=============================================================================
