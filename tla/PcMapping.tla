----------------------------- MODULE PcMapping -----------------------------
(***************************************************************************)
(* The array pc_mappings of a hart: guest program counters and where their *)
(* translations are, kept in order by the binary insertion of sort.h and   *)
(* looked up by the binary search of search.h.                             *)
(*                                                                         *)
(* The order is that of comparing_mapping_item, the difference of two      *)
(* 32-bit program counters read as a signed int.  That is an order only    *)
(* among addresses less than half the address space apart.                 *)
(*                                                                         *)
(* The operations come in the sequence the translator uses them in: a      *)
(* lookup (prefetch_instructions); if it fails, an insertion, and then     *)
(* another lookup that has to succeed (COMMIT_TRANSLATION); and at any     *)
(* time between those the array may be emptied (flush_translation_cache).  *)
(* One step is one turn of a loop.                                         *)
(***************************************************************************)
EXTENDS Integers, Sequences

CONSTANTS
    Pcs,       \* the guest addresses that occur
    Modulus,   \* 2^32
    MaxInstr   \* MAX_INSTRUCTIONS_TOTRANSLATE

ASSUME PcMappingAssumption ==
    /\ Modulus \in Nat \ {0}
    /\ Pcs \subseteq 0 .. Modulus - 1
    /\ MaxInstr \in Nat \ {0}

VARIABLES
    mappings, \* the array, its length is nr_translated_instructions
    op,       \* idle, search, insert, shift, answered or assert
    phase,    \* lookup, or verify for the search of COMMIT_TRANSLATION
    key,      \* the program counter searched for or inserted
    low,      \* idx_low and __idx_low, counted from 1
    high,     \* idx_high and __idx_high
    move,     \* __idx_move
    answer,   \* elem_found, as an index; 0 for the null pointer
    stored    \* history: what was inserted since the last flush

vars == <<mappings, op, phase, key, low, high, move, answer, stored>>

Entry == [guest_pc : Pcs, tc_offset : 0 .. MaxInstr - 1]

UnsignedDifference(a, b) == (a - b) % Modulus

\* (int)((pa)->guest_pc - (pb)->guest_pc)
comparing_mapping_item(a, b) ==
    LET d == (a - b) % Modulus IN
    IF 2 * d < Modulus THEN d ELSE d - Modulus

Pc(i) == mappings[i].guest_pc

MidRoundedUp(l, h) == (l + h + 1) \div 2

\* (low + high) / 2 for indices that count from 0.
Mid(l, h) == (l + h - 2) \div 2 + 1

NeverStuck(mid) == FALSE

\* There is nothing between low and high left to look at.
Stuck(mid) == mid \in {low, high}

HasRoomForOneMore == Len(mappings) <= MaxInstr

\* unoccupied_cache_size, which prefetch_instructions asked before.
HasRoom == Len(mappings) < MaxInstr

----------------------------------------------------------------------------
(* SEARCH *)

BeginSearch(pc, ph) ==
    /\ op' = "search"
    /\ phase' = ph
    /\ key' = pc
    /\ low' = 1
    /\ high' = Len(mappings')
    /\ answer' = 0

\* prefetch_instructions asks whether pc is translated.
Lookup(pc) ==
    /\ op = "idle"
    /\ UNCHANGED <<mappings, move, stored>>
    /\ BeginSearch(pc, "lookup")

Answer(i) ==
    /\ op' = "answered"
    /\ answer' = i
    /\ UNCHANGED <<low, high>>

NarrowAlwaysLow(mid) ==
    low' = mid /\ high' = high

Narrow(mid) ==
    IF comparing_mapping_item(key, Pc(mid)) < 0
    THEN low' = low /\ high' = mid
    ELSE low' = mid /\ high' = high

SearchLoop ==
    /\ op = "search"
    /\ LET mid == Mid(low, high) IN
       IF low > high THEN Answer(0)
       ELSE IF comparing_mapping_item(key, Pc(low)) = 0 THEN Answer(low)
       ELSE IF comparing_mapping_item(key, Pc(high)) = 0 THEN Answer(high)
       ELSE IF Stuck(mid) THEN Answer(0)
       ELSE Narrow(mid) /\ UNCHANGED <<op, answer>>
    /\ UNCHANGED <<mappings, phase, key, move, stored>>

----------------------------------------------------------------------------
(* add_translation_item and INSERTION_SORT *)

\* The lookup found nothing and the array has room: the item goes behind the
\* others first.
BeginInsert ==
    /\ op = "answered" /\ phase = "lookup" /\ answer = 0
    /\ HasRoom
    /\ LET item == [guest_pc |-> key, tc_offset |-> Len(mappings)] IN
       /\ mappings' = Append(mappings, item)
       /\ stored' = stored \cup {item}
    /\ op' = "insert"
    /\ low' = 1
    /\ high' = Len(mappings)
    /\ move' = 1
    /\ UNCHANGED <<phase, key, answer>>

MoveTo(i) ==
    /\ op' = "shift"
    /\ move' = i
    /\ UNCHANGED <<low, high>>

InsertLoop ==
    /\ op = "insert"
    /\ LET mid == Mid(low, high) IN
       IF low > high THEN MoveTo(move)
       ELSE IF comparing_mapping_item(key, Pc(low)) <= 0 THEN MoveTo(low)
       ELSE IF comparing_mapping_item(Pc(high), key) <= 0 THEN MoveTo(high + 1)
       ELSE IF Stuck(mid) THEN MoveTo(mid + 1)
       ELSE Narrow(mid) /\ UNCHANGED <<op, move>>
    /\ UNCHANGED <<mappings, phase, key, answer, stored>>

OverwritingShift ==
    [mappings EXCEPT ![move] = mappings[Len(mappings)]]

\* The items from move on make room for the last one.
Shifted ==
    [i \in 1 .. Len(mappings) |->
        IF i < move THEN mappings[i]
        ELSE IF i = move THEN mappings[Len(mappings)]
        ELSE mappings[i - 1]]

\* The move, and then the search of COMMIT_TRANSLATION.
Shift ==
    /\ op = "shift"
    /\ mappings' = Shifted
    /\ UNCHANGED <<move, stored>>
    /\ BeginSearch(key, "verify")

----------------------------------------------------------------------------

\* ASSERT(__item && __item->guest_pc == instruction_linear_addr); a failure
\* ends the process.
FinishCommit ==
    /\ op = "answered" /\ phase = "verify"
    /\ op' = IF answer # 0 /\ Pc(answer) = key THEN "idle" ELSE "assert"
    /\ UNCHANGED <<mappings, phase, key, low, high, move, answer, stored>>

\* The lookup hit, or there is no room: the loop of prefetch_instructions is
\* left.
FinishLookup ==
    /\ op = "answered" /\ phase = "lookup"
    /\ answer # 0 \/ ~HasRoom
    /\ op' = "idle"
    /\ UNCHANGED <<mappings, phase, key, low, high, move, answer, stored>>

flush_translation_cache ==
    /\ op = "idle"
    /\ mappings' = <<>>
    /\ stored' = {}
    /\ UNCHANGED <<op, phase, key, low, high, move, answer>>

Init ==
    /\ mappings = <<>>
    /\ op = "idle"
    /\ phase = "lookup"
    /\ key \in Pcs
    /\ low = 1
    /\ high = 0
    /\ move = 1
    /\ answer = 0
    /\ stored = {}

Next ==
    \/ \E pc \in Pcs : Lookup(pc)
    \/ SearchLoop
    \/ BeginInsert
    \/ InsertLoop
    \/ Shift
    \/ FinishCommit
    \/ FinishLookup
    \/ flush_translation_cache

Spec == Init /\ [][Next]_vars

\* The loops run.
FairSpec == Spec /\ WF_vars(SearchLoop) /\ WF_vars(InsertLoop) /\ WF_vars(Shift)

----------------------------------------------------------------------------
(* Properties *)

\* Types; the array never outgrows MAX_INSTRUCTIONS_TOTRANSLATE and no answer
\* points behind it.
TypeOK ==
    /\ mappings \in Seq(Entry)
    /\ Len(mappings) <= MaxInstr
    /\ op \in {"idle", "search", "insert", "shift", "answered", "assert"}
    /\ phase \in {"lookup", "verify"}
    /\ key \in Pcs
    /\ low \in Nat
    /\ high \in Nat
    /\ move \in Nat
    /\ answer \in Nat
    /\ op = "answered" => answer <= Len(mappings)
    /\ stored \subseteq Entry

\* The array holds exactly what was inserted, and whenever no insertion is
\* under way it is strictly increasing.
ArrayInOrder ==
    /\ {mappings[i] : i \in 1 .. Len(mappings)} = stored
    /\ op \notin {"insert", "shift"} =>
        \A i, j \in 1 .. Len(mappings) : i < j => Pc(i) < Pc(j)

\* A finished search has the item of the key if there is one: the array
\* stands for the function from program counters to offsets.
AnswerIsRight ==
    op = "answered" =>
        IF \E e \in stored : e.guest_pc = key
        THEN answer # 0 /\ Pc(answer) = key
        ELSE answer = 0

\* The item just inserted is found again.
CommitAssertHolds == op # "assert"

\* The loops of SEARCH and INSERTION_SORT end.
LoopsEnd == op \in {"search", "insert"} ~> op = "answered"
=============================================================================
