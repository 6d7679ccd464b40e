----------------------------- MODULE MCAtomics -----------------------------
EXTENDS Atomics

CONSTANTS f1

\* The first aligned address is mapped; the second leads to the same word or is
\* not mapped.
OneWordMaps == {[a \in 0 .. 3 |-> IF a < 2 THEN f1 ELSE hi] : hi \in {f1, NoFrame}}

\* Programs at either address, with one of two values.
Programs ==
    {[x \in 0 .. 2 |-> IF x = 0 THEN 0 ELSE IF x = 1 THEN a ELSE v] :
        a \in {0, 2}, v \in {1, 3}}

\* Every instruction, and the first of those that have no handler, with rd one of
\* the operands or x0.
Overlaps ==
    [f : {0, 1, 2, 3, 4, 8, 12, 16}, rd : {2}, rs1 : {1}, rs2 : {2}]
    \cup {[f |-> 3, rd |-> 1, rs1 |-> 1, rs2 |-> 2],
          [f |-> 0, rd |-> 0, rs1 |-> 1, rs2 |-> 2]}
=============================================================================
