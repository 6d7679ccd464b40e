---------------------------- MODULE MCPcMapping ----------------------------
EXTENDS PcMapping

\* Seven addresses less than half of 16 apart.
Window == 3 .. 9

\* Six addresses from all around.
AllAround == {5, 6, 7, 12, 14, 15}
=============================================================================
