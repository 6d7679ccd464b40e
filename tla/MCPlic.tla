------------------------------ MODULE MCPlic -------------------------------
EXTENDS Plic
=============================================================================
