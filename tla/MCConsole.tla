----------------------------- MODULE MCConsole -----------------------------
EXTENDS Console
=============================================================================
