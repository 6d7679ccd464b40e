--------------------------- MODULE MCSbiFirmware ---------------------------
EXTENDS SbiFirmware
=============================================================================
