------------------------- MODULE MCTranslatedBlocks -------------------------
EXTENDS TranslatedBlocks
=============================================================================
