------------------------- MODULE MCFlashActivation -------------------------
\* Small instances of FlashActivation for TLC.
EXTENDS FlashActivation
=============================================================================
