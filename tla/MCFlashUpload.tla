---------------------------- MODULE MCFlashUpload ----------------------------
\* Small instances of FlashUpload for TLC.
EXTENDS FlashUpload
=============================================================================
