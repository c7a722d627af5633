--------------------------- MODULE MCDetachedMerge ---------------------------
\* A small instance of DetachedMerge for TLC: two even windows and the odd one between them.
EXTENDS DetachedMerge

MCTag == 0..2
=============================================================================
