--------------------------- MODULE MCSubeventChecks ---------------------------
EXTENDS SubeventChecks

MCIds == {1, 2}
=============================================================================
