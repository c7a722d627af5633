------------------------------ MODULE MCRunInfo ------------------------------
EXTENDS RunInfo, TLC

MCSymmetry == Permutations(Client)
=============================================================================
