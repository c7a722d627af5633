--------------------------- MODULE MCRocActionLock ---------------------------
EXTENDS RocActionLock, TLC

RocSymmetry == Permutations(Roc)
=============================================================================
