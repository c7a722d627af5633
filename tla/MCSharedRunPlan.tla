---------------------------- MODULE MCSharedRunPlan ----------------------------
EXTENDS SharedRunPlan, TLC

\* A fine loop of two events in two coarse loops: 8 events stand for the 10^9 of the CFO.
MCNValues == <<2, 4, 8>>

\* Duty cycles of every event, of the fine loop and of the inner coarse loop; the outer is Inject's.
MCRatio == {<<1, 1>>, <<1, 2>>, <<1, 4>>}
MCCoarseRatio == {<<1, 4>>}
MCInjectRatio == <<1, 5>>
MCSymmetry == Permutations(Subsystem)
=============================================================================
