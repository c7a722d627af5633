--------------------- MODULE MCTimingChainConfigure ---------------------
(* Two boards: board 1 is driven by c1, without real ROCs, next to the CFO  *)
(* and by d1, with the real ROCs, in a detector subsystem; board 2 by c2.   *)
EXTENDS TimingChainConfigure
CONSTANTS c1, c2, d1
MCDTC == {c1, c2, d1}
MCBoardOf == [d \in MCDTC |-> IF d = c2 THEN 2 ELSE 1]
==========================================================================
