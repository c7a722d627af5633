------------------------- MODULE MCRunTransitions -------------------------
(* Two DTCs, d1 with real ROCs and ready one step before d2, and two flashes of d1. *)
EXTENDS RunTransitions, TLC
CONSTANTS d1, d2, m1, m2
MCDTC == {d1, d2}
MCMinReady == [d \in MCDTC |-> IF d = d1 THEN 3 ELSE 4]
MCConfigurations ==
  [mode : {"EventBuilding"}, auto : BOOLEAN, pulses : {0}]
    \cup [mode : {"HardwareDev"}, auto : {FALSE}, pulses : {0, 2}]
MCDtcOf == [m \in {m1, m2} |-> d1]
FlashSymmetry == Permutations({m1, m2})
===========================================================================
