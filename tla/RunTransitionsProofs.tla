------------------------ MODULE RunTransitionsProofs ------------------------
(***************************************************************************)
(* Proofs about RunTransitions for any DTCs, any configurations, and any   *)
(* number of runs, windows, macros and flashes: the types, that the slow   *)
(* controls stay quiet under a flash, that a run loses no window, and that *)
(* nothing makes windows when a stop is over.                              *)
(***************************************************************************)
EXTENDS RunTransitions, TLAPS

Active == [at : {"halt", "set", "enable", "add"}, windows : Nat, adds : BOOLEAN]
Launches == [at : {"idle", "prepare"}] \cup Active
Marked   == [at : {"pause", "quiet", "flash", "done"}, wasRunning : BOOLEAN, alone : BOOLEAN,
             behind : BOOLEAN]
Flashes  == [at : {"idle"}] \cup Marked

-----------------------------------------------------------------------------
(* Types                                                                    *)

LEMMA InitTypes == Init => TypeOK
<1> SUFFICES ASSUME Init PROVE TypeOK
  OBVIOUS
<1>1. super \in [go : BOOLEAN, windows : Nat] /\ next \in Nat /\ count \in [runs : Nat, macros : Nat]
  BY DEF Init
<1>2. launch \in [Thread -> [at : {"idle", "prepare"}] \cup
                            [at : {"halt", "set", "enable", "add"},
                             windows : Nat, adds : BOOLEAN]]
  BY DEF Init, Idle
<1>3. cfo \in [on : BOOLEAN, plan : Int, left : Int]
  BY DEF Init, NoPlan, Fresh
<1>4. flash \in [Flash -> [at : {"idle"}] \cup
                          [at : {"pause", "quiet", "flash", "done"},
                           wasRunning : BOOLEAN, alone : BOOLEAN, behind : BOOLEAN]]
  BY DEF Init
<1>5. counted \in [RealROCs -> Nat] /\ sent \in Nat
  BY DEF Init
<1> QED
  BY <1>1, <1>2, <1>3, <1>4, <1>5 DEF Init, TypeOK

LEMMA RunStep == TypeOK => run.step \in Nat
BY DEF TypeOK

LEMMA ReplyTypes ==
  ASSUME TypeOK, NEW f, NEW again \in BOOLEAN, Reply(f, again)
  PROVE  run' \in [state : {"Configured", "Starting", "Running", "Pausing", "Paused",
                            "Resuming", "Stopping", "Halting", "Halted", "Failed"},
                   step : Nat, todo : SUBSET (FrontEnd \cup {Artdaq}), more : BOOLEAN]
BY DEF TypeOK, Reply

\* What a step does to the state machine and to the flags of the operator.
LEMMA StartTypes ==
  ASSUME TypeOK, Start \/ StepEnds \/ ArtdaqStarts \/ CfoWaits \/ CfoAutoLaunches \/ CfoStarted \/ FrontEndFails
  PROVE  TypeOK'
<1>1. CASE Start
  <2>1. /\ run'.state = "Starting" /\ run'.step = 0 /\ run'.more = FALSE
        /\ run'.todo \in SUBSET (FrontEnd \cup {Artdaq})
        /\ run' = [state |-> run'.state, step |-> run'.step, todo |-> run'.todo, more |-> run'.more]
    BY <1>1 DEF Start, Call
  <2>2. count' \in [runs : Nat, macros : Nat] /\ sent' \in Nat
    BY <1>1 DEF Start, TypeOK
  <2> QED
    BY <1>1, <2>1, <2>2 DEF Start, TypeOK, plans, controls
<1>2. CASE StepEnds
  BY <1>2 DEF StepEnds, TypeOK, boards, plans, controls
<1>3. CASE ArtdaqStarts
  <2>1. artdaq' \in BOOLEAN
    BY <1>3, RunStep DEF ArtdaqStarts
  <2>2. UNCHANGED <<conf, rocs, cfo, counted, sent, emulating, next, super, launch, slow, cycle, flash,
                    byHand, count>>
    BY <1>3 DEF ArtdaqStarts, boards, plans, controls
  <2> QED
    BY <1>3, <2>1, <2>2, ReplyTypes DEF ArtdaqStarts, TypeOK
<1>4. CASE CfoWaits
  <2>1. next' \in Nat
    BY <1>4 DEF CfoWaits, TypeOK
  <2>2. cfo' \in [on : BOOLEAN, plan : Int, left : Int]
    BY <1>4 DEF CfoWaits, SoftReset, Fresh, TypeOK
  <2> QED
    BY <1>4, <2>1, <2>2, ReplyTypes DEF CfoWaits, TypeOK, controls
<1>5. CASE CfoAutoLaunches
  BY <1>5 DEF CfoAutoLaunches, Begins, TypeOK, boards, controls, Thread
<1>6. CASE CfoStarted
  BY <1>6 DEF CfoStarted, Reply, TypeOK, boards, plans, controls
<1>7. CASE FrontEndFails
  BY <1>7 DEF FrontEndFails, TypeOK, boards, plans, controls
<1> QED
  BY <1>1, <1>2, <1>3, <1>4, <1>5, <1>6, <1>7

LEMMA FlashRecord == ASSUME TypeOK, NEW m \in Flash, flash[m].at # "idle" PROVE flash[m] \in Marked
BY DEF TypeOK, Marked

LEMMA FlashIs == ASSUME TypeOK PROVE flash \in [Flash -> Flashes]
BY DEF TypeOK, Flashes, Marked

LEMMA PausesTypes ==
  ASSUME TypeOK, NEW d \in DTC,
         slow' = [slow EXCEPT ![d] = FALSE] \/ slow' = [slow EXCEPT ![d] = TRUE],
         flash' = [m \in Flash |-> IF DtcOf[m] = d /\ flash[m].at # "idle"
                                   THEN [flash[m] EXCEPT !.alone = FALSE] ELSE flash[m]]
  PROVE  /\ slow' \in [DTC -> BOOLEAN]
         /\ flash' \in [Flash -> Flashes]
<1>1. slow' \in [DTC -> BOOLEAN]
  BY DEF TypeOK
<1>2. ASSUME NEW m \in Flash PROVE flash'[m] \in Flashes
  <2>1. flash'[m] = IF DtcOf[m] = d /\ flash[m].at # "idle" THEN [flash[m] EXCEPT !.alone = FALSE] ELSE flash[m]
    OBVIOUS
  <2>2. flash[m].at # "idle" => [flash[m] EXCEPT !.alone = FALSE] \in Flashes
    BY FlashRecord DEF Flashes, Marked
  <2> QED
    BY <2>1, <2>2, FlashIs
<1> QED
  BY <1>1, <1>2

LEMMA DtcTypes ==
  ASSUME TypeOK, NEW d \in DTC,
         \/ DtcStarts(d) \/ DtcStartsAlone(d) \/ DtcPauses(d) \/ DtcResumes(d) \/ DtcStops(d) \/ DtcHalts(d)
  PROVE  TypeOK'
<1>1. CASE DtcStarts(d)
  <2>1. /\ slow' \in [DTC -> BOOLEAN]
        /\ flash' \in [Flash -> Flashes]
    BY <1>1, PausesTypes DEF DtcStarts, PausesSlowControls
  <2>2. counted' \in [RealROCs -> Nat] /\ rocs' \subseteq RealROCs
    BY <1>1 DEF DtcStarts, TypeOK
  <2> QED
    BY <1>1, <2>1, <2>2 DEF DtcStarts, PausesSlowControls, Reply, TypeOK, Flashes, Marked, plans
<1>2. CASE DtcStartsAlone(d)
  <2>1. /\ slow' \in [DTC -> BOOLEAN]
        /\ flash' \in [Flash -> Flashes]
    BY <1>2, PausesTypes DEF DtcStartsAlone, PausesSlowControls
  <2>2. counted' \in [RealROCs -> Nat]
    BY <1>2 DEF DtcStartsAlone, TypeOK
  <2> QED
    BY <1>2, <2>1, <2>2 DEF DtcStartsAlone, PausesSlowControls, Reply, TypeOK, Flashes, Marked, plans
<1>3. CASE DtcPauses(d)
  BY <1>3 DEF DtcPauses, Reply, TypeOK, plans, controls
<1>4. CASE DtcResumes(d)
  BY <1>4 DEF DtcResumes, Reply, TypeOK, plans, controls
<1>5. CASE DtcStops(d)
  <2>1. /\ slow' \in [DTC -> BOOLEAN]
        /\ flash' \in [Flash -> Flashes]
    BY <1>5, PausesTypes DEF DtcStops
  <2> QED
    BY <1>5, <2>1 DEF DtcStops, Reply, TypeOK, Flashes, Marked, plans
<1>6. CASE DtcHalts(d)
  BY <1>6 DEF DtcHalts, Reply, TypeOK, plans, controls
<1> QED
  BY <1>1, <1>2, <1>3, <1>4, <1>5, <1>6

LEMMA TransitionTypes ==
  ASSUME TypeOK,
         Pause \/ Resume \/ Stop \/ CfoStops \/ TransitionEnds \/ Halt \/ CfoHalts \/ Halted
  PROVE  TypeOK'
<1>1. CASE Pause
  BY <1>1 DEF Pause, Call, FrontEnd, TypeOK, boards, plans, controls
<1>2. CASE Resume
  BY <1>2 DEF Resume, Call, FrontEnd, TypeOK, boards, plans, controls
<1>3. CASE Stop
  BY <1>3 DEF Stop, Call, FrontEnd, TypeOK, boards, plans, controls
<1>4. CASE CfoStops
  BY <1>4 DEF CfoStops, Reply, TypeOK, plans, controls
<1>5. CASE TransitionEnds
  BY <1>5 DEF TransitionEnds, TypeOK, boards, plans, controls
<1>6. CASE Halt
  BY <1>6 DEF Halt, Call, FrontEnd, TypeOK, boards, plans, controls
<1>7. CASE CfoHalts
  BY <1>7 DEF CfoHalts, Reply, TypeOK, plans, controls
<1>8. CASE Halted
  BY <1>8 DEF Halted, TypeOK, boards, plans, controls
<1> QED
  BY <1>1, <1>2, <1>3, <1>4, <1>5, <1>6, <1>7, <1>8

LEMMA CfoRewound ==
  ASSUME TypeOK,
         \/ cfo' = [cfo EXCEPT !.on = FALSE, !.left = Fresh]
         \/ cfo' = [cfo EXCEPT !.on = TRUE, !.left = Fresh]
  PROVE  cfo' \in [on : BOOLEAN, plan : Int, left : Int]
<1>1. cfo = [on |-> cfo.on, plan |-> cfo.plan, left |-> cfo.left] /\ cfo.plan \in Int /\ Fresh \in Int
  BY DEF TypeOK, Fresh
<1>2. \/ cfo' = [on |-> FALSE, plan |-> cfo.plan, left |-> Fresh]
      \/ cfo' = [on |-> TRUE, plan |-> cfo.plan, left |-> Fresh]
  BY <1>1
<1> HIDE DEF Fresh
<1> QED
  BY <1>1, <1>2

\* The launch of thread t becomes l.
LEMMA LaunchIs ==
  ASSUME TypeOK, NEW t \in Thread, NEW l \in Launches, launch' = [launch EXCEPT ![t] = l]
  PROVE  launch' \in [Thread -> [at : {"idle", "prepare"}] \cup
                        [at : {"halt", "set", "enable", "add"},
                         windows : Nat, adds : BOOLEAN]]
BY DEF TypeOK, Launches, Active

LEMMA ActiveLaunch ==
  ASSUME TypeOK, NEW t \in Thread, launch[t].at \in {"halt", "set", "enable", "add"}
  PROVE  launch[t] \in Active
BY DEF TypeOK, Active

LEMMA LaunchTypes ==
  ASSUME TypeOK, NEW t \in Thread, LaunchStep(t) \/ Orchestrates(t)
  PROVE  TypeOK'
<1>1. CASE LaunchHalts(t)
  <2>1. [launch[t] EXCEPT !.at = "set"] \in Launches
    BY <1>1, ActiveLaunch DEF LaunchHalts, Active, Launches
  <2>2. cfo' \in [on : BOOLEAN, plan : Int, left : Int]
    BY <1>1, CfoRewound DEF LaunchHalts, CanHalt
  <2> QED
    BY <1>1, <2>1, <2>2, LaunchIs DEF LaunchHalts, TypeOK, controls
<1>2. CASE LaunchSets(t)
  <2>1. launch[t] \in Active
    BY <1>2, ActiveLaunch DEF LaunchSets
  <2>2. [launch[t] EXCEPT !.at = "enable"] \in Launches
    BY <2>1 DEF Active, Launches
  <2>3. cfo' \in [on : BOOLEAN, plan : Int, left : Int]
    BY <1>2, <2>1 DEF LaunchSets, Active, TypeOK
  <2> QED
    BY <1>2, <2>2, <2>3, LaunchIs DEF LaunchSets, TypeOK, controls
<1>3. CASE LaunchEnables(t)
  <2>1. launch[t] \in Active
    BY <1>3, ActiveLaunch DEF LaunchEnables
  <2>2. (IF launch[t].adds THEN [launch[t] EXCEPT !.at = "add"] ELSE Idle) \in Launches
    BY <2>1 DEF Active, Launches, Idle
  <2>3. cfo' \in [on : BOOLEAN, plan : Int, left : Int]
    BY <1>3 DEF LaunchEnables, TypeOK
  <2>4. byHand' \in BOOLEAN
    BY <1>3 DEF LaunchEnables, TypeOK
  <2>5. run' \in [state : {"Configured", "Starting", "Running", "Pausing", "Paused",
                          "Resuming", "Stopping", "Halting", "Halted", "Failed"},
                 step : Nat, todo : SUBSET (FrontEnd \cup {Artdaq}), more : BOOLEAN]
    BY <1>3, ReplyTypes DEF LaunchEnables, TypeOK
  <2>6. launch' \in [Thread -> [at : {"idle", "prepare"}] \cup
                       [at : {"halt", "set", "enable", "add"},
                        windows : Nat, adds : BOOLEAN]]
    BY <1>3, <2>2, LaunchIs DEF LaunchEnables
  <2>7. UNCHANGED <<conf, rocs, artdaq, next, super, counted, sent, emulating,
                    slow, cycle, flash, count>>
    BY <1>3 DEF LaunchEnables, controls
  <2> QED
    BY <2>3, <2>4, <2>5, <2>6, <2>7 DEF TypeOK
<1>4. CASE AddsToNext(t)
  <2>1. Idle \in Launches
    BY DEF Launches, Idle
  <2>2. next' \in Nat
    BY <1>4 DEF AddsToNext, TypeOK
  <2>3. launch' \in [Thread -> [at : {"idle", "prepare"}] \cup
                       [at : {"halt", "set", "enable", "add"},
                        windows : Nat, adds : BOOLEAN]]
    BY <1>4, <2>1, LaunchIs DEF AddsToNext
  <2>4. UNCHANGED <<conf, run, rocs, artdaq, super, cfo, counted, sent, emulating,
                    slow, cycle, flash, byHand, count>>
    BY <1>4 DEF AddsToNext, boards, controls
  <2> QED
    BY <2>2, <2>3, <2>4 DEF TypeOK
<1>5. CASE Orchestrates(t)
  <2>1. [at |-> "halt", windows |-> super.windows, adds |-> TRUE] \in Launches
    BY DEF Launches, Active, TypeOK
  <2> QED
    BY <1>5, <2>1, LaunchIs DEF Orchestrates, Begins, TypeOK, boards, controls
<1> QED
  BY <1>1, <1>2, <1>3, <1>4, <1>5 DEF LaunchStep

LEMMA WindowTypes ==
  ASSUME TypeOK, CfoIssuesWindow
  PROVE  TypeOK'
<1>1. cfo \in [on : BOOLEAN, plan : Int, left : Int] /\ sent \in Nat
  BY DEF TypeOK
<1>2. cfo' \in [on : BOOLEAN, plan : Int, left : Int]
  BY <1>1 DEF CfoIssuesWindow, Endless
<1>3. sent' \in Nat
  BY <1>1 DEF CfoIssuesWindow
<1>4. counted' \in [RealROCs -> Nat]
  BY DEF CfoIssuesWindow, TypeOK
<1> QED
  BY <1>2, <1>3, <1>4 DEF CfoIssuesWindow, TypeOK, plans, controls

LEMMA MacroTypes ==
  ASSUME TypeOK,
         \/ \E n \in Counts : MacroFixedWidth(n) \/ SuperOrchestrationStart(n)
         \/ \E n \in Cycles : MacroSuperCycle(n)
         \/ MacroOrchestrates \/ SuperOrchestrationEnd \/ ResetRunplan \/ LaunchRunplan
         \/ LoopOrchestrates
  PROVE  TypeOK'
<1>0. Counts \subseteq Nat /\ Cycles \subseteq Nat /\ PerCycle \in Nat /\ Thread = {"fsm", "loop", "macro"}
  BY RunAssumption DEF Thread
<1>a. Macro => /\ count' \in [runs : Nat, macros : Nat]
               /\ UNCHANGED <<conf, run, rocs, artdaq, counted, sent, emulating, slow, cycle, flash>>
  BY DEF Macro, TypeOK, controls
<1>1. ASSUME NEW n \in Counts, MacroFixedWidth(n) PROVE TypeOK'
  <2>1. [at |-> "halt", windows |-> n, adds |-> FALSE] \in Launches
    BY <1>0 DEF Launches, Active, TypeOK
  <2>3. next' \in Nat
    BY <1>0, <1>1 DEF MacroFixedWidth, TypeOK
  <2> QED
    BY <1>0, <1>a, <1>1, <2>1, <2>3, LaunchIs DEF MacroFixedWidth, Begins, TypeOK
<1>2. ASSUME NEW n \in Counts, SuperOrchestrationStart(n) PROVE TypeOK'
  <2>1. super' \in [go : BOOLEAN, windows : Nat]
    BY <1>0, <1>2 DEF SuperOrchestrationStart
  <2> QED
    BY <1>a, <1>2, <2>1 DEF SuperOrchestrationStart, TypeOK
<1>3. ASSUME NEW n \in Cycles, MacroSuperCycle(n) PROVE TypeOK'
  <2>0. n \in Nat /\ n * PerCycle \in Nat /\ n * n \in Nat
    BY <1>0
  <2>1. [at |-> "halt", windows |-> n * PerCycle, adds |-> FALSE] \in Launches
    BY <2>0 DEF Launches, Active, TypeOK
  <2>3. next' \in Nat
    <3>1. next' = next + n * n /\ next \in Nat
      BY <1>3 DEF MacroSuperCycle, TypeOK
    <3> QED
      BY <2>0, <3>1
  <2> QED
    BY <1>0, <1>a, <1>3, <2>1, <2>3, LaunchIs DEF MacroSuperCycle, Begins, TypeOK
<1>4. CASE MacroOrchestrates
  <2>1. [at |-> "prepare"] \in Launches
    BY DEF Launches
  <2> QED
    BY <1>0, <1>a, <1>4, <2>1, LaunchIs DEF MacroOrchestrates, TypeOK
<1>5. CASE SuperOrchestrationEnd
  BY <1>a, <1>5 DEF SuperOrchestrationEnd, TypeOK
<1>6. CASE ResetRunplan
  <2>1. cfo' \in [on : BOOLEAN, plan : Int, left : Int]
    BY <1>6, CfoRewound DEF ResetRunplan, CanHalt
  <2> QED
    BY <1>a, <1>6, <2>1 DEF ResetRunplan, TypeOK, plans
<1>7. CASE LaunchRunplan
  <2>1. cfo' \in [on : BOOLEAN, plan : Int, left : Int]
    BY <1>7, CfoRewound DEF LaunchRunplan
  <2>2. byHand' = TRUE
    BY <1>7 DEF LaunchRunplan
  <2> QED
    BY <1>a, <1>7, <2>1, <2>2 DEF LaunchRunplan, TypeOK, plans
<1>8. CASE LoopOrchestrates
  <2>1. [at |-> "prepare"] \in Launches
    BY DEF Launches
  <2> QED
    BY <1>0, <1>8, <2>1, LaunchIs DEF LoopOrchestrates, TypeOK, boards, controls
<1> QED
  BY <1>1, <1>2, <1>3, <1>4, <1>5, <1>6, <1>7, <1>8

LEMMA DisturbedTypes ==
  ASSUME TypeOK, NEW d, NEW m \in Flash
  PROVE  Disturbed(d, m) \in [Flash -> Flashes] /\ Disturbed(d, m)[m] = flash[m]
<1> SUFFICES ASSUME NEW n \in Flash
             PROVE  (IF n # m /\ n \in Flashing(d) THEN [flash[n] EXCEPT !.alone = FALSE] ELSE flash[n]) \in Flashes
  BY DEF Disturbed
<1>1. flash[n] \in Flashes
  BY FlashIs
<1>2. CASE n \in Flashing(d)
  <2>1. flash[n] \in Marked
    BY <1>2, FlashRecord DEF Flashing
  <2> QED
    BY <2>1, <1>1 DEF Flashes, Marked
<1> QED
  BY <1>1, <1>2

LEMMA FlashTypes ==
  ASSUME TypeOK,
         \/ \E m \in Flash : FlashBegins(m) \/ FlashPauses(m) \/ FlashWrites(m) \/ FlashEnds(m)
         \/ \E d \in DTC : PollBegins(d) \/ PollEnds(d)
  PROVE  TypeOK'
<1>0. (\A m \in Flash : DtcOf[m] \in DTC) /\ slow \in [DTC -> BOOLEAN] /\ flash \in [Flash -> Flashes]
  BY RunAssumption, FlashIs DEF TypeOK
<1>1. ASSUME NEW m \in Flash, FlashBegins(m) PROVE TypeOK'
  <2>1. flash' = [flash EXCEPT ![m] = [at |-> "pause", wasRunning |-> slow[DtcOf[m]],
                                       alone |-> Flashing(DtcOf[m]) = {}, behind |-> FALSE]]
    BY <1>1 DEF FlashBegins
  <2>2. slow[DtcOf[m]] \in BOOLEAN
    BY <1>0
  <2>3. [at |-> "pause", wasRunning |-> slow[DtcOf[m]],
         alone |-> Flashing(DtcOf[m]) = {}, behind |-> FALSE] \in Flashes
    BY <2>2 DEF Flashes, Marked
  <2>4. flash' \in [Flash -> Flashes]
    BY <1>0, <2>1, <2>3
  <2>5. count' \in [runs : Nat, macros : Nat]
    BY <1>1 DEF FlashBegins, TypeOK
  <2> QED
    BY <1>1, <2>4, <2>5 DEF FlashBegins, TypeOK, Flashes, Marked, boards, plans
<1>2. ASSUME NEW m \in Flash, FlashPauses(m) PROVE TypeOK'
  <2>1. flash[m] \in Marked
    BY <1>2, FlashRecord DEF FlashPauses
  <2>2. flash' = [Disturbed(DtcOf[m], m) EXCEPT ![m].at = "quiet", ![m].behind = DtcOf[m] \in cycle]
    BY <1>2 DEF FlashPauses
  <2>3. Disturbed(DtcOf[m], m) \in [Flash -> Flashes] /\ Disturbed(DtcOf[m], m)[m] = flash[m]
    BY DisturbedTypes
  <2>4. [flash[m] EXCEPT !.at = "quiet", !.behind = DtcOf[m] \in cycle] \in Flashes
    <3>1. CASE DtcOf[m] \in cycle
      <4>1. [flash[m] EXCEPT !.at = "quiet", !.behind = DtcOf[m] \in cycle] =
              [flash[m] EXCEPT !.at = "quiet", !.behind = TRUE]
        BY <3>1
      <4> QED
        BY <2>1, <4>1 DEF Marked, Flashes
    <3>2. CASE DtcOf[m] \notin cycle
      <4>1. [flash[m] EXCEPT !.at = "quiet", !.behind = DtcOf[m] \in cycle] =
              [flash[m] EXCEPT !.at = "quiet", !.behind = FALSE]
        <5>1. (DtcOf[m] \in cycle) = FALSE
          BY <3>2
        <5> QED
          BY <5>1
      <4> QED
        BY <2>1, <4>1 DEF Marked, Flashes
    <3> QED
      BY <3>1, <3>2
  <2>5. flash' = [Disturbed(DtcOf[m], m) EXCEPT ![m] =
                    [flash[m] EXCEPT !.at = "quiet", !.behind = DtcOf[m] \in cycle]]
    BY <2>2, <2>3
  <2>6. flash' \in [Flash -> Flashes]
    BY <2>3, <2>4, <2>5
  <2>7. slow' \in [DTC -> BOOLEAN]
    BY <1>0, <1>2 DEF FlashPauses
  <2> QED
    BY <1>2, <2>6, <2>7 DEF FlashPauses, TypeOK, Flashes, Marked, boards, plans
<1>3. ASSUME NEW m \in Flash, FlashWrites(m) PROVE TypeOK'
  <2>1. flash[m] \in Marked
    BY <1>3, FlashRecord DEF FlashWrites
  <2>2. flash' \in [Flash -> Flashes]
    BY <1>0, <1>3, <2>1 DEF FlashWrites, Flashes, Marked
  <2> QED
    BY <1>3, <2>2 DEF FlashWrites, TypeOK, Flashes, Marked, boards, plans
<1>4. ASSUME NEW m \in Flash, FlashEnds(m) PROVE TypeOK'
  <2>1. flash[m] \in Marked
    BY <1>4, FlashRecord DEF FlashEnds
  <2>2. flash' = [Disturbed(DtcOf[m], m) EXCEPT ![m].at = "done"]
    BY <1>4 DEF FlashEnds
  <2>4. flash' \in [Flash -> Flashes]
    BY <2>1, <2>2, DisturbedTypes DEF Flashes, Marked
  <2>5. slow' \in [DTC -> BOOLEAN]
    BY <1>0, <1>4, <2>1 DEF FlashEnds, Marked
  <2>6. counted' \in [RealROCs -> Nat] /\ byHand' \in BOOLEAN
    <3>1. counted' = counted \/ counted' = [x \in RealROCs |-> IF x = DtcOf[m] THEN 0 ELSE counted[x]]
      BY <1>4 DEF FlashEnds
    <3>2. byHand' = byHand \/ byHand' = TRUE
      BY <1>4 DEF FlashEnds
    <3>3. counted \in [RealROCs -> Nat] /\ byHand \in BOOLEAN
      BY DEF TypeOK
    <3>4. counted' \in [RealROCs -> Nat]
      BY <3>1, <3>3
    <3> QED
      BY <3>2, <3>3, <3>4
  <2> QED
    BY <1>4, <2>4, <2>5, <2>6 DEF FlashEnds, TypeOK, Flashes, Marked, plans
<1>5. ASSUME NEW d \in DTC, PollBegins(d) PROVE TypeOK'
  BY <1>5 DEF PollBegins, TypeOK, boards, plans
<1>6. ASSUME NEW d \in DTC, PollEnds(d) PROVE TypeOK'
  <2>1. cycle' \subseteq DTC
    BY <1>6 DEF PollEnds, TypeOK
  <2>2. flash' \in [Flash -> Flashes]
    <3> SUFFICES ASSUME NEW m \in Flash
                 PROVE  (IF DtcOf[m] = d /\ flash[m].at # "idle"
                         THEN [flash[m] EXCEPT !.behind = FALSE] ELSE flash[m]) \in Flashes
      BY <1>6 DEF PollEnds
    <3>1. flash[m].at # "idle" => [flash[m] EXCEPT !.behind = FALSE] \in Flashes
      BY FlashRecord DEF Marked, Flashes
    <3> QED
      BY <1>0, <3>1
  <2> QED
    BY <1>6, <2>1, <2>2 DEF PollEnds, TypeOK, Flashes, Marked, boards, plans
<1> QED
  BY <1>1, <1>2, <1>3, <1>4, <1>5, <1>6

LEMMA NextTypes == TypeOK /\ [Next]_vars => TypeOK'
<1> SUFFICES ASSUME TypeOK, [Next]_vars PROVE TypeOK'
  OBVIOUS
<1>1. CASE UNCHANGED vars
  BY <1>1 DEF TypeOK, vars
<1>2. CASE Transition
  BY <1>2, StartTypes, DtcTypes, TransitionTypes DEF Transition
<1>3. CASE Operator
  BY <1>3, MacroTypes, FlashTypes DEF Operator
<1>4. CASE LoopOrchestrates \/ CfoIssuesWindow
  BY <1>4, MacroTypes, WindowTypes
<1>5. CASE \E t \in Thread : LaunchStep(t) \/ Orchestrates(t)
  BY <1>5, LaunchTypes
<1>6. CASE \E d \in DTC : PollBegins(d) \/ PollEnds(d)
  BY <1>6, FlashTypes
<1> QED
  BY <1>1, <1>2, <1>3, <1>4, <1>5, <1>6 DEF Next

\* Every variable keeps its type, for any number of runs, windows, macros and flashes.
THEOREM TypeCorrect == Spec => []TypeOK
<1> QED
  BY InitTypes, NextTypes, PTL DEF Spec

-----------------------------------------------------------------------------
(* The slow controls                                                        *)

\* A flash of d is over in which another party has touched the slow controls.
Over(d) == \E m \in Flash : DtcOf[m] = d /\ flash[m].at = "done" /\ ~flash[m].alone

\* The start has paused the slow controls of d, and the run is not over.
Settled(d) ==
  \/ run.state \in {"Running", "Pausing", "Paused", "Resuming"}
  \/ run.state = "Starting" /\ (run.step > 0 \/ d \notin run.todo)

Works(m) == flash[m].at \in {"pause", "quiet", "flash"}
Holds(m) == flash[m].at \in {"quiet", "flash"}

\* Nobody wakes the slow controls behind a flash that is alone, so that a cycle it meets it has
\* found; and what a flash will restore after the start has paused, somebody has disturbed.
SlowInv ==
  /\ \A m \in Flash : Holds(m) /\ flash[m].alone => ~slow[DtcOf[m]]
  /\ \A m \in Flash : Holds(m) /\ flash[m].alone /\ DtcOf[m] \in cycle => flash[m].behind
  /\ \A d \in DTC : Settled(d) => (slow[d] => Over(d))
  /\ \A m \in Flash : Settled(DtcOf[m]) /\ Works(m) /\ flash[m].wasRunning =>
       ~flash[m].alone \/ Over(DtcOf[m])

LEMMA SlowFrame ==
  ASSUME TypeOK, SlowInv, UNCHANGED controls,
         \A d \in DTC : Settled(d)' => Settled(d)
  PROVE  SlowInv'
<1> USE DEF controls
<1>1. \A d \in DTC : Over(d)' = Over(d)
  BY DEF Over
<1>2. \A m \in Flash : DtcOf[m] \in DTC /\ (Works(m)' = Works(m)) /\ (Holds(m)' = Holds(m))
  BY RunAssumption DEF Works, Holds
<1> QED
  BY <1>1, <1>2 DEF SlowInv

\* No step but a start pauses for the first time, and no other leads into the run.
LEMMA SettledFrame ==
  ASSUME TypeOK, NEW d \in DTC, [Next]_vars, UNCHANGED controls, Settled(d)'
  PROVE  Settled(d) \/ \E e \in DTC : DtcStarts(e) \/ DtcStartsAlone(e)
<1> USE DEF Settled
<1>0. d # Cfo /\ d # Artdaq /\ run.step \in Nat /\ Cfo # Artdaq
  BY RunAssumption DEF Cfo, Artdaq, TypeOK
<1>00. run \in [state : {"Configured", "Starting", "Running", "Pausing", "Paused",
                       "Resuming", "Stopping", "Halting", "Halted", "Failed"},
              step : Nat, todo : SUBSET (FrontEnd \cup {Artdaq}), more : BOOLEAN]
  BY DEF TypeOK
<1>1. CASE UNCHANGED run
  BY <1>1
<1>2. CASE Start
  BY <1>0, <1>2 DEF Start, Call, FrontEnd
<1>3. CASE StepEnds
  BY <1>0, <1>3 DEF StepEnds
<1>4. CASE \E f \in {Cfo, Artdaq}, b \in BOOLEAN : Reply(f, b)
  BY <1>0, <1>4 DEF Reply, TypeOK
<1>5. CASE FrontEndFails \/ Pause \/ Resume \/ Stop \/ TransitionEnds \/ Halt \/ Halted
  <2>1. CASE TransitionEnds
    <3>1. run.state \in {"Pausing", "Resuming", "Stopping"} /\ run' = [run EXCEPT !.state = run'.state]
      BY <2>1 DEF TransitionEnds, TypeOK
    <3>2. run.state = "Stopping" => run'.state = "Configured"
      BY <2>1 DEF TransitionEnds, TypeOK
    <3> QED
      BY <3>1, <3>2, <2>1 DEF TransitionEnds, TypeOK
  <2>2. CASE FrontEndFails \/ Halted
    <3>1. run'.state \in {"Failed", "Halted"}
      BY <2>2, <1>00 DEF FrontEndFails, Halted
    <3> QED
      BY <3>1
  <2>3. CASE Pause \/ Resume \/ Stop \/ Halt
    <3>1. run'.state # "Running" /\ run'.state # "Starting" /\ run'.state # "Paused"
      BY <2>3 DEF Pause, Stop, Halt, Resume, Call
    <3>2. run'.state \in {"Pausing", "Resuming"} => run.state \in {"Running", "Paused"}
      BY <2>3 DEF Pause, Stop, Halt, Resume, Call
    <3> QED
      BY <3>1, <3>2
  <2> QED
    BY <1>5, <2>1, <2>2, <2>3
<1>6. CASE \E e \in DTC : DtcPauses(e) \/ DtcResumes(e) \/ DtcStops(e) \/ DtcHalts(e)
  <2>1. PICK e \in DTC : Reply(e, FALSE) /\ run.state \in {"Pausing", "Resuming", "Stopping", "Halting"}
    BY <1>6 DEF DtcPauses, DtcResumes, DtcStops, DtcHalts, Called
  <2>2. run'.state = run.state
    BY <2>1, <1>00 DEF Reply
  <2> QED
    BY <2>1, <2>2
<1>7. CASE Transition
  <2>1. ASSUME ArtdaqStarts \/ CfoWaits \/ CfoStarted \/ CfoStops \/ CfoHalts
        PROVE  \E f \in {Cfo, Artdaq}, b \in BOOLEAN : Reply(f, b)
    BY <2>1, <1>0 DEF ArtdaqStarts, CfoWaits, CfoStarted, CfoStops, CfoHalts
  <2>2. CfoAutoLaunches => UNCHANGED run
    BY DEF CfoAutoLaunches
  <2> QED
    BY <2>1, <2>2, <1>1, <1>2, <1>3, <1>4, <1>5, <1>6, <1>7 DEF Transition
<1>8. CASE Operator
  BY <1>1, <1>8 DEF Operator, MacroFixedWidth, SuperOrchestrationStart, MacroSuperCycle, MacroOrchestrates,
     SuperOrchestrationEnd, ResetRunplan, LaunchRunplan, Macro, FlashBegins, FlashPauses,
       FlashWrites, FlashEnds
<1>9. CASE \E t \in Thread : LaunchStep(t) \/ Orchestrates(t)
  <2>1. \A t \in Thread : LaunchEnables(t) => UNCHANGED run \/ Reply(Cfo, FALSE)
    BY DEF LaunchEnables
  <2>2. \A t \in Thread : LaunchHalts(t) \/ LaunchSets(t) \/ AddsToNext(t) \/ Orchestrates(t) => UNCHANGED run
    BY DEF LaunchHalts, LaunchSets, AddsToNext, Orchestrates
  <2> QED
    BY <2>1, <2>2, <1>1, <1>4, <1>9 DEF LaunchStep
<1> QED
  BY <1>1, <1>7, <1>8, <1>9 DEF Next, LoopOrchestrates, CfoIssuesWindow, PollBegins, PollEnds, vars

\* The flashes of d are told that somebody has paused or resumed its slow controls.
LEMMA PausesInv ==
  ASSUME TypeOK, SlowInv, NEW d \in DTC, NEW b \in BOOLEAN, slow' = [slow EXCEPT ![d] = b],
         flash' = [m \in Flash |-> IF DtcOf[m] = d /\ flash[m].at # "idle"
                                   THEN [flash[m] EXCEPT !.alone = FALSE] ELSE flash[m]],
         cycle' = cycle, b => \A e \in DTC : ~Settled(e)',
         \A e \in DTC : e # d /\ Settled(e)' => Settled(e)
  PROVE  SlowInv'
<1>0. \A m \in Flash : DtcOf[m] \in DTC
  BY RunAssumption
<1>1. \A m \in Flash : DtcOf[m] # d => flash'[m] = flash[m] /\ slow'[DtcOf[m]] = slow[DtcOf[m]]
  BY <1>0 DEF TypeOK
<1>2. \A m \in Flash : /\ flash'[m].at = flash[m].at
                       /\ DtcOf[m] = d /\ flash[m].at # "idle" => flash'[m].alone = FALSE
  <2> TAKE m \in Flash
  <2>1. CASE flash[m].at = "idle"
    BY <2>1
  <2>2. CASE flash[m] \in Marked
    BY <2>2 DEF Marked
  <2> QED
    BY <2>1, <2>2, FlashRecord
<1>3. \A e \in DTC : Over(e) => Over(e)'
  BY <1>1, <1>2 DEF Over
<1>4. slow'[d] = b /\ \A e \in DTC : e # d => slow'[e] = slow[e]
  BY DEF TypeOK
<1>5. \A m \in Flash : Works(m)' /\ flash'[m].alone => DtcOf[m] # d
  BY <1>2 DEF Works
<1>6. \A m \in Flash : (Works(m)' = Works(m)) /\ (Holds(m)' = Holds(m)) /\ (Holds(m) => Works(m))
  BY <1>2 DEF Works, Holds
<1>7. \A m \in Flash : Holds(m)' /\ flash'[m].alone => ~slow'[DtcOf[m]]
  BY <1>1, <1>5, <1>6 DEF SlowInv
<1>8. \A m \in Flash : Holds(m)' /\ flash'[m].alone /\ DtcOf[m] \in cycle' => flash'[m].behind
  BY <1>1, <1>5, <1>6 DEF SlowInv
<1>9. \A e \in DTC : Settled(e)' => (slow'[e] => Over(e)')
  BY <1>3, <1>4 DEF SlowInv
<1>10. \A m \in Flash : Settled(DtcOf[m])' /\ Works(m)' /\ flash'[m].wasRunning =>
         ~flash'[m].alone \/ Over(DtcOf[m])'
  BY <1>0, <1>1, <1>3, <1>5, <1>6 DEF SlowInv
<1> QED
  BY <1>7, <1>8, <1>9, <1>10 DEF SlowInv

\* Flash m reads the flag: what it will restore is what the slow controls are.
LEMMA FlashBeginsInv ==
  ASSUME TypeOK, SlowInv, NEW m \in Flash, FlashBegins(m)
  PROVE  SlowInv'
<1>0. \A n \in Flash : DtcOf[n] \in DTC
  BY RunAssumption
<1>1. /\ flash[m].at = "idle" /\ UNCHANGED <<run, slow, cycle>>
      /\ flash'[m].at = "pause" /\ flash'[m].wasRunning = slow[DtcOf[m]]
      /\ \A n \in Flash \ {m} : flash'[n] = flash[n]
  BY FlashIs DEF FlashBegins
<1>2. \A n \in Flash \ {m} : (Works(n)' = Works(n)) /\ (Holds(n)' = Holds(n))
  BY <1>1 DEF Works, Holds
<1>3. \A e \in DTC : (Over(e) => Over(e)') /\ Settled(e)' = Settled(e)
  BY <1>1 DEF Over, Settled
<1>4. ~Holds(m)'
  BY <1>1 DEF Holds
<1>5. Settled(DtcOf[m])' /\ flash'[m].wasRunning => Over(DtcOf[m])'
  BY <1>0, <1>1, <1>3 DEF SlowInv
<1>6. \A n \in Flash : Settled(DtcOf[n])' /\ Works(n)' /\ flash'[n].wasRunning =>
        ~flash'[n].alone \/ Over(DtcOf[n])'
  BY <1>0, <1>1, <1>2, <1>3, <1>5 DEF SlowInv
<1> QED
  BY <1>0, <1>1, <1>2, <1>3, <1>4, <1>6 DEF SlowInv

\* What a step of flash m does to the others on the same DTC.
LEMMA DisturbedIs ==
  ASSUME TypeOK, NEW m \in Flash, NEW n \in Flash \ {m}, NEW d,
         NEW f, f = Disturbed(d, m)
  PROVE  /\ f[n].at = flash[n].at
         /\ Works(n) /\ DtcOf[n] = d => ~f[n].alone
         /\ ~(Works(n) /\ DtcOf[n] = d) => f[n] = flash[n]
         /\ Works(n) => f[n].wasRunning = flash[n].wasRunning
<1>1. f[n] = IF n \in Flashing(d) THEN [flash[n] EXCEPT !.alone = FALSE] ELSE flash[n]
  BY DEF Disturbed
<1>2. CASE Works(n) /\ DtcOf[n] = d
  <2>1. flash[n] \in Marked
    BY <1>2, FlashRecord DEF Works
  <2> QED
    BY <1>1, <1>2, <2>1 DEF Works, Flashing, Marked
<1>3. CASE ~(Works(n) /\ DtcOf[n] = d)
  BY <1>1, <1>3 DEF Works, Flashing
<1> QED
  BY <1>2, <1>3

\* ... and then it clears it: whoever flashes the same DTC is disturbed.
LEMMA FlashPausesInv ==
  ASSUME TypeOK, SlowInv, NEW m \in Flash, FlashPauses(m)
  PROVE  SlowInv'
<1> DEFINE d == DtcOf[m]
<1>0. d \in DTC /\ (\A n \in Flash : DtcOf[n] \in DTC)
  BY RunAssumption
<1>1. /\ flash[m].at = "pause" /\ slow' = [slow EXCEPT ![d] = FALSE] /\ UNCHANGED <<run, cycle>>
      /\ flash' = [Disturbed(d, m) EXCEPT ![m].at = "quiet", ![m].behind = d \in cycle]
  BY DEF FlashPauses
<1>2. flash'[m].at = "quiet" /\ flash'[m].behind = (d \in cycle)
      /\ flash'[m].alone = flash[m].alone /\ flash'[m].wasRunning = flash[m].wasRunning
  <2>1. flash[m] \in Marked
    BY <1>1, FlashRecord
  <2>2. Disturbed(d, m) \in [Flash -> Flashes] /\ Disturbed(d, m)[m] = flash[m]
    BY DisturbedTypes
  <2>3. flash'[m] = [flash[m] EXCEPT !.at = "quiet", !.behind = d \in cycle]
    BY <1>1, <2>2
  <2> QED
    BY <2>1, <2>3 DEF Marked
<1>3. \A n \in Flash \ {m} : /\ flash'[n].at = flash[n].at
                             /\ Works(n) /\ DtcOf[n] = d => ~flash'[n].alone
                             /\ ~(Works(n) /\ DtcOf[n] = d) => flash'[n] = flash[n]
                             /\ Works(n) => flash'[n].wasRunning = flash[n].wasRunning
  <2> TAKE n \in Flash \ {m}
  <2>1. flash'[n] = Disturbed(d, m)[n]
    BY <1>1 DEF Disturbed
  <2> QED
    BY <2>1, DisturbedIs
<1>4. Works(m) /\ Works(m)' /\ \A n \in Flash \ {m} :
        (Works(n)' = Works(n)) /\ (Holds(n)' = Holds(n)) /\ (Holds(n) => Works(n))
  BY <1>1, <1>2, <1>3 DEF Works, Holds
<1>5. slow'[d] = FALSE /\ \A e \in DTC : e # d => slow'[e] = slow[e]
  BY <1>0, <1>1 DEF TypeOK
<1>6. \A e \in DTC : (Over(e) => Over(e)') /\ Settled(e)' = Settled(e)
  <2>1. \A n \in Flash : flash[n].at = "done" => n # m /\ flash'[n] = flash[n]
    BY <1>1, <1>3 DEF Works
  <2> QED
    BY <1>1, <2>1 DEF Over, Settled
<1>a. ASSUME NEW n \in Flash \ {m}, Works(n)', flash'[n].alone
      PROVE  Works(n) /\ DtcOf[n] # d /\ flash'[n] = flash[n] /\ slow'[DtcOf[n]] = slow[DtcOf[n]]
             /\ Settled(DtcOf[n])' = Settled(DtcOf[n]) /\ (Over(DtcOf[n]) => Over(DtcOf[n])')
  <2>1. Works(n) /\ DtcOf[n] # d
    BY <1>3, <1>4, <1>a
  <2> QED
    BY <2>1, <1>0, <1>3, <1>5, <1>6
<1>b. \A n \in Flash \ {m} : Holds(n)' => Holds(n) /\ Works(n)'
  BY <1>4
<1>7. \A n \in Flash : Holds(n)' /\ flash'[n].alone => ~slow'[DtcOf[n]]
  <2> TAKE n \in Flash
  <2>1. CASE n = m
    BY <2>1, <1>5
  <2>2. CASE n # m
    BY <2>2, <1>a, <1>b DEF SlowInv
  <2> QED
    BY <2>1, <2>2
<1>8. \A n \in Flash : Holds(n)' /\ flash'[n].alone /\ DtcOf[n] \in cycle' => flash'[n].behind
  <2> TAKE n \in Flash
  <2>1. CASE n = m
    BY <2>1, <1>1, <1>2
  <2>2. CASE n # m
    BY <2>2, <1>1, <1>a, <1>b DEF SlowInv
  <2> QED
    BY <2>1, <2>2
<1>9. \A e \in DTC : Settled(e)' => (slow'[e] => Over(e)')
  BY <1>5, <1>6 DEF SlowInv
<1>10. \A n \in Flash : Settled(DtcOf[n])' /\ Works(n)' /\ flash'[n].wasRunning =>
         ~flash'[n].alone \/ Over(DtcOf[n])'
  <2> TAKE n \in Flash
  <2>1. CASE n = m
    BY <2>1, <1>0, <1>2, <1>4, <1>6 DEF SlowInv
  <2>2. CASE n # m
    BY <2>2, <1>a DEF SlowInv
  <2> QED
    BY <2>1, <2>2
<1> QED
  BY <1>7, <1>8, <1>9, <1>10 DEF SlowInv

LEMMA FlashEndsInv ==
  ASSUME TypeOK, SlowInv, NEW m \in Flash, FlashEnds(m)
  PROVE  SlowInv'
<1> DEFINE d == DtcOf[m]
<1>0. d \in DTC /\ (\A n \in Flash : DtcOf[n] \in DTC)
  BY RunAssumption
<1>1. /\ flash[m].at = "flash" /\ slow' = [slow EXCEPT ![d] = flash[m].wasRunning] /\ UNCHANGED <<run, cycle>>
      /\ flash' = [Disturbed(d, m) EXCEPT ![m].at = "done"]
  BY DEF FlashEnds
<1>2. Works(m) /\ flash[m] \in Marked
  BY <1>1, FlashRecord DEF Works
<1>3. flash'[m].at = "done" /\ flash'[m].alone = flash[m].alone
  BY <1>1, <1>2, DisturbedTypes DEF Marked
<1>4. \A n \in Flash \ {m} : /\ flash'[n].at = flash[n].at
                             /\ Works(n) /\ DtcOf[n] = d => ~flash'[n].alone
                             /\ ~(Works(n) /\ DtcOf[n] = d) => flash'[n] = flash[n]
                             /\ Works(n) => flash'[n].wasRunning = flash[n].wasRunning
  <2> TAKE n \in Flash \ {m}
  <2>1. flash'[n] = Disturbed(d, m)[n]
    BY <1>1 DEF Disturbed
  <2> QED
    BY <2>1, DisturbedIs
<1>6. ~Works(m)' /\ ~Holds(m)' /\ \A n \in Flash \ {m} :
        (Works(n)' = Works(n)) /\ (Holds(n)' = Holds(n)) /\ (Holds(n) => Works(n))
  BY <1>3, <1>4 DEF Works, Holds
<1>7. slow'[d] = flash[m].wasRunning /\ \A e \in DTC : e # d => slow'[e] = slow[e]
  BY <1>0, <1>1 DEF TypeOK
<1>8. \A e \in DTC : (Over(e) => Over(e)') /\ Settled(e)' = Settled(e)
  <2>1. \A n \in Flash : flash[n].at = "done" => n # m /\ flash'[n] = flash[n]
    BY <1>1, <1>4 DEF Works
  <2> QED
    BY <1>1, <2>1 DEF Over, Settled
<1>9. ~flash[m].alone => Over(d)'
  BY <1>3 DEF Over
<1>a. ASSUME NEW n \in Flash, Works(n)', flash'[n].alone
      PROVE  n # m /\ Works(n) /\ flash'[n] = flash[n] /\ slow'[DtcOf[n]] = slow[DtcOf[n]]
             /\ Settled(DtcOf[n])' = Settled(DtcOf[n]) /\ (Over(DtcOf[n]) => Over(DtcOf[n])')
  <2>1. n # m /\ Works(n) /\ DtcOf[n] # d
    BY <1>4, <1>6, <1>a
  <2> QED
    BY <2>1, <1>0, <1>4, <1>7, <1>8
<1>b. \A n \in Flash : Holds(n)' => n # m /\ Holds(n) /\ Works(n)'
  BY <1>6
<1>10. \A n \in Flash : Holds(n)' /\ flash'[n].alone => ~slow'[DtcOf[n]]
  BY <1>a, <1>b DEF SlowInv
<1>11. \A n \in Flash : Holds(n)' /\ flash'[n].alone /\ DtcOf[n] \in cycle' => flash'[n].behind
  BY <1>1, <1>a, <1>b DEF SlowInv
<1>12. \A e \in DTC : Settled(e)' => (slow'[e] => Over(e)')
  BY <1>2, <1>7, <1>8, <1>9 DEF SlowInv
<1>13. \A n \in Flash : Settled(DtcOf[n])' /\ Works(n)' /\ flash'[n].wasRunning =>
         ~flash'[n].alone \/ Over(DtcOf[n])'
  BY <1>a DEF SlowInv
<1> QED
  BY <1>10, <1>11, <1>12, <1>13 DEF SlowInv

LEMMA FlashWritesInv ==
  ASSUME TypeOK, SlowInv, NEW m \in Flash, FlashWrites(m)
  PROVE  SlowInv'
<1>1. flash[m].at = "quiet" /\ UNCHANGED <<run, slow, cycle>> /\ flash' = [flash EXCEPT ![m].at = "flash"]
  BY DEF FlashWrites
<1>2. flash[m] \in Marked
  BY <1>1, FlashRecord
<1>3. /\ flash'[m].at = "flash" /\ flash'[m].alone = flash[m].alone
      /\ flash'[m].wasRunning = flash[m].wasRunning /\ flash'[m].behind = flash[m].behind
      /\ \A n \in Flash \ {m} : flash'[n] = flash[n]
  BY <1>1, <1>2, FlashIs DEF Marked
<1>4. \A n \in Flash : /\ Works(n)' = Works(n) /\ Holds(n)' = Holds(n)
                       /\ flash'[n].alone = flash[n].alone /\ flash'[n].behind = flash[n].behind
                       /\ flash'[n].wasRunning = flash[n].wasRunning
  BY <1>1, <1>3 DEF Works, Holds
<1>5. \A e \in DTC : Over(e)' = Over(e) /\ Settled(e)' = Settled(e)
  BY <1>1, <1>3 DEF Over, Settled
<1>6. \A n \in Flash : DtcOf[n] \in DTC
  BY RunAssumption
<1> QED
  BY <1>1, <1>4, <1>5, <1>6 DEF SlowInv

\* A cycle begins only where no lone flash holds the slow controls.
LEMMA PollInv ==
  ASSUME TypeOK, SlowInv, NEW d \in DTC, PollBegins(d) \/ PollEnds(d)
  PROVE  SlowInv'
<1>0. \A n \in Flash : DtcOf[n] \in DTC
  BY RunAssumption
<1>1. CASE PollBegins(d)
  <2>1. UNCHANGED <<run, slow, flash>> /\ cycle' = cycle \cup {d} /\ slow[d]
    BY <1>1 DEF PollBegins
  <2>2. \A e \in DTC : Over(e)' = Over(e) /\ Settled(e)' = Settled(e)
    BY <2>1 DEF Over, Settled
  <2>3. \A n \in Flash : Works(n)' = Works(n) /\ Holds(n)' = Holds(n)
    BY <2>1 DEF Works, Holds
  <2> QED
    BY <1>0, <2>1, <2>2, <2>3 DEF SlowInv
<1>2. CASE PollEnds(d)
  <2>1. /\ UNCHANGED <<run, slow>> /\ cycle' = cycle \ {d}
        /\ flash' = [m \in Flash |-> IF DtcOf[m] = d /\ flash[m].at # "idle"
                                     THEN [flash[m] EXCEPT !.behind = FALSE] ELSE flash[m]]
    BY <1>2 DEF PollEnds
  <2>2. \A n \in Flash : DtcOf[n] # d => flash'[n] = flash[n]
    BY <2>1
  <2>3. \A n \in Flash : flash'[n].at = flash[n].at
                         /\ (flash[n].at # "idle" => /\ flash'[n].alone = flash[n].alone
                                                    /\ flash'[n].wasRunning = flash[n].wasRunning)
    <3> TAKE n \in Flash
    <3>1. CASE flash[n].at = "idle"
      BY <2>1, <3>1
    <3>2. CASE flash[n] \in Marked
      BY <2>1, <3>2 DEF Marked
    <3> QED
      BY <3>1, <3>2, FlashRecord
  <2>4. \A e \in DTC : Over(e)' = Over(e) /\ Settled(e)' = Settled(e)
    BY <2>1, <2>3 DEF Over, Settled
  <2>5. \A n \in Flash : /\ Works(n)' = Works(n) /\ Holds(n)' = Holds(n)
                         /\ Works(n) => flash[n].at # "idle"
                         /\ Holds(n) => flash[n].at # "idle"
    BY <2>3 DEF Works, Holds
  <2>6. \A n \in Flash : Holds(n)' /\ flash'[n].alone => ~slow'[DtcOf[n]]
    BY <1>0, <2>1, <2>3, <2>5 DEF SlowInv
  <2>7. \A n \in Flash : Holds(n)' /\ flash'[n].alone /\ DtcOf[n] \in cycle' => flash'[n].behind
    BY <1>0, <2>1, <2>2, <2>3, <2>5 DEF SlowInv
  <2>8. \A e \in DTC : Settled(e)' => (slow'[e] => Over(e)')
    BY <2>1, <2>4 DEF SlowInv
  <2>9. \A n \in Flash : Settled(DtcOf[n])' /\ Works(n)' /\ flash'[n].wasRunning =>
          ~flash'[n].alone \/ Over(DtcOf[n])'
    BY <1>0, <2>3, <2>4, <2>5 DEF SlowInv
  <2> QED
    BY <2>6, <2>7, <2>8, <2>9 DEF SlowInv
<1> QED
  BY <1>1, <1>2

LEMMA DtcKeepsSlow ==
  ASSUME TypeOK, SlowInv, NEW d \in DTC, DtcStarts(d) \/ DtcStartsAlone(d) \/ DtcStops(d)
  PROVE  SlowInv'
<1>0. d # Cfo /\ d # Artdaq
  BY RunAssumption DEF Cfo, Artdaq
<1>1. CASE DtcStarts(d) \/ DtcStartsAlone(d)
  <2>1. PausesSlowControls(d) /\ \E b \in BOOLEAN : Reply(d, b)
    <3>1. TypeOK => (run.step < SystemMinReady - 1) \in BOOLEAN
      OBVIOUS
    <3> QED
      BY <1>1, <3>1 DEF DtcStarts, DtcStartsAlone
  <2>2. \A e \in DTC : e # d /\ Settled(e)' => Settled(e)
    BY <2>1 DEF Reply, Settled, TypeOK
  <2> QED
    BY <2>1, <2>2, PausesInv DEF PausesSlowControls
<1>2. CASE DtcStops(d)
  <2>1. \A e \in DTC : ~Settled(e)'
    BY <1>2 DEF DtcStops, Called, Reply, Settled, TypeOK
  <2> QED
    BY <1>2, <2>1, PausesInv DEF DtcStops
<1> QED
  BY <1>1, <1>2

LEMMA ControlsFrame ==
  ASSUME Next
  PROVE  \/ UNCHANGED controls
         \/ \E d \in DTC : \/ DtcStarts(d) \/ DtcStartsAlone(d) \/ DtcStops(d)
                           \/ PollBegins(d) \/ PollEnds(d)
         \/ \E m \in Flash : FlashBegins(m) \/ FlashPauses(m) \/ FlashWrites(m) \/ FlashEnds(m)
<1>1. CASE Transition
  BY <1>1 DEF Transition, Start, StepEnds, ArtdaqStarts, CfoWaits, CfoAutoLaunches, CfoStarted, FrontEndFails,
     Pause, Resume, Stop, CfoStops, TransitionEnds, DtcPauses, DtcResumes, DtcHalts, Halt, CfoHalts, Halted
<1>2. CASE Operator
  BY <1>2 DEF Operator, MacroFixedWidth, SuperOrchestrationStart, MacroSuperCycle, MacroOrchestrates,
     SuperOrchestrationEnd, ResetRunplan, LaunchRunplan, Macro
<1>3. CASE LoopOrchestrates \/ CfoIssuesWindow \/ \E t \in Thread : LaunchStep(t) \/ Orchestrates(t)
  BY <1>3 DEF LoopOrchestrates, CfoIssuesWindow, LaunchStep, LaunchHalts, LaunchSets, LaunchEnables, AddsToNext,
     Orchestrates
<1> QED
  BY <1>1, <1>2, <1>3 DEF Next

LEMMA NextSlow == TypeOK /\ SlowInv /\ [Next]_vars => SlowInv'
<1> SUFFICES ASSUME TypeOK, SlowInv, [Next]_vars PROVE SlowInv'
  OBVIOUS
<1>1. CASE UNCHANGED controls /\ ~ \E e \in DTC : DtcStarts(e) \/ DtcStartsAlone(e)
  BY <1>1, SettledFrame, SlowFrame
<1>2. CASE UNCHANGED vars
  <2>1. UNCHANGED controls /\ \A d \in DTC : Settled(d)' = Settled(d)
    BY <1>2 DEF vars, controls, Settled
  <2> QED
    BY <2>1, SlowFrame
<1> QED
  BY <1>1, <1>2, ControlsFrame, DtcKeepsSlow, PollInv, FlashBeginsInv, FlashPausesInv, FlashWritesInv,
     FlashEndsInv

\* No cycle of the slow controls begins behind Program ROCs Safe (SlowControlsPause) unless
\* somebody else paused or resumed them meanwhile, and in a run only a flash that overlapped
\* another hand can have woken them: for any flashes of any DTCs in any runs.
THEOREM SlowControlsAreQuiet == Spec => []SlowControlsQuiet
<1>1. Init => SlowInv
  BY RunAssumption DEF Init, SlowInv, Settled, Works, Holds
<1>2. SlowInv => SlowControlsQuiet
  BY DEF SlowInv, SlowControlsQuiet, Settled, Over, Holds
<1> QED
  BY <1>1, <1>2, NextSlow, TypeCorrect, PTL DEF Spec

-----------------------------------------------------------------------------
(* A run loses no window, and nothing makes windows                         *)
(* when a stop or a halt is over                                            *)

\* The state machine launches only in the last start step, and the work loop
\* only in a run.
LaunchInv ==
  /\ launch["fsm"].at # "idle" =>
       /\ EventBuilding /\ conf.auto /\ Called(Cfo, "Starting") /\ run.step = SystemMinReady
       /\ launch["fsm"].at \in {"halt", "set", "enable"} /\ ~launch["fsm"].adds
  /\ launch["loop"].at # "idle" => run.state = "Running"

\* The CFO has been stopped, or has not been started yet.
CfoSilent ==
  \/ run.state \in {"Configured", "Halted"}
  \/ run.state \in {"Stopping", "Halting"} /\ Cfo \notin run.todo

BeforeLaunch == run.state = "Starting" /\ (run.step < SystemMinReady \/ Cfo \in run.todo)

\* The DTC has made its last SoftReset of the start.
Armed(d) ==
  \/ run.state \in {"Running", "Pausing", "Paused", "Resuming"}
  \/ run.state = "Starting" /\ run.step = SystemMinReady
  \/ run.state = "Starting" /\ run.step = SystemMinReady - 1 /\ d \notin run.todo

BeamInv ==
  EventBuilding /\ ~byHand /\ (CfoSilent \/ BeforeLaunch) => ~cfo.on

EmulationInv ==
  /\ EventBuilding => emulating = {}
  /\ run.state \in {"Configured", "Paused", "Halted"} => emulating = {}
  /\ run.state \in {"Pausing", "Stopping", "Halting"} => emulating \subseteq run.todo

StepInv ==
  EventBuilding /\ run.state = "Starting" =>
    /\ run.step <= SystemMinReady /\ run.todo \subseteq FrontEnd \cup {Artdaq}
    /\ run.step < SystemMinReady /\ Cfo \notin run.todo => run.more
    /\ run.step = SystemMinReady => ~run.more
    /\ run.step >= 2 \/ (run.step = 1 /\ Artdaq \notin run.todo) => artdaq
    /\ run.step = 0 => RealROCs \ run.todo \subseteq rocs
    /\ run.step >= 1 => RealROCs \subseteq rocs

CountInv ==
  EventBuilding =>
    /\ run.state \in {"Running", "Pausing", "Paused", "Resuming"} => artdaq /\ RealROCs \subseteq rocs
    /\ ~byHand /\ BeforeLaunch => sent = 0
    /\ ~byHand => \A d \in RealROCs : Armed(d) => counted[d] = sent

CompleteInv == LaunchInv /\ BeamInv /\ EmulationInv /\ StepInv /\ CountInv

-----------------------------------------------------------------------------
(* Facts about the names and the steps                                      *)

LEMMA Names == Cfo \notin DTC /\ Artdaq \notin DTC /\ Cfo # Artdaq /\ RealROCs \subseteq DTC
BY RunAssumption DEF Cfo, Artdaq

\* The last start step is a maximum, so it exists.
LEMMA LastStep == SystemMinReady \in Nat /\ SystemMinReady >= 3
<1> DEFINE Asked == {MinReady[d] : d \in DTC} \cup {2}
<1>1. PICK d \in DTC : \A e \in DTC : MinReady[e] <= MinReady[d]
  BY RunAssumption
<1>2. MinReady[d] \in Asked /\ MinReady[d] >= 3 /\ MinReady[d] \in Nat
  BY RunAssumption
<1>3. \A m \in Asked : m \in Nat /\ m <= MinReady[d]
  BY <1>1, <1>2, RunAssumption
<1>4. \E n \in Asked : \A m \in Asked : m <= n
  BY <1>2, <1>3
<1>5. SystemMinReady \in Asked /\ \A m \in Asked : m <= SystemMinReady
  <2> HIDE DEF Asked
  <2>1. SystemMinReady = CHOOSE n \in Asked : \A m \in Asked : m <= n
    BY DEF SystemMinReady, Asked
  <2> QED
    BY <1>4, <2>1
<1>6. SystemMinReady \in Nat /\ MinReady[d] <= SystemMinReady
  BY <1>2, <1>3, <1>5
<1> HIDE DEF Asked
<1> QED
  BY <1>2, <1>6

LEMMA ReplyIs ==
  ASSUME TypeOK, NEW f, NEW again \in BOOLEAN, Reply(f, again)
  PROVE  /\ run'.state = run.state /\ run'.step = run.step
         /\ run'.todo = run.todo \ {f} /\ run'.more = (run.more \/ again)
BY DEF TypeOK, Reply

LEMMA CallIs ==
  ASSUME NEW s, NEW who, Call(s, who)
  PROVE  run'.state = s /\ run'.step = 0 /\ run'.todo = who /\ run'.more = FALSE
BY DEF Call

LEMMA RunIs ==
  TypeOK => run.step \in Nat /\ run.more \in BOOLEAN /\ run.todo \subseteq FrontEnd \cup {Artdaq}
BY DEF TypeOK

\* The configuration is fixed, and so is what follows from it.
LEMMA ConfFixed == [Next]_vars => conf' = conf /\ EventBuilding' = EventBuilding
<1>1. CASE Transition
  BY <1>1 DEF Transition, Start, StepEnds, ArtdaqStarts, CfoWaits, CfoAutoLaunches, CfoStarted, DtcStarts,
     DtcStartsAlone, FrontEndFails, Pause, Resume, Stop, CfoStops, TransitionEnds, DtcPauses, DtcResumes,
     DtcStops, DtcHalts, Halt, CfoHalts, Halted, EventBuilding
<1>2. CASE Operator
  BY <1>2 DEF Operator, MacroFixedWidth, SuperOrchestrationStart, MacroSuperCycle, MacroOrchestrates,
     SuperOrchestrationEnd, ResetRunplan, LaunchRunplan, Macro, FlashBegins, FlashPauses,
       FlashWrites, FlashEnds, EventBuilding
<1>3. CASE \E t \in Thread : LaunchStep(t) \/ Orchestrates(t)
  BY <1>3 DEF LaunchStep, LaunchHalts, LaunchSets, LaunchEnables, AddsToNext, Orchestrates, EventBuilding
<1> QED
  BY <1>1, <1>2, <1>3 DEF Next, vars, LoopOrchestrates, CfoIssuesWindow, PollBegins, PollEnds, EventBuilding

-----------------------------------------------------------------------------
(* Launches                                                                 *)

\* A step that leaves the launches alone and does not take the run away from them.
LEMMA LaunchFrame ==
  ASSUME TypeOK, LaunchInv, conf' = conf, launch' = launch,
         launch["fsm"].at # "idle" =>
           run'.state = run.state /\ run'.step = run.step /\ Cfo \in run'.todo,
         launch["loop"].at # "idle" => run'.state = run.state
  PROVE  LaunchInv'
BY DEF LaunchInv, EventBuilding, Called

\* Thread t replaces its launch by l, and the run stays.
LEMMA LaunchReplaced ==
  ASSUME TypeOK, LaunchInv, conf' = conf, NEW t \in Thread, NEW l, launch' = [launch EXCEPT ![t] = l],
         run' = run,
         t = "fsm" => /\ EventBuilding /\ conf.auto /\ Called(Cfo, "Starting") /\ run.step = SystemMinReady
                      /\ l.at \in {"halt", "set", "enable"} /\ ~l.adds,
         t = "loop" => run.state = "Running"
  PROVE  LaunchInv'
<1>1. \A u \in Thread : launch'[u] = IF u = t THEN l ELSE launch[u]
  BY DEF TypeOK
<1> QED
  BY <1>1 DEF LaunchInv, EventBuilding, Called, Thread

LEMMA TransitionLaunch == TypeOK /\ LaunchInv /\ Transition /\ conf' = conf => LaunchInv'
<1> SUFFICES ASSUME TypeOK, LaunchInv, Transition, conf' = conf PROVE LaunchInv'
  OBVIOUS
<1>0. launch["fsm"].at # "idle" => /\ EventBuilding /\ conf.auto /\ run.state = "Starting" /\ Cfo \in run.todo
                                   /\ run.step = SystemMinReady
  BY DEF LaunchInv, Called
<1>1. CASE Start \/ StepEnds \/ FrontEndFails \/ Pause \/ Resume \/ Stop \/ TransitionEnds \/ Halt \/ Halted
  <2>1. launch' = launch /\ launch["fsm"].at = "idle" /\ launch["loop"].at = "idle"
    BY <1>0, <1>1, Names DEF LaunchInv, Idle, Start, StepEnds, FrontEndFails, Pause, Resume, Stop, TransitionEnds,
       Halt, Halted, plans
  <2> QED
    BY <2>1, LaunchFrame
<1>2. CASE \/ ArtdaqStarts \/ CfoStops \/ CfoHalts \/ CfoWaits \/ CfoStarted
           \/ \E d \in DTC : \/ DtcStarts(d) \/ DtcStartsAlone(d) \/ DtcPauses(d) \/ DtcResumes(d) \/ DtcStops(d)
                             \/ DtcHalts(d)
  <2>1. launch' = launch /\ \E f \in FrontEnd \cup {Artdaq}, b \in BOOLEAN :
          Reply(f, b) /\ (launch["fsm"].at # "idle" => f # Cfo)
    <3>1. CASE CfoStops \/ CfoHalts \/ CfoWaits \/ CfoStarted
      <4>1. launch' = launch /\ launch["fsm"].at = "idle" /\ \E b \in BOOLEAN : Reply(Cfo, b)
        <5>1. CASE CfoStops \/ CfoHalts
          BY <5>1, <1>0 DEF CfoStops, CfoHalts, Called, plans
        <5>2. CASE CfoWaits
          <6>1. launch' = launch /\ Reply(Cfo, TRUE) /\ run.step < SystemMinReady
            BY <5>2 DEF CfoWaits
          <6>2. launch["fsm"].at = "idle"
            BY <6>1, <1>0, LastStep
          <6> QED
            BY <6>1, <6>2
        <5>3. CASE CfoStarted
          BY <5>3, <1>0 DEF CfoStarted, plans
        <5> QED
          BY <3>1, <5>1, <5>2, <5>3
      <4> QED
        BY <4>1 DEF FrontEnd
    <3>2. CASE ArtdaqStarts
      BY <3>2, Names DEF ArtdaqStarts, plans
    <3>3. CASE \E d \in DTC : \/ DtcStarts(d) \/ DtcStartsAlone(d) \/ DtcPauses(d) \/ DtcResumes(d) \/ DtcStops(d)
                              \/ DtcHalts(d)
      <4>1. PICK d \in DTC : \/ DtcStarts(d) \/ DtcStartsAlone(d) \/ DtcPauses(d) \/ DtcResumes(d) \/ DtcStops(d)
                             \/ DtcHalts(d)
        BY <3>3
      <4>2. launch' = launch /\ \E b \in BOOLEAN : Reply(d, b)
        <5>1. (run.step < SystemMinReady - 1) \in BOOLEAN
          OBVIOUS
        <5> QED
          BY <4>1, <5>1 DEF DtcStarts, DtcStartsAlone, DtcPauses, DtcResumes, DtcStops, DtcHalts, plans
      <4> QED
        BY <4>2, Names DEF FrontEnd
    <3> QED
      BY <1>2, <3>1, <3>2, <3>3
  <2> QED
    BY <1>0, <2>1, ReplyIs, LaunchFrame
<1>3. CASE CfoAutoLaunches
  <2>1. "fsm" \in Thread /\ run' = run
    BY <1>3 DEF Thread, CfoAutoLaunches
  <2> DEFINE l == [at |-> "halt", windows |-> 0, adds |-> FALSE]
  <2>2. launch' = [launch EXCEPT !["fsm"] = l] /\ l.at = "halt" /\ ~l.adds
    BY <1>3 DEF CfoAutoLaunches, Begins
  <2> HIDE DEF l
  <2>3. EventBuilding /\ conf.auto /\ Called(Cfo, "Starting") /\ run.step = SystemMinReady
    BY <1>3 DEF CfoAutoLaunches
  <2> QED
    BY <2>1, <2>2, <2>3, LaunchReplaced
<1> QED
  BY <1>1, <1>2, <1>3 DEF Transition

LEMMA ThreadLaunch ==
  ASSUME TypeOK, LaunchInv, NEW t \in Thread, LaunchStep(t) \/ Orchestrates(t), conf' = conf
  PROVE  LaunchInv'
<1>0. /\ launch[t].at # "idle"
      /\ t = "fsm" => /\ EventBuilding /\ conf.auto /\ Called(Cfo, "Starting") /\ run.step = SystemMinReady
                      /\ launch[t].at \in {"halt", "set", "enable"} /\ ~launch[t].adds
      /\ t = "loop" => run.state = "Running"
  <2>1. launch[t].at # "idle"
    BY DEF LaunchStep, LaunchHalts, LaunchSets, LaunchEnables, AddsToNext, Orchestrates
  <2> QED
    BY <2>1 DEF LaunchInv
<1>1. CASE LaunchHalts(t) \/ LaunchSets(t)
  <2>1. PICK a \in {"set", "enable"} : launch' = [launch EXCEPT ![t].at = a] /\ run' = run
    BY <1>1 DEF LaunchHalts, LaunchSets
  <2> DEFINE l == [launch[t] EXCEPT !.at = a]
  <2>2. launch[t] \in Active
    BY <1>1, ActiveLaunch DEF LaunchHalts, LaunchSets
  <2>3. l.at \in {"set", "enable"} /\ l.adds = launch[t].adds
    BY <2>2 DEF Active
  <2>4. launch' = [launch EXCEPT ![t] = l]
    BY <2>1
  <2> HIDE DEF l
  <2> QED
    BY <1>0, <2>1, <2>3, <2>4, LaunchReplaced
<1>2. CASE LaunchEnables(t)
  <2> DEFINE l == IF launch[t].adds THEN [launch[t] EXCEPT !.at = "add"] ELSE Idle
  <2>1. launch' = [launch EXCEPT ![t] = l] /\ (t = "fsm" => l = Idle) /\ (t # "fsm" => run' = run)
        /\ (t = "fsm" => Reply(Cfo, FALSE))
    BY <1>0, <1>2 DEF LaunchEnables
  <2> HIDE DEF l
  <2>2. CASE t = "fsm"
    <3>1. launch'["fsm"].at = "idle" /\ launch'["loop"] = launch["loop"]
      BY <2>1, <2>2 DEF TypeOK, Idle, Thread
    <3>2. run'.state = run.state
      BY <2>1, <2>2, ReplyIs
    <3> QED
      BY <3>1, <3>2 DEF LaunchInv
  <2> QED
    BY <1>0, <2>1, <2>2, LaunchReplaced
<1>3. CASE AddsToNext(t) \/ Orchestrates(t)
  <2>1. t # "fsm" /\ run' = run
    BY <1>0, <1>3 DEF AddsToNext, Orchestrates
  <2>2. PICK l : launch' = [launch EXCEPT ![t] = l]
    BY <1>3 DEF AddsToNext, Orchestrates, Begins
  <2> QED
    BY <1>0, <2>1, <2>2, LaunchReplaced
<1> QED
  BY <1>1, <1>2, <1>3 DEF LaunchStep

LEMMA OtherLaunch ==
  ASSUME TypeOK, LaunchInv, conf' = conf,
         \/ Operator \/ LoopOrchestrates \/ CfoIssuesWindow
         \/ \E d \in DTC : PollBegins(d) \/ PollEnds(d)
  PROVE  LaunchInv'
<1>0. {"loop", "macro"} \subseteq Thread
  BY DEF Thread
<1>1. CASE LoopOrchestrates
  BY <1>0, <1>1, LaunchReplaced DEF LoopOrchestrates
<1>2. CASE Operator
  <2>1. run' = run /\ (launch' = launch \/ \E l : launch' = [launch EXCEPT !["macro"] = l])
    BY <1>2 DEF Operator, MacroFixedWidth, SuperOrchestrationStart, MacroSuperCycle, MacroOrchestrates, Begins,
       SuperOrchestrationEnd, ResetRunplan, LaunchRunplan, Macro, FlashBegins, FlashPauses,
       FlashWrites, FlashEnds, plans
  <2>2. CASE launch' = launch
    BY <2>1, <2>2, LaunchFrame DEF LaunchInv, Called
  <2> QED
    BY <1>0, <2>1, <2>2, LaunchReplaced
<1>3. CASE CfoIssuesWindow \/ \E d \in DTC : PollBegins(d) \/ PollEnds(d)
  <2>1. run' = run /\ launch' = launch
    BY <1>3 DEF CfoIssuesWindow, PollBegins, PollEnds, plans
  <2> QED
    BY <2>1, LaunchFrame DEF LaunchInv, Called
<1> QED
  BY <1>1, <1>2, <1>3

LEMMA NextLaunch == TypeOK /\ LaunchInv /\ [Next]_vars => LaunchInv'
<1> SUFFICES ASSUME TypeOK, LaunchInv, [Next]_vars PROVE LaunchInv'
  OBVIOUS
<1>1. conf' = conf
  BY ConfFixed
<1>2. CASE UNCHANGED vars
  BY <1>2, LaunchFrame DEF vars, LaunchInv, Called
<1> QED
  BY <1>1, <1>2, TransitionLaunch, ThreadLaunch, OtherLaunch DEF Next

-----------------------------------------------------------------------------
(* What the steps do to the run, by groups of actions                       *)

\* The steps of a DTC and of artdaq: a reply that is not the CFO's.
LEMMA DtcReplies ==
  ASSUME NEW d \in DTC,
         DtcStarts(d) \/ DtcStartsAlone(d) \/ DtcPauses(d) \/ DtcResumes(d) \/ DtcStops(d) \/ DtcHalts(d)
  PROVE  /\ \E b \in BOOLEAN : Reply(d, b)
         /\ UNCHANGED <<cfo, sent, artdaq, byHand>> /\ d # Cfo /\ d # Artdaq
<1>1. (run.step < SystemMinReady - 1) \in BOOLEAN /\ d # Cfo /\ d # Artdaq
  BY Names
<1> QED
  BY <1>1 DEF DtcStarts, DtcStartsAlone, DtcPauses, DtcResumes, DtcStops, DtcHalts

\* The operator, the poll of the slow controls and the windows leave the state machine alone.
LEMMA RunStays ==
  ASSUME TypeOK,
         \/ Operator \/ LoopOrchestrates \/ CfoIssuesWindow \/ UNCHANGED vars
         \/ \E d \in DTC : PollBegins(d) \/ PollEnds(d)
         \/ \E t \in Thread : LaunchHalts(t) \/ LaunchSets(t) \/ AddsToNext(t) \/ Orchestrates(t)
         \/ \E t \in Thread : t # "fsm" /\ LaunchEnables(t)
  PROVE  UNCHANGED <<run, rocs, artdaq, emulating>> /\ (byHand => byHand')
<1>1. CASE Operator
  <2>1. UNCHANGED <<run, rocs, artdaq, emulating>>
    BY <1>1 DEF Operator, MacroFixedWidth, SuperOrchestrationStart, MacroSuperCycle, MacroOrchestrates,
       SuperOrchestrationEnd, ResetRunplan, LaunchRunplan, Macro, FlashBegins, FlashPauses,
       FlashWrites, FlashEnds, boards
  <2>2. byHand' = byHand \/ byHand' = TRUE
    BY <1>1 DEF Operator, MacroFixedWidth, SuperOrchestrationStart, MacroSuperCycle, MacroOrchestrates,
       SuperOrchestrationEnd, ResetRunplan, LaunchRunplan, Macro, FlashBegins, FlashPauses,
       FlashWrites, FlashEnds
  <2> QED
    BY <2>1, <2>2
<1>2. CASE \E t \in Thread : LaunchHalts(t) \/ LaunchSets(t) \/ AddsToNext(t) \/ Orchestrates(t)
  <2>1. UNCHANGED <<run, rocs, artdaq, emulating>> /\ byHand' = byHand
    BY <1>2 DEF LaunchHalts, LaunchSets, AddsToNext, Orchestrates, boards
  <2> QED
    BY <2>1
<1>3. CASE \E t \in Thread : t # "fsm" /\ LaunchEnables(t)
  <2>1. UNCHANGED <<run, rocs, artdaq, emulating>> /\ \E t \in Thread : byHand' = (byHand \/ t = "macro")
    BY <1>3 DEF LaunchEnables
  <2> QED
    BY <2>1
<1>4. CASE LoopOrchestrates \/ CfoIssuesWindow \/ UNCHANGED vars \/ \E d \in DTC : PollBegins(d) \/ PollEnds(d)
  <2>1. UNCHANGED <<run, rocs, artdaq, emulating>> /\ byHand' = byHand
    BY <1>4 DEF PollBegins, PollEnds, boards, LoopOrchestrates, CfoIssuesWindow, vars
  <2> QED
    BY <2>1
<1> QED
  BY <1>1, <1>2, <1>3, <1>4

\* Every step is one of the state machine, the reply to its launch, or leaves the run alone.
LEMMA Steps ==
  ASSUME [Next]_vars
  PROVE  \/ Transition
         \/ LaunchEnables("fsm")
         \/ Operator \/ LoopOrchestrates \/ CfoIssuesWindow \/ UNCHANGED vars
         \/ \E d \in DTC : PollBegins(d) \/ PollEnds(d)
         \/ \E t \in Thread : LaunchHalts(t) \/ LaunchSets(t) \/ AddsToNext(t) \/ Orchestrates(t)
         \/ \E t \in Thread : t # "fsm" /\ LaunchEnables(t)
BY DEF Next, LaunchStep

\* The state machine's launch is over: the CFO has answered in the last step.
LEMMA FsmEnables ==
  ASSUME TypeOK, LaunchInv, LaunchEnables("fsm")
  PROVE  /\ EventBuilding /\ run.state = "Starting" /\ run.step = SystemMinReady
         /\ run'.state = run.state /\ run'.step = run.step /\ run'.todo = run.todo \ {Cfo}
         /\ run'.more = run.more
         /\ UNCHANGED <<rocs, artdaq, emulating, counted, sent, byHand>>
<1>1. launch["fsm"].at # "idle" /\ Reply(Cfo, FALSE) /\ UNCHANGED <<rocs, artdaq, emulating, counted, sent>>
      /\ byHand' = (byHand \/ "fsm" = "macro")
  BY DEF LaunchEnables
<1>2. byHand' = byHand
  BY <1>1 DEF TypeOK
<1> QED
  BY <1>1, <1>2, ReplyIs, RunIs DEF LaunchInv, Called

-----------------------------------------------------------------------------
(* The emulators of the DTCs                                                *)

LEMMA EmulationFrame ==
  ASSUME EmulationInv, EventBuilding' = EventBuilding, emulating' = emulating, run' = run
  PROVE  EmulationInv'
BY DEF EmulationInv

LEMMA NextEmulation == TypeOK /\ LaunchInv /\ EmulationInv /\ [Next]_vars => EmulationInv'
<1> SUFFICES ASSUME TypeOK, LaunchInv, EmulationInv, [Next]_vars PROVE EmulationInv'
  OBVIOUS
<1>0. EventBuilding' = EventBuilding /\ emulating \subseteq DTC
  BY ConfFixed DEF TypeOK
<1>1. CASE Start \/ StepEnds \/ FrontEndFails
  <2>1. emulating' = emulating /\ run'.state \in {"Starting", "Running", "Failed"}
    <3>1. CASE Start
      BY <3>1, CallIs DEF Start
    <3>2. CASE StepEnds
      BY <3>2 DEF StepEnds, boards, TypeOK
    <3>3. CASE FrontEndFails
      BY <3>3 DEF FrontEndFails, boards, TypeOK
    <3> QED
      BY <1>1, <3>1, <3>2, <3>3
  <2> QED
    BY <1>0, <2>1 DEF EmulationInv
<1>2. CASE Pause \/ Resume \/ Stop \/ Halt
  <2>1. emulating' = emulating /\ DTC \subseteq run'.todo
        /\ run'.state \in {"Pausing", "Resuming", "Stopping", "Halting"}
    <3>1. PICK s \in {"Pausing", "Resuming", "Stopping", "Halting"}, who \in {DTC, FrontEnd} :
            emulating' = emulating /\ Call(s, who)
      BY <1>2 DEF Pause, Resume, Stop, Halt, boards
    <3>2. run'.state = s /\ run'.todo = who
      BY <3>1, CallIs
    <3> QED
      BY <3>1, <3>2 DEF FrontEnd
  <2> QED
    BY <1>0, <2>1 DEF EmulationInv
<1>3. CASE TransitionEnds
  <2>1. emulating' = emulating /\ run.todo = {} /\ run.state \in {"Pausing", "Resuming", "Stopping"}
        /\ (run.state = "Resuming" => run'.state = "Running")
        /\ (run.state # "Resuming" => run'.state \in {"Paused", "Configured"})
    BY <1>3 DEF TransitionEnds, boards, TypeOK
  <2> QED
    BY <1>0, <2>1 DEF EmulationInv
<1>4. CASE Halted
  <2>1. emulating' = emulating /\ run.todo = {} /\ run.state = "Halting" /\ run'.state = "Halted"
    BY <1>4 DEF Halted, boards, TypeOK
  <2> QED
    BY <1>0, <2>1 DEF EmulationInv
<1>5. CASE ArtdaqStarts \/ CfoWaits \/ CfoStarted \/ CfoStops \/ CfoHalts
  <2>1. emulating' = emulating /\ \E f \in {Cfo, Artdaq}, b \in BOOLEAN : Reply(f, b)
    BY <1>5 DEF ArtdaqStarts, CfoWaits, CfoStarted, CfoStops, CfoHalts, boards
  <2>2. run'.state = run.state /\ run.todo \ {Cfo, Artdaq} \subseteq run'.todo
    BY <2>1, ReplyIs
  <2> QED
    BY <1>0, <2>1, <2>2, Names DEF EmulationInv
<1>6. CASE CfoAutoLaunches
  BY <1>0, <1>6, EmulationFrame DEF CfoAutoLaunches, boards
<1>7. ASSUME NEW d \in DTC,
             DtcStarts(d) \/ DtcStartsAlone(d) \/ DtcPauses(d) \/ DtcResumes(d) \/ DtcStops(d) \/ DtcHalts(d)
      PROVE  EmulationInv'
  <2>1. run'.state = run.state /\ run'.todo = run.todo \ {d}
    BY <1>7, DtcReplies, ReplyIs
  <2>2. CASE DtcStarts(d) \/ DtcStartsAlone(d) \/ DtcResumes(d)
    <3>1. run.state \in {"Starting", "Resuming"} /\ (EventBuilding => emulating' = emulating)
      BY <2>2 DEF DtcStarts, DtcStartsAlone, DtcResumes, Called
    <3> QED
      BY <1>0, <2>1, <3>1 DEF EmulationInv
  <2>3. CASE DtcPauses(d) \/ DtcStops(d) \/ DtcHalts(d)
    <3>1. run.state \in {"Pausing", "Stopping", "Halting"}
          /\ (EventBuilding => emulating' = emulating) /\ (~EventBuilding => emulating' = emulating \ {d})
      BY <2>3 DEF DtcPauses, DtcStops, DtcHalts, Called
    <3> QED
      BY <1>0, <2>1, <3>1 DEF EmulationInv
  <2> QED
    BY <1>7, <2>2, <2>3
<1>8. CASE LaunchEnables("fsm")
  <2>1. emulating' = emulating /\ run'.state = "Starting"
    BY <1>8, FsmEnables
  <2> QED
    BY <1>0, <2>1 DEF EmulationInv
<1>9. CASE Transition
  BY <1>1, <1>2, <1>3, <1>4, <1>5, <1>6, <1>7, <1>9 DEF Transition
<1>10. CASE UNCHANGED <<run, emulating>>
  BY <1>0, <1>10, EmulationFrame
<1> QED
  BY <1>8, <1>9, <1>10, Steps, RunStays

-----------------------------------------------------------------------------
(* The beam-off mode of the CFO                                             *)

LEMMA BeamFrame ==
  ASSUME BeamInv, EventBuilding' = EventBuilding, byHand => byHand',
         EventBuilding /\ (CfoSilent' \/ BeforeLaunch') => CfoSilent \/ BeforeLaunch,
         EventBuilding /\ cfo'.on => cfo.on \/ byHand'
  PROVE  BeamInv'
BY DEF BeamInv

\* A reply of another front end does not bring the CFO nearer to a start or a stop.
LEMMA OthersReply ==
  ASSUME TypeOK, NEW f, f # Cfo, NEW b \in BOOLEAN, Reply(f, b)
  PROVE  CfoSilent' = CfoSilent /\ BeforeLaunch' = BeforeLaunch
<1>1. run'.state = run.state /\ run'.step = run.step /\ (Cfo \in run'.todo <=> Cfo \in run.todo)
  BY ReplyIs
<1>2. CfoSilent' <=> CfoSilent
  BY <1>1 DEF CfoSilent
<1>3. BeforeLaunch' <=> BeforeLaunch
  BY <1>1 DEF BeforeLaunch, SystemMinReady
<1> QED
  BY <1>2, <1>3 DEF CfoSilent, BeforeLaunch

LEMMA NextBeam == TypeOK /\ LaunchInv /\ StepInv /\ BeamInv /\ [Next]_vars => BeamInv'
<1> SUFFICES ASSUME TypeOK, LaunchInv, StepInv, BeamInv, [Next]_vars PROVE BeamInv'
  OBVIOUS
<1>0. EventBuilding' = EventBuilding /\ SystemMinReady' = SystemMinReady
  BY ConfFixed DEF SystemMinReady
<1>1. CASE Start
  <2>1. cfo' = cfo /\ CfoSilent /\ byHand' = byHand
    BY <1>1 DEF Start, CfoSilent
  <2> QED
    BY <1>0, <2>1, BeamFrame
<1>2. CASE StepEnds
  <2>1. cfo' = cfo /\ byHand' = byHand /\ run.state = "Starting" /\ run.todo = {}
        /\ (run.more => run'.state = "Starting") /\ (~run.more => run'.state = "Running")
    BY <1>2 DEF StepEnds, boards, TypeOK
  <2>2. EventBuilding /\ run.more => BeforeLaunch
    BY <2>1, RunIs, LastStep DEF StepInv, BeforeLaunch
  <2>3. ~run.more => ~CfoSilent' /\ ~BeforeLaunch'
    BY <2>1 DEF CfoSilent, BeforeLaunch
  <2> QED
    BY <1>0, <2>1, <2>2, <2>3, BeamFrame
<1>3. CASE ArtdaqStarts
  <2>1. cfo' = cfo /\ byHand' = byHand /\ \E b \in BOOLEAN : Reply(Artdaq, b)
    BY <1>3 DEF ArtdaqStarts, boards
  <2> QED
    BY <1>0, <2>1, OthersReply, Names, BeamFrame
<1>4. CASE CfoWaits \/ CfoStarted
  <2>1. byHand' = byHand /\ Called(Cfo, "Starting")
    BY <1>4 DEF CfoWaits, CfoStarted
  <2>2. cfo'.on = cfo.on
    BY <1>4 DEF CfoWaits, CfoStarted, SoftReset, boards, TypeOK
  <2>3. BeforeLaunch
    BY <2>1 DEF BeforeLaunch, Called
  <2> QED
    BY <1>0, <2>1, <2>2, <2>3, BeamFrame
<1>5. CASE FrontEndFails \/ Pause \/ Resume \/ Stop \/ Halt
  <2>1. cfo' = cfo /\ byHand' = byHand
    BY <1>5 DEF FrontEndFails, Pause, Resume, Stop, Halt, boards
  <2>2. run'.state \in {"Failed", "Pausing", "Resuming"}
        \/ (run'.state \in {"Stopping", "Halting"} /\ Cfo \in run'.todo)
    <3>1. CASE FrontEndFails
      BY <3>1 DEF FrontEndFails, TypeOK
    <3>2. CASE Pause \/ Resume
      BY <3>2 DEF Pause, Resume, Call
    <3>3. CASE Stop \/ Halt
      BY <3>3 DEF Stop, Halt, Call, FrontEnd
    <3> QED
      BY <1>5, <3>1, <3>2, <3>3
  <2>3. ~CfoSilent' /\ ~BeforeLaunch'
    BY <2>2 DEF CfoSilent, BeforeLaunch
  <2> QED
    BY <1>0, <2>1, <2>3, BeamFrame
<1>6. CASE CfoStops \/ CfoHalts
  <2>1. EventBuilding => ~cfo'.on
    BY <1>6 DEF CfoStops, CfoHalts, TypeOK
  <2> QED
    BY <1>0, <2>1 DEF BeamInv
<1>7. CASE TransitionEnds \/ Halted
  <2>1. cfo' = cfo /\ byHand' = byHand /\ run.todo = {}
    BY <1>7 DEF TransitionEnds, Halted, boards
  <2>2. run.state \in {"Stopping", "Halting"} \/ run'.state \in {"Paused", "Running"}
    BY <1>7 DEF TransitionEnds, Halted, TypeOK
  <2>3. CfoSilent \/ (~CfoSilent' /\ ~BeforeLaunch')
    BY <2>1, <2>2 DEF CfoSilent, BeforeLaunch
  <2> QED
    BY <1>0, <2>1, <2>3, BeamFrame
<1>8. CASE CfoAutoLaunches
  <2>1. UNCHANGED <<run, cfo, byHand>>
    BY <1>8 DEF CfoAutoLaunches, boards
  <2> QED
    BY <1>0, <2>1, BeamFrame DEF CfoSilent, BeforeLaunch
<1>9. ASSUME NEW d \in DTC,
             DtcStarts(d) \/ DtcStartsAlone(d) \/ DtcPauses(d) \/ DtcResumes(d) \/ DtcStops(d) \/ DtcHalts(d)
      PROVE  BeamInv'
  <2>1. cfo' = cfo /\ byHand' = byHand /\ d # Cfo /\ \E b \in BOOLEAN : Reply(d, b)
    BY <1>9, DtcReplies
  <2> QED
    BY <1>0, <2>1, OthersReply, BeamFrame
<1>10. CASE LaunchEnables("fsm")
  <2>1. ~CfoSilent' /\ ~BeforeLaunch'
    BY <1>0, <1>10, FsmEnables, LastStep DEF CfoSilent, BeforeLaunch
  <2> QED
    BY <2>1 DEF BeamInv
<1>11. CASE UNCHANGED run /\ (byHand => byHand') /\ (cfo'.on => cfo.on \/ byHand')
  BY <1>0, <1>11, BeamFrame DEF CfoSilent, BeforeLaunch
<1>12. CASE Operator
  <2>1. cfo' = cfo \/ cfo' = [cfo EXCEPT !.on = FALSE, !.left = Fresh] \/ byHand' = TRUE
    BY <1>12 DEF Operator, MacroFixedWidth, SuperOrchestrationStart, MacroSuperCycle, MacroOrchestrates, CanHalt,
       SuperOrchestrationEnd, ResetRunplan, LaunchRunplan, FlashBegins, FlashPauses, FlashWrites, FlashEnds,
       boards
  <2>2. cfo'.on => cfo.on \/ byHand'
    BY <2>1 DEF TypeOK
  <2> QED
    BY <1>11, <1>12, <2>2, RunStays
<1>13. CASE \E t \in Thread : LaunchHalts(t) \/ LaunchSets(t) \/ AddsToNext(t) \/ Orchestrates(t)
  <2>1. cfo'.on => cfo.on
    BY <1>13 DEF LaunchHalts, CanHalt, LaunchSets, AddsToNext, Orchestrates, boards, TypeOK
  <2> QED
    BY <1>11, <1>13, <2>1, RunStays
<1>14. CASE \E t \in Thread : t # "fsm" /\ LaunchEnables(t)
  <2>1. PICK t \in Thread : t # "fsm" /\ LaunchEnables(t)
    BY <1>14
  <2>2. CASE t = "macro"
    <3>1. byHand' = TRUE
      BY <2>1, <2>2 DEF LaunchEnables
    <3> QED
      BY <3>1 DEF BeamInv
  <2>3. CASE t = "loop"
    <3>1. run.state = "Running" /\ run' = run
      BY <2>1, <2>3 DEF LaunchInv, LaunchEnables
    <3>2. ~CfoSilent' /\ ~BeforeLaunch'
      BY <3>1 DEF CfoSilent, BeforeLaunch
    <3> QED
      BY <3>2 DEF BeamInv
  <2> QED
    BY <2>1, <2>2, <2>3 DEF Thread
<1>15. CASE LoopOrchestrates \/ CfoIssuesWindow \/ UNCHANGED vars \/ \E d \in DTC : PollBegins(d) \/ PollEnds(d)
  <2>1. cfo'.on = cfo.on
    BY <1>15 DEF LoopOrchestrates, CfoIssuesWindow, PollBegins, PollEnds, vars, boards, TypeOK
  <2> QED
    BY <1>11, <1>15, <2>1, RunStays
<1>16. CASE Transition
  BY <1>1, <1>2, <1>3, <1>4, <1>5, <1>6, <1>7, <1>8, <1>9, <1>16 DEF Transition
<1> QED
  BY <1>10, <1>12, <1>13, <1>14, <1>15, <1>16, Steps

-----------------------------------------------------------------------------
(* The order of the start steps                                             *)

LEMMA StepFrame ==
  ASSUME StepInv, EventBuilding' = EventBuilding, SystemMinReady' = SystemMinReady,
         run' = run, rocs' = rocs, artdaq' = artdaq
  PROVE  StepInv'
BY DEF StepInv

LEMMA NextStep == TypeOK /\ LaunchInv /\ StepInv /\ [Next]_vars => StepInv'
<1> SUFFICES ASSUME TypeOK, LaunchInv, StepInv, [Next]_vars, EventBuilding PROVE StepInv'
  BY ConfFixed DEF StepInv
<1>0. /\ EventBuilding' = EventBuilding /\ SystemMinReady' = SystemMinReady
      /\ run.step \in Nat /\ run.more \in BOOLEAN /\ run.todo \subseteq FrontEnd \cup {Artdaq}
      /\ SystemMinReady \in Nat /\ SystemMinReady >= 3
  BY ConfFixed, RunIs, LastStep DEF SystemMinReady
<1>1. CASE Start
  <2>1. run'.state = "Starting" /\ run'.step = 0 /\ run'.more = FALSE /\ run'.todo = FrontEnd \cup {Artdaq}
    BY <1>1, CallIs DEF Start
  <2>2. RealROCs \subseteq FrontEnd \cup {Artdaq} /\ Cfo \in FrontEnd
    BY Names DEF FrontEnd
  <2> QED
    BY <1>0, <2>1, <2>2 DEF StepInv
<1>2. CASE StepEnds
  <2>1. CASE run.more
    <3>1. /\ run.state = "Starting" /\ run.todo = {} /\ rocs' = rocs /\ artdaq' = artdaq
          /\ run'.step = run.step + 1 /\ run'.more = FALSE /\ run'.todo = FrontEnd \cup {Artdaq}
      BY <1>2, <2>1 DEF StepEnds, boards
    <3>2. run.step < SystemMinReady
      BY <1>0, <2>1, <3>1 DEF StepInv
    <3>3. (run.step >= 1 => artdaq) /\ RealROCs \subseteq rocs
      BY <1>0, <3>1 DEF StepInv
    <3>4. Cfo \in FrontEnd
      BY DEF FrontEnd
    <3> QED
      BY <1>0, <3>1, <3>2, <3>3, <3>4 DEF StepInv
  <2>2. CASE ~run.more
    <3>1. run'.state = "Running"
      BY <1>2, <2>2 DEF StepEnds, TypeOK
    <3> QED
      BY <3>1 DEF StepInv
  <2> QED
    BY <2>1, <2>2
<1>3. CASE ArtdaqStarts
  <2>1. /\ run.state = "Starting" /\ rocs' = rocs /\ artdaq' = (run.step >= 1)
        /\ Reply(Artdaq, run.step = 0)
    BY <1>3 DEF ArtdaqStarts, Called
  <2>2. /\ run'.state = run.state /\ run'.step = run.step /\ run'.todo = run.todo \ {Artdaq}
        /\ run'.more = (run.more \/ run.step = 0)
    BY <2>1, ReplyIs
  <2>3. RealROCs \ run'.todo = RealROCs \ run.todo /\ (Cfo \in run'.todo <=> Cfo \in run.todo)
    BY <2>2, Names
  <2>4. run.step >= 1 => artdaq'
    BY <2>1
  <2> QED
    BY <1>0, <2>1, <2>2, <2>3, <2>4 DEF StepInv
<1>4. CASE CfoWaits \/ CfoStarted
  <2>1. PICK b \in BOOLEAN : /\ run.state = "Starting" /\ rocs' = rocs /\ artdaq' = artdaq
                             /\ Reply(Cfo, b) /\ (b <=> run.step < SystemMinReady)
    <3>1. CASE CfoWaits
      BY <3>1 DEF CfoWaits, Called
    <3>2. CASE CfoStarted
      <4>1. run.state = "Starting" /\ rocs' = rocs /\ artdaq' = artdaq /\ Reply(Cfo, FALSE)
            /\ run.step >= SystemMinReady
        BY <3>2 DEF CfoStarted, Called
      <4>2. ~(run.step < SystemMinReady)
        BY <1>0, <4>1
      <4> QED
        BY <4>1, <4>2
    <3> QED
      BY <1>4, <3>1, <3>2
  <2>2. /\ run'.state = run.state /\ run'.step = run.step /\ run'.todo = run.todo \ {Cfo}
        /\ run'.more = (run.more \/ b)
    BY <2>1, ReplyIs
  <2>3. RealROCs \ run'.todo = RealROCs \ run.todo /\ (Artdaq \in run'.todo <=> Artdaq \in run.todo)
    BY <2>2, Names
  <2> QED
    BY <1>0, <2>1, <2>2, <2>3 DEF StepInv
<1>5. CASE LaunchEnables("fsm")
  <2>1. /\ run.state = "Starting" /\ run.step = SystemMinReady
        /\ run'.state = run.state /\ run'.step = run.step /\ run'.todo = run.todo \ {Cfo}
        /\ run'.more = run.more /\ rocs' = rocs /\ artdaq' = artdaq
    BY <1>5, FsmEnables
  <2> QED
    BY <1>0, <2>1 DEF StepInv
<1>6. ASSUME NEW d \in DTC, DtcStarts(d) PROVE StepInv'
  <2>1. /\ run.state = "Starting" /\ artdaq' = artdaq /\ Reply(d, run.step < SystemMinReady - 1)
        /\ rocs' = IF run.step = 0 /\ d \in RealROCs THEN rocs \cup {d} ELSE rocs
    BY <1>6 DEF DtcStarts, Called
  <2>2. (run.step < SystemMinReady - 1) \in BOOLEAN
    OBVIOUS
  <2>3. /\ run'.state = run.state /\ run'.step = run.step /\ run'.todo = run.todo \ {d}
        /\ run'.more = (run.more \/ run.step < SystemMinReady - 1)
    BY <2>1, <2>2, ReplyIs
  <2>4. (Artdaq \in run'.todo <=> Artdaq \in run.todo) /\ (Cfo \in run'.todo <=> Cfo \in run.todo)
    BY <2>3, Names
  <2>5. run.step = 0 => RealROCs \ run'.todo \subseteq rocs'
    BY <2>1, <2>3 DEF StepInv
  <2>6. run.step >= 1 => RealROCs \subseteq rocs'
    BY <1>0, <2>1 DEF StepInv
  <2>7. run.step = SystemMinReady => ~run'.more
    BY <1>0, <2>1, <2>3 DEF StepInv
  <2>8. run'.todo \subseteq FrontEnd \cup {Artdaq} /\ (run.more => run'.more)
    BY <1>0, <2>3
  <2> QED
    BY <1>0, <2>1, <2>3, <2>4, <2>5, <2>6, <2>7, <2>8 DEF StepInv
<1>7. ASSUME NEW d \in DTC, DtcPauses(d) \/ DtcResumes(d) \/ DtcStops(d) \/ DtcHalts(d) PROVE StepInv'
  <2>1. run.state # "Starting" /\ \E b \in BOOLEAN : Reply(d, b)
    BY <1>7 DEF DtcPauses, DtcResumes, DtcStops, DtcHalts, Called
  <2>2. run'.state = run.state
    BY <2>1, ReplyIs
  <2> QED
    BY <2>1, <2>2 DEF StepInv
<1>8. CASE FrontEndFails \/ Pause \/ Resume \/ Stop \/ CfoStops \/ TransitionEnds \/ Halt \/ CfoHalts \/ Halted
  <2>1. CASE FrontEndFails \/ TransitionEnds \/ Halted
    <3>0. run \in [state : {"Configured", "Starting", "Running", "Pausing", "Paused",
                          "Resuming", "Stopping", "Halting", "Halted", "Failed"},
                 step : Nat, todo : SUBSET (FrontEnd \cup {Artdaq}), more : BOOLEAN]
      BY DEF TypeOK
    <3>1. run'.state # "Starting"
      BY <2>1, <3>0 DEF FrontEndFails, TransitionEnds, Halted
    <3> QED
      BY <3>1 DEF StepInv
  <2>2. CASE Pause \/ Resume \/ Stop \/ Halt
    BY <2>2 DEF StepInv, Pause, Resume, Stop, Halt, Call
  <2>3. CASE CfoStops \/ CfoHalts
    <3>1. run.state # "Starting" /\ Reply(Cfo, FALSE)
      BY <2>3 DEF CfoStops, CfoHalts, Called
    <3>2. run'.state = run.state
      BY <3>1, ReplyIs
    <3> QED
      BY <3>1, <3>2 DEF StepInv
  <2> QED
    BY <1>8, <2>1, <2>2, <2>3
<1>9. CASE Transition
  <2>1. CASE CfoAutoLaunches
    BY <1>0, <2>1, StepFrame DEF CfoAutoLaunches
  <2>2. \A d \in DTC : ~DtcStartsAlone(d)
    BY DEF DtcStartsAlone
  <2> QED
    BY <1>1, <1>2, <1>3, <1>4, <1>6, <1>7, <1>8, <1>9, <2>1, <2>2 DEF Transition
<1>10. CASE UNCHANGED <<run, rocs, artdaq>>
  BY <1>0, <1>10, StepFrame
<1> QED
  BY <1>5, <1>9, <1>10, Steps, RunStays

-----------------------------------------------------------------------------
(* The windows of a run                                                     *)

LEMMA CountFrame ==
  ASSUME CountInv, EventBuilding' = EventBuilding, counted' = counted, sent' = sent,
         UNCHANGED <<artdaq, rocs>>, byHand => byHand',
         run'.state \in {"Running", "Pausing", "Paused", "Resuming"} =>
           run.state \in {"Running", "Pausing", "Paused", "Resuming"},
         EventBuilding /\ BeforeLaunch' => BeforeLaunch,
         EventBuilding => \A d \in RealROCs : Armed(d)' => Armed(d)
  PROVE  CountInv'
BY DEF CountInv

LEMMA TransitionCount == TypeOK /\ LaunchInv /\ StepInv /\ CountInv /\ Transition /\ EventBuilding
                         /\ EventBuilding' = EventBuilding /\ SystemMinReady' = SystemMinReady => CountInv'
<1> SUFFICES ASSUME TypeOK, LaunchInv, StepInv, CountInv, Transition, EventBuilding,
                    EventBuilding' = EventBuilding, SystemMinReady' = SystemMinReady
             PROVE  CountInv'
  OBVIOUS
<1>0. /\ run.step \in Nat /\ run.more \in BOOLEAN
      /\ SystemMinReady \in Nat /\ SystemMinReady >= 3
  BY RunIs, LastStep
<1>1. CASE Start
  <2>1. run'.state = "Starting" /\ run'.step = 0 /\ sent' = 0
    BY <1>1, CallIs DEF Start
  <2>2. \A d \in RealROCs : ~Armed(d)'
    BY <1>0, <2>1 DEF Armed
  <2> QED
    BY <2>1, <2>2 DEF CountInv
<1>2. CASE StepEnds
  <2>0. run.state = "Starting" /\ run.todo = {} /\ UNCHANGED <<counted, sent, artdaq, rocs, byHand>>
    BY <1>2 DEF StepEnds, boards
  <2>1. CASE run.more
    <3>1. /\ run'.step = run.step + 1 /\ run'.state = "Starting" /\ run'.todo = FrontEnd \cup {Artdaq}
      BY <1>2, <2>1 DEF StepEnds
    <3>2. run.step < SystemMinReady
      BY <1>0, <2>0, <2>1 DEF StepInv
    <3>3. BeforeLaunch
      BY <2>0, <3>2 DEF BeforeLaunch
    <3>4. \A d \in RealROCs : Armed(d)' => Armed(d)
      BY <1>0, <2>0, <3>1, Names DEF Armed, FrontEnd
    <3> QED
      BY <2>0, <3>1, <3>3, <3>4, CountFrame
  <2>2. CASE ~run.more
    <3>1. run'.state = "Running"
      BY <1>2, <2>2 DEF StepEnds, TypeOK
    <3>2. run.step = SystemMinReady
      BY <1>0, <2>0, <2>2 DEF StepInv
    <3>3. artdaq /\ RealROCs \subseteq rocs /\ \A d \in RealROCs : Armed(d)
      BY <1>0, <2>0, <3>2 DEF StepInv, Armed
    <3>4. ~BeforeLaunch'
      BY <3>1 DEF BeforeLaunch
    <3> QED
      BY <2>0, <3>1, <3>3, <3>4 DEF CountInv
  <2> QED
    BY <2>1, <2>2
<1>3. CASE ArtdaqStarts \/ CfoWaits \/ CfoStarted
  <2>1. run.state = "Starting" /\ UNCHANGED <<counted, sent, rocs, byHand>>
        /\ \E f \in {Cfo, Artdaq}, b \in BOOLEAN : Reply(f, b)
    BY <1>3 DEF ArtdaqStarts, CfoWaits, CfoStarted, Called, boards
  <2>2. run'.state = run.state /\ run'.step = run.step /\ run'.todo \subseteq run.todo
        /\ \A d \in DTC : d \in run'.todo <=> d \in run.todo
    BY <2>1, ReplyIs, Names
  <2>3. BeforeLaunch' => BeforeLaunch
    BY <2>2 DEF BeforeLaunch
  <2>4. \A d \in RealROCs : Armed(d)' => Armed(d)
    BY <2>2, Names DEF Armed
  <2> QED
    BY <2>1, <2>2, <2>3, <2>4 DEF CountInv
<1>4. CASE CfoAutoLaunches
  <2>1. UNCHANGED <<run, rocs, artdaq, counted, sent, byHand>>
    BY <1>4 DEF CfoAutoLaunches, boards
  <2>2. (BeforeLaunch' => BeforeLaunch) /\ \A d \in RealROCs : Armed(d)' => Armed(d)
    BY <2>1 DEF BeforeLaunch, Armed
  <2> QED
    BY <2>1, <2>2, CountFrame
<1>5. ASSUME NEW d \in DTC, DtcStarts(d) PROVE CountInv'
  <2>1. run.state = "Starting" /\ UNCHANGED <<sent, byHand>> /\ \E b \in BOOLEAN : Reply(d, b)
    BY <1>5, DtcReplies DEF DtcStarts, Called
  <2>2. run'.state = run.state /\ run'.step = run.step /\ run'.todo = run.todo \ {d}
    BY <2>1, ReplyIs
  <2>3. BeforeLaunch' => BeforeLaunch
    BY <2>2 DEF BeforeLaunch
  <2>4. \A e \in RealROCs : e # d => (Armed(e)' => Armed(e)) /\ counted'[e] = counted[e]
    <3>1. \A e \in RealROCs : e # d => (Armed(e)' => Armed(e))
      BY <2>2 DEF Armed
    <3>2. \A e \in RealROCs : e # d => counted'[e] = counted[e]
      BY <1>5 DEF DtcStarts, TypeOK
    <3> QED
      BY <3>1, <3>2
  <2>5. d \in RealROCs /\ Armed(d)' /\ ~byHand => counted'[d] = sent
    <3>1. CASE run.step = SystemMinReady - 1 /\ d \in RealROCs
      <4>1. counted'[d] = 0
        BY <1>5, <3>1 DEF DtcStarts, TypeOK
      <4>2. BeforeLaunch
        BY <1>0, <2>1, <3>1 DEF BeforeLaunch
      <4> QED
        BY <4>1, <4>2 DEF CountInv
    <3>2. CASE run.step = SystemMinReady /\ d \in RealROCs
      <4>1. counted' = counted /\ Armed(d)
        BY <1>0, <1>5, <2>1, <3>2 DEF DtcStarts, Armed
      <4> QED
        BY <4>1, <3>2 DEF CountInv
    <3>3. CASE run.step # SystemMinReady - 1 /\ run.step # SystemMinReady
      BY <2>1, <2>2, <3>3 DEF Armed
    <3> QED
      BY <3>1, <3>2, <3>3
  <2> QED
    BY <2>1, <2>2, <2>3, <2>4, <2>5 DEF CountInv
<1>6. ASSUME NEW d \in DTC, DtcPauses(d) \/ DtcResumes(d) \/ DtcStops(d) \/ DtcHalts(d) PROVE CountInv'
  <2>1. run.state # "Starting" /\ UNCHANGED <<rocs, artdaq, counted, sent, byHand>> /\ \E b \in BOOLEAN : Reply(d, b)
    BY <1>6 DEF DtcPauses, DtcResumes, DtcStops, DtcHalts, Called
  <2>2. run'.state = run.state
    BY <2>1, ReplyIs
  <2>3. ~BeforeLaunch' /\ \A e \in RealROCs : Armed(e)' => Armed(e)
    BY <2>1, <2>2 DEF BeforeLaunch, Armed
  <2> QED
    BY <2>1, <2>2, <2>3, CountFrame
<1>7. CASE Pause \/ Resume
  <2>1. /\ run.state \in {"Running", "Paused"} /\ run'.state \in {"Pausing", "Resuming"}
        /\ UNCHANGED <<rocs, artdaq, counted, sent, byHand>>
    BY <1>7 DEF Pause, Resume, Call, boards
  <2>2. ~BeforeLaunch' /\ \A e \in RealROCs : Armed(e)
    BY <2>1 DEF BeforeLaunch, Armed
  <2> QED
    BY <2>1, <2>2, CountFrame
<1>8. CASE FrontEndFails \/ Stop \/ CfoStops \/ Halt \/ CfoHalts \/ Halted
  <2>1. run'.state \in {"Failed", "Stopping", "Halting", "Halted"}
    <3>1. CASE FrontEndFails \/ Halted
      BY <3>1 DEF FrontEndFails, Halted, TypeOK
    <3>2. CASE Stop \/ Halt
      BY <3>2 DEF Stop, Halt, Call
    <3>3. CASE CfoStops \/ CfoHalts
      <4>1. run.state \in {"Stopping", "Halting"} /\ Reply(Cfo, FALSE)
        BY <3>3 DEF CfoStops, CfoHalts, Called
      <4> QED
        BY <4>1, ReplyIs
    <3> QED
      BY <1>8, <3>1, <3>2, <3>3
  <2>2. ~BeforeLaunch' /\ \A e \in RealROCs : ~Armed(e)'
    BY <2>1 DEF BeforeLaunch, Armed
  <2> QED
    BY <2>1, <2>2 DEF CountInv
<1>9. CASE TransitionEnds
  <2>1. run.state \in {"Pausing", "Resuming", "Stopping"} /\ UNCHANGED <<rocs, counted, sent, byHand>>
        /\ artdaq' = (artdaq /\ run.state # "Stopping")
    BY <1>9 DEF TransitionEnds, boards
  <2>2. /\ run.state = "Stopping" => run'.state = "Configured"
        /\ run.state # "Stopping" => run'.state \in {"Paused", "Running"}
    BY <1>9 DEF TransitionEnds, TypeOK
  <2>3. ~BeforeLaunch' /\ \A e \in RealROCs : Armed(e)' => Armed(e)
    BY <2>1, <2>2 DEF BeforeLaunch, Armed
  <2> QED
    BY <2>1, <2>2, <2>3 DEF CountInv
<1> QED
  BY <1>1, <1>2, <1>3, <1>4, <1>5, <1>6, <1>7, <1>8, <1>9 DEF Transition, DtcStartsAlone

LEMMA NextCount == TypeOK /\ LaunchInv /\ BeamInv /\ StepInv /\ CountInv /\ [Next]_vars => CountInv'
<1> SUFFICES ASSUME TypeOK, LaunchInv, BeamInv, StepInv, CountInv, [Next]_vars, EventBuilding PROVE CountInv'
  BY ConfFixed DEF CountInv
<1>0. EventBuilding' = EventBuilding /\ SystemMinReady' = SystemMinReady
  <2>1. EventBuilding' = EventBuilding
    BY ConfFixed DEF EventBuilding
  <2>2. SystemMinReady' = SystemMinReady
    BY DEF SystemMinReady
  <2> QED
    BY <2>1, <2>2
<1>1. CASE Transition
  BY <1>0, <1>1, TransitionCount
<1>2. CASE LaunchEnables("fsm")
  <2>1. /\ run.state = "Starting" /\ run.step = SystemMinReady
        /\ run'.state = run.state /\ run'.step = run.step
        /\ run'.todo = run.todo \ {Cfo} /\ UNCHANGED <<rocs, artdaq, counted, sent, byHand>>
    BY <1>2, FsmEnables
  <2>2. (BeforeLaunch' => BeforeLaunch) /\ \A d \in RealROCs : Armed(d)
    BY <2>1 DEF BeforeLaunch, Armed
  <2> QED
    BY <1>0, <2>1, <2>2, CountFrame
<1>3. CASE UNCHANGED <<run, rocs, artdaq, counted, sent>> /\ (byHand => byHand')
  <2>1. BeforeLaunch' = BeforeLaunch /\ \A d \in RealROCs : Armed(d)' = Armed(d)
    BY <1>0, <1>3 DEF BeforeLaunch, Armed
  <2> QED
    BY <1>0, <1>3, <2>1, CountFrame
<1>4. CASE CfoIssuesWindow
  <2>1. /\ cfo.on /\ sent' = sent + 1 /\ counted' = [d \in RealROCs |-> counted[d] + 1]
        /\ UNCHANGED <<run, rocs, artdaq, byHand>>
    BY <1>4 DEF CfoIssuesWindow
  <2>2. BeforeLaunch' = BeforeLaunch /\ \A d \in RealROCs : Armed(d)' = Armed(d)
    BY <1>0, <2>1 DEF BeforeLaunch, Armed
  <2>3. ~byHand => ~BeforeLaunch
    BY <2>1 DEF BeamInv
  <2>4. \A d \in RealROCs : counted[d] = sent => counted'[d] = sent'
    BY <2>1
  <2> QED
    BY <1>0, <2>1, <2>2, <2>3, <2>4 DEF CountInv
<1>5. CASE Operator
  <2>1. CASE \E m \in Flash : FlashEnds(m)
    <3>1. /\ UNCHANGED <<run, rocs, artdaq, sent>> /\ ((counted' = counted /\ byHand' = byHand) \/ byHand' = TRUE)
      BY <2>1, <1>5, RunStays DEF FlashEnds
    <3>2. BeforeLaunch' = BeforeLaunch /\ \A d \in RealROCs : Armed(d)' = Armed(d)
      BY <1>0, <3>1 DEF BeforeLaunch, Armed
    <3> QED
      BY <1>0, <3>1, <3>2 DEF CountInv
  <2>2. CASE ~ \E m \in Flash : FlashEnds(m)
    <3>1. UNCHANGED <<counted, sent>>
      BY <1>5, <2>2 DEF Operator, MacroFixedWidth, SuperOrchestrationStart, MacroSuperCycle, MacroOrchestrates,
         SuperOrchestrationEnd, ResetRunplan, LaunchRunplan, Macro, FlashBegins, FlashPauses, FlashWrites,
         boards
    <3> QED
      BY <1>3, <1>5, <3>1, RunStays
  <2> QED
    BY <2>1, <2>2
<1>6. CASE \/ LoopOrchestrates \/ UNCHANGED vars
           \/ \E d \in DTC : PollBegins(d) \/ PollEnds(d)
           \/ \E t \in Thread : LaunchHalts(t) \/ LaunchSets(t) \/ AddsToNext(t) \/ Orchestrates(t)
           \/ \E t \in Thread : t # "fsm" /\ LaunchEnables(t)
  <2>1. UNCHANGED <<counted, sent>>
    BY <1>6 DEF LoopOrchestrates, vars, PollBegins, PollEnds, LaunchHalts, LaunchSets, AddsToNext, Orchestrates,
       LaunchEnables, boards
  <2> QED
    BY <1>3, <1>6, <2>1, RunStays
<1> QED
  BY <1>1, <1>2, <1>4, <1>5, <1>6, Steps

-----------------------------------------------------------------------------
(* The theorems                                                             *)

LEMMA InitComplete == Init => CompleteInv
<1> SUFFICES ASSUME Init PROVE CompleteInv
  OBVIOUS
<1>1. \A t \in {"fsm", "loop"} : launch[t].at = "idle"
  BY DEF Init, Idle, Thread
<1>2. run.state = "Configured" /\ ~cfo.on /\ emulating = {}
  BY DEF Init
<1>3. ~BeforeLaunch /\ \A d \in RealROCs : ~Armed(d)
  BY <1>2 DEF BeforeLaunch, Armed
<1> QED
  BY <1>1, <1>2, <1>3 DEF CompleteInv, LaunchInv, BeamInv, EmulationInv, StepInv, CountInv

LEMMA AlwaysComplete == Spec => []CompleteInv
<1>1. TypeOK /\ CompleteInv /\ [Next]_vars => CompleteInv'
  BY NextLaunch, NextBeam, NextEmulation, NextStep, NextCount DEF CompleteInv
<1> QED
  BY <1>1, InitComplete, TypeCorrect, PTL DEF Spec

\* The start steps lose no window (CFO start, DTC start): once the CFO has issued one, artdaq
\* and every real ROC run, and no DTC with real ROCs has reset its counters since, for any
\* number of DTCs that are ready after any numbers of steps.
THEOREM RunsAreComplete == Spec => []RunIsComplete
<1>1. TypeOK /\ CompleteInv => RunIsComplete
  <2> SUFFICES ASSUME TypeOK, CompleteInv, EventBuilding, ~byHand, sent > 0,
                      run.state \in {"Starting", "Running", "Pausing", "Paused", "Resuming"}
               PROVE  artdaq /\ RealROCs \subseteq rocs /\ \A d \in RealROCs : counted[d] = sent
    BY DEF RunIsComplete
  <2>1. CASE run.state = "Starting"
    <3>1. run.step = SystemMinReady
      BY <2>1, RunIs, LastStep DEF CompleteInv, CountInv, StepInv, BeforeLaunch
    <3> QED
      BY <2>1, <3>1, LastStep DEF CompleteInv, CountInv, StepInv, Armed
  <2>2. CASE run.state # "Starting"
    BY <2>2 DEF CompleteInv, CountInv, Armed
  <2> QED
    BY <2>1, <2>2
<1> QED
  BY <1>1, AlwaysComplete, TypeCorrect, PTL

\* When a stop or a halt is over nothing makes windows any more (CFO stop and halt, DTC stop,
\* halt and pause), whatever was launched before, by whom, and in whatever order the front
\* ends were called.
THEOREM StopsAreQuiet == Spec => []StoppedIsQuiet
<1>1. CompleteInv => StoppedIsQuiet
  BY DEF CompleteInv, StoppedIsQuiet, BeamInv, EmulationInv, CfoSilent
<1> QED
  BY <1>1, AlwaysComplete, PTL

=============================================================================
