--------------------------- MODULE RunTransitions ---------------------------
(***************************************************************************)
(* A run, as the CFO and DTC front ends see it: the steps of the start     *)
(* transition that are ordered across subsystems, stop, pause, resume and  *)
(* halt, the work loop of the CFO with its Super Orchestration, the CFO    *)
(* macros that launch a run plan by hand, and the slow controls of a DTC,  *)
(* which a start pauses for the run and Program ROCs Safe for a flash.     *)
(*                                                                         *)
(* A launch of a run plan is a sequence of register accesses without a     *)
(* lock, so the state machine, the work loop and an operator may be in the *)
(* middle of one each.                                                     *)
(***************************************************************************)
EXTENDS Integers, FiniteSets

CONSTANTS
  DTC,        \* the DTC front ends
  RealROCs,   \* of those, the ones with has_real_roc_flow_
  MinReady,   \* getMinReadyForEventGenerationStartIteration() of each DTC
  Configurations, \* operating mode, AutoFixedWidthRunPlanEnable and
              \* NumberOfCAPTANPulses the system may be configured with
  Counts,     \* numbers of event windows an operator asks for
  Cycles,     \* numbers of super cycles an operator asks for
  PerCycle,   \* windows of a super cycle, 245000 in the code
  Flash,      \* runs of Program ROCs Safe
  DtcOf,      \* the DTC of such a run
  MaxRuns,    \* bound on the starts of a behaviour
  MaxWindows, \* bound on the windows the CFO issues in a run
  MaxMacros   \* bound on the operator's macros in a behaviour

ASSUME RunAssumption ==
  /\ RealROCs \subseteq DTC /\ {"CFO", "artdaq"} \cap DTC = {}
  /\ MinReady \in [DTC -> Nat] /\ \A d \in DTC : MinReady[d] >= 3
  /\ \E d \in DTC : \A e \in DTC : MinReady[e] <= MinReady[d]
  /\ Configurations \subseteq [mode : {"HardwareDev", "EventBuilding"},
                               auto : BOOLEAN, pulses : Nat]
  /\ Counts \subseteq Nat /\ Cycles \subseteq Nat /\ PerCycle \in Nat \ {0, 1}
  /\ DtcOf \in [Flash -> DTC]
  /\ {MaxRuns, MaxWindows, MaxMacros} \subseteq Nat

VARIABLES
  conf,     \* the configuration of the system, fixed while it runs
  run,      \* the state machine: state, start step, front ends to call, replies
  rocs,     \* DTCs that have started their ROCs in this run
  artdaq,   \* artdaq has started
  cfo,      \* the CFO board: beam-off mode on, run plan memory, windows left of it
  next,     \* next_starting_event_window_tag_
  super,    \* theSuperParameters_
  launch,   \* the launch each thread of the CFO front end is in the middle of
  counted,  \* windows each DTC with real ROCs has counted since its last SoftReset
  sent,     \* windows the CFO has issued in this run
  emulating,\* DTCs whose CFO emulator is on
  slow,     \* slowControlsWorkLoopShouldRun_
  cycle,    \* DTCs whose slow controls are in a polling cycle
  flash,    \* the runs of Program ROCs Safe
  byHand,   \* an operator has interfered since the CFO was last stopped
  count     \* bookkeeping of the bounds: runs and macros

vars == <<conf, run, rocs, artdaq, cfo, next, super, launch, counted, sent,
          emulating, slow, cycle, flash, byHand, count>>

boards   == <<cfo, counted, sent, emulating>>
controls == <<slow, cycle, flash>>
plans    == <<next, super, launch>>

Cfo == "CFO"
Artdaq == "artdaq"
FrontEnd == DTC \cup {Cfo}
Thread == {"fsm", "loop", "macro"}

EventBuilding == conf.mode = "EventBuilding"

---------------------------------------------------------------------------
(* The start steps *)

\* getSystemMinReadyForEventGenerationStartIteration(): the last front end to
\* be ready decides; the CFO asks for 2.
SystemMinReady ==
  LET Asked == {MinReady[d] : d \in DTC} \cup {2}
  IN  CHOOSE n \in Asked : \A m \in Asked : m <= n

Idle == [at |-> "idle"]
\* A run plan is the number of its windows, 0 without an end; the tags it gives
\* them are left out.
NoPlan == -1
Fresh == -1      \* the plan starts over at its first command
Endless == -2

Init ==
  /\ conf \in Configurations
  /\ run = [state |-> "Configured", step |-> 0, todo |-> {}, more |-> FALSE]
  /\ rocs = {} /\ artdaq = FALSE
  /\ cfo = [on |-> FALSE, plan |-> NoPlan, left |-> Fresh]
  /\ next = 0
  /\ super = [go |-> FALSE, windows |-> 2]
  /\ launch = [t \in Thread |-> Idle]
  /\ counted = [d \in RealROCs |-> 0] /\ sent = 0
  /\ emulating = {}
  /\ slow = [d \in DTC |-> TRUE] /\ cycle = {}
  /\ flash = [m \in Flash |-> [at |-> "idle"]]
  /\ byHand = FALSE
  /\ count = [runs |-> 0, macros |-> 0]

Called(f, s) == run.state = s /\ f \in run.todo

\* f has been called: indicateSubsystemSyncStepWork() asks for another step.
Reply(f, again) ==
  run' = [run EXCEPT !.todo = @ \ {f}, !.more = @ \/ again]

Call(s, who) == run' = [state |-> s, step |-> 0, todo |-> who, more |-> FALSE]

Start ==
  /\ run.state = "Configured" /\ count.runs < MaxRuns
  /\ Call("Starting", IF EventBuilding THEN FrontEnd \cup {Artdaq} ELSE FrontEnd)
  /\ count' = [count EXCEPT !.runs = @ + 1]
  /\ rocs' = {} /\ artdaq' = FALSE
  /\ sent' = 0
  /\ UNCHANGED <<conf, cfo, plans, counted, emulating, controls, byHand>>

\* Every front end has answered: the next step if one asked for it.
StepEnds ==
  /\ run.state = "Starting" /\ run.todo = {}
  /\ run' = IF run.more
            THEN [state |-> "Starting", step |-> run.step + 1, more |-> FALSE,
                  todo |-> FrontEnd \cup {Artdaq}]
            ELSE [run EXCEPT !.state = "Running"]
  /\ UNCHANGED <<conf, rocs, artdaq, boards, plans, controls, byHand, count>>

\* artdaq is ready at the end of step 1.
ArtdaqStarts ==
  /\ Called(Artdaq, "Starting")
  /\ artdaq' = (run.step >= 1)
  /\ Reply(Artdaq, run.step = 0)
  /\ UNCHANGED <<conf, rocs, boards, plans, controls, byHand, count>>

PausesSlowControls(d) ==
  /\ slow' = [slow EXCEPT ![d] = FALSE]
  /\ flash' = [m \in Flash |-> IF DtcOf[m] = d /\ flash[m].at # "idle"
                               THEN [flash[m] EXCEPT !.alone = FALSE] ELSE flash[m]]
  /\ UNCHANGED cycle

\* Mutant: the last SoftReset one step late, in the step of the launch.
DtcStartsLate(d) ==
  /\ Called(d, "Starting") /\ EventBuilding
  /\ PausesSlowControls(d)
  /\ LET first == run.step = 0 /\ d \in RealROCs
         final == run.step = SystemMinReady /\ d \in RealROCs
     IN  /\ counted' = IF first \/ final THEN [counted EXCEPT ![d] = 0] ELSE counted
         /\ rocs' = IF first THEN rocs \cup {d} ELSE rocs
  /\ Reply(d, run.step < SystemMinReady - 1)
  /\ UNCHANGED <<conf, artdaq, cfo, sent, emulating, plans, byHand, count>>

\* start() of a DTC in the event building modes: SoftReset and the ROCs' start
\* at step 0, the last SoftReset after artdaq, one step before the first window.
DtcStarts(d) ==
  /\ Called(d, "Starting") /\ EventBuilding
  /\ PausesSlowControls(d)
  /\ LET first == run.step = 0 /\ d \in RealROCs
         final == run.step = SystemMinReady - 1 /\ d \in RealROCs
     IN  /\ counted' = IF first \/ final THEN [counted EXCEPT ![d] = 0] ELSE counted
         /\ rocs' = IF first THEN rocs \cup {d} ELSE rocs
  /\ Reply(d, run.step < SystemMinReady - 1)
  /\ UNCHANGED <<conf, artdaq, cfo, sent, emulating, plans, byHand, count>>

\* ... and in the hardware development mode, where the DTC is its own CFO: no
\* emulation when NumberOfCAPTANPulses is 0.
DtcStartsAlone(d) ==
  /\ Called(d, "Starting") /\ ~EventBuilding
  /\ PausesSlowControls(d)
  /\ emulating' = IF conf.pulses # 0 THEN emulating \cup {d} ELSE emulating
  /\ counted' = [x \in RealROCs |-> IF x = d THEN 0 ELSE counted[x]]
  /\ Reply(d, FALSE)
  /\ UNCHANGED <<conf, rocs, artdaq, cfo, sent, plans, byHand, count>>

SoftReset == cfo' = [cfo EXCEPT !.left = Fresh]

\* start() of the CFO until it may launch.  The tag starts over with the run.
CfoWaits ==
  /\ Called(Cfo, "Starting") /\ EventBuilding /\ run.step < SystemMinReady
  /\ next' = IF run.step = 0 THEN 0 ELSE next
  /\ IF run.step = SystemMinReady - 1 THEN SoftReset ELSE UNCHANGED cfo
  /\ Reply(Cfo, TRUE)
  /\ UNCHANGED <<conf, rocs, artdaq, super, launch, counted, sent, emulating,
                 controls, byHand, count>>

\* A thread begins a launch: a number of windows (0: no end), and whether it
\* moves the next tag on at the end.
Begins(t, windows, adds) ==
  launch' = [launch EXCEPT ![t] = [at |-> "halt", windows |-> windows, adds |-> adds]]

\* At the step all are ready for, AutoFixedWidthRunPlanEnable launches a plan
\* without an end; the reply is given when the launch is over.
CfoAutoLaunches ==
  /\ Called(Cfo, "Starting") /\ EventBuilding /\ run.step = SystemMinReady
  /\ conf.auto /\ launch["fsm"] = Idle
  /\ Begins("fsm", 0, FALSE)
  /\ UNCHANGED <<conf, run, rocs, artdaq, boards, next, super, controls, byHand, count>>

CfoStarted ==
  /\ Called(Cfo, "Starting")
  /\ ~EventBuilding \/ (run.step >= SystemMinReady /\ ~conf.auto)
  /\ Reply(Cfo, FALSE)
  /\ UNCHANGED <<conf, rocs, artdaq, boards, plans, controls, byHand, count>>

\* testAndUpdateTimeAlive() or testRTFClockInEventBuildingMode() throws.
FrontEndFails ==
  /\ run.state \in {"Starting", "Stopping"} /\ run.todo \cap FrontEnd # {}
  /\ launch["fsm"] = Idle
  /\ run' = [run EXCEPT !.state = "Failed", !.todo = {}]
  /\ UNCHANGED <<conf, rocs, artdaq, boards, plans, controls, byHand, count>>

---------------------------------------------------------------------------
(* CompileSetAndLaunchTemplateFixedWidthRunPlan *)

CanHalt == cfo' = [cfo EXCEPT !.on = FALSE, !.left = Fresh]

\* halt(), the beam modes off, SoftReset.
LaunchHalts(t) ==
  /\ launch[t].at = "halt"
  /\ CanHalt
  /\ launch' = [launch EXCEPT ![t].at = "set"]
  /\ UNCHANGED <<conf, run, rocs, artdaq, next, super, counted, sent, emulating,
                 controls, byHand, count>>

\* The text of the plan, the compiler, SetRunplan.  One window is compiled to
\* the endless loop of null windows.
LaunchSets(t) ==
  /\ launch[t].at = "set"
  /\ cfo' = [cfo EXCEPT !.plan = IF launch[t].windows > 1 THEN launch[t].windows ELSE 0]
  /\ launch' = [launch EXCEPT ![t].at = "enable"]
  /\ UNCHANGED <<conf, run, rocs, artdaq, next, super, counted, sent, emulating,
                 controls, byHand, count>>

\* Links and beam-off mode on.  The Super Orchestration then moves the tag on.
LaunchEnables(t) ==
  /\ launch[t].at = "enable"
  /\ cfo' = [cfo EXCEPT !.on = TRUE]
  /\ launch' = [launch EXCEPT ![t] =
       IF launch[t].adds THEN [launch[t] EXCEPT !.at = "add"] ELSE Idle]
  /\ IF t = "fsm" THEN Reply(Cfo, FALSE) ELSE UNCHANGED run
  /\ byHand' = (byHand \/ t = "macro")
  /\ UNCHANGED <<conf, rocs, artdaq, next, super, counted, sent, emulating,
                 controls, count>>

AddsToNext(t) ==
  /\ launch[t].at = "add"
  /\ next' = next + super.windows
  /\ launch' = [launch EXCEPT ![t] = Idle]
  /\ UNCHANGED <<conf, run, rocs, artdaq, super, boards, controls, byHand, count>>

LaunchStep(t) == LaunchHalts(t) \/ LaunchSets(t) \/ LaunchEnables(t) \/ AddsToNext(t)

\* The CFO executes its plan; every DTC counts the window.
CfoIssuesWindow ==
  /\ cfo.on /\ cfo.plan # NoPlan /\ cfo.left # 0 /\ sent < MaxWindows
  /\ cfo' = [cfo EXCEPT !.left = IF @ = Fresh THEN (IF cfo.plan = 0 THEN Endless ELSE cfo.plan - 1)
                                   ELSE IF @ = Endless THEN Endless ELSE @ - 1]
  /\ sent' = sent + 1
  /\ counted' = [d \in RealROCs |-> counted[d] + 1]
  /\ UNCHANGED <<conf, run, rocs, artdaq, plans, emulating, controls, byHand, count>>

---------------------------------------------------------------------------
(* running() of the CFO: the Super Orchestration, once per run *)

LoopOrchestrates ==
  /\ run.state = "Running" /\ EventBuilding
  /\ super.go /\ next = 0 /\ launch["loop"] = Idle
  /\ launch' = [launch EXCEPT !["loop"] = [at |-> "prepare"]]
  /\ UNCHANGED <<conf, run, rocs, artdaq, boards, next, super, controls, byHand, count>>

\* The ROCs have been reset and written; the parameters are read at the call.
Orchestrates(t) ==
  /\ launch[t].at = "prepare"
  /\ Begins(t, super.windows, TRUE)
  /\ UNCHANGED <<conf, run, rocs, artdaq, boards, next, super, controls, byHand, count>>

---------------------------------------------------------------------------
(* Macros of the operator on the CFO, one at a time and in any state *)

Macro ==
  /\ count.macros < MaxMacros /\ launch["macro"] = Idle
  /\ count' = [count EXCEPT !.macros = @ + 1]
  /\ UNCHANGED <<conf, run, rocs, artdaq, counted, sent, emulating, controls>>

\* The fixed-width plan with the default start tag: next moves on at once.
MacroFixedWidth(n) ==
  /\ Macro
  /\ Begins("macro", n, FALSE)
  /\ next' = next + n
  /\ UNCHANGED <<super, cfo, byHand>>

\* The super-cycle plan with the default start tag.  next moves on by the square of the
\* number of cycles, not by the windows they have.
MacroSuperCycle(n) ==
  /\ Macro
  /\ Begins("macro", n * PerCycle, FALSE)
  /\ next' = next + n * n
  /\ UNCHANGED <<super, cfo, byHand>>

MacroOrchestrates ==
  /\ Macro
  /\ launch' = [launch EXCEPT !["macro"] = [at |-> "prepare"]]
  /\ UNCHANGED <<next, super, cfo, byHand>>

SuperOrchestrationStart(n) ==
  /\ Macro
  /\ super' = [go |-> TRUE, windows |-> n]
  /\ UNCHANGED <<next, launch, cfo, byHand>>

SuperOrchestrationEnd ==
  /\ Macro
  /\ super' = [super EXCEPT !.go = FALSE]
  /\ UNCHANGED <<next, launch, cfo, byHand>>

ResetRunplan ==
  /\ Macro
  /\ CanHalt
  /\ UNCHANGED <<plans, byHand>>

\* The plan in the memory from its start, whatever tags it has.
LaunchRunplan ==
  /\ Macro
  /\ cfo' = [cfo EXCEPT !.on = TRUE, !.left = Fresh]
  /\ byHand' = TRUE
  /\ UNCHANGED plans

---------------------------------------------------------------------------
(* Pause, resume, stop and halt *)

\* Only the front ends' own states are told apart; the CFO does nothing.
Pause ==
  /\ run.state = "Running" /\ launch["loop"] = Idle /\ Call("Pausing", DTC)
  /\ UNCHANGED <<conf, rocs, artdaq, boards, plans, controls, byHand, count>>

DtcPauses(d) ==
  /\ Called(d, "Pausing") /\ Reply(d, FALSE)
  /\ emulating' = IF EventBuilding THEN emulating ELSE emulating \ {d}
  /\ UNCHANGED <<conf, rocs, artdaq, cfo, counted, sent, plans, controls, byHand, count>>

Resume ==
  /\ run.state = "Paused" /\ Call("Resuming", DTC)
  /\ UNCHANGED <<conf, rocs, artdaq, boards, plans, controls, byHand, count>>

\* The emulation again, from tag 0, and without an end when the pulses are 0.
DtcResumes(d) ==
  /\ Called(d, "Resuming") /\ Reply(d, FALSE)
  /\ emulating' = IF EventBuilding THEN emulating ELSE emulating \cup {d}
  /\ UNCHANGED <<conf, rocs, artdaq, cfo, counted, sent, plans, controls, byHand, count>>

\* The work loop is stopped before the front ends are.
Stop ==
  /\ run.state \in {"Running", "Paused"} /\ launch["loop"] = Idle
  /\ Call("Stopping", FrontEnd)
  /\ UNCHANGED <<conf, rocs, artdaq, boards, plans, controls, byHand, count>>

\* Mutant: the beam-off mode stays on.
CfoStopsBeamOnOnly ==
  /\ Called(Cfo, "Stopping") /\ Reply(Cfo, FALSE)
  /\ cfo' = IF EventBuilding THEN [cfo EXCEPT !.left = Fresh] ELSE cfo
  /\ byHand' = IF EventBuilding THEN launch["macro"] # Idle ELSE byHand
  /\ UNCHANGED <<conf, rocs, artdaq, counted, sent, emulating, plans, controls, count>>

\* halt() and the beam modes off, after a launch with enable = false that does
\* the same; nothing in the hardware development mode.
CfoStops ==
  /\ Called(Cfo, "Stopping") /\ Reply(Cfo, FALSE)
  /\ cfo' = IF EventBuilding THEN [cfo EXCEPT !.on = FALSE] ELSE cfo
  /\ byHand' = IF EventBuilding THEN launch["macro"] # Idle ELSE byHand
  /\ UNCHANGED <<conf, rocs, artdaq, counted, sent, emulating, plans, controls, count>>

DtcStops(d) ==
  /\ Called(d, "Stopping") /\ Reply(d, FALSE)
  /\ slow' = [slow EXCEPT ![d] = TRUE]
  /\ flash' = [m \in Flash |-> IF DtcOf[m] = d /\ flash[m].at # "idle"
                               THEN [flash[m] EXCEPT !.alone = FALSE] ELSE flash[m]]
  /\ emulating' = IF EventBuilding THEN emulating ELSE emulating \ {d}
  /\ UNCHANGED <<conf, rocs, artdaq, cfo, counted, sent, plans, cycle, byHand, count>>

TransitionEnds ==
  /\ run.state \in {"Pausing", "Resuming", "Stopping"} /\ run.todo = {}
  /\ run' = [run EXCEPT !.state = CASE @ = "Pausing" -> "Paused"
                                    [] @ = "Resuming" -> "Running"
                                    [] @ = "Stopping" -> "Configured"]
  /\ artdaq' = (artdaq /\ run.state # "Stopping")
  /\ UNCHANGED <<conf, rocs, boards, plans, controls, byHand, count>>

Halt ==
  /\ run.state \in {"Configured", "Running", "Paused", "Failed"}
  /\ launch["loop"] = Idle
  /\ Call("Halting", FrontEnd)
  /\ UNCHANGED <<conf, rocs, artdaq, boards, plans, controls, byHand, count>>

CfoHalts ==
  /\ Called(Cfo, "Halting") /\ Reply(Cfo, FALSE)
  /\ cfo' = IF EventBuilding THEN [cfo EXCEPT !.on = FALSE] ELSE cfo
  /\ byHand' = IF EventBuilding THEN launch["macro"] # Idle ELSE byHand
  /\ UNCHANGED <<conf, rocs, artdaq, counted, sent, emulating, plans, controls, count>>

DtcHalts(d) ==
  /\ Called(d, "Halting") /\ Reply(d, FALSE)
  /\ emulating' = IF EventBuilding THEN emulating ELSE emulating \ {d}
  /\ UNCHANGED <<conf, rocs, artdaq, cfo, counted, sent, plans, controls, byHand, count>>

Halted ==
  /\ run.state = "Halting" /\ run.todo = {}
  /\ run' = [run EXCEPT !.state = "Halted"]
  /\ UNCHANGED <<conf, rocs, artdaq, boards, plans, controls, byHand, count>>

---------------------------------------------------------------------------
(* Slow controls and Program ROCs Safe *)

\* A polling cycle of a DTC that is flashed.
PollBegins(d) ==
  /\ \E m \in Flash : DtcOf[m] = d
  /\ slow[d] /\ d \notin cycle
  /\ cycle' = cycle \cup {d}
  /\ UNCHANGED <<conf, run, rocs, artdaq, boards, plans, slow, flash, byHand, count>>

PollEnds(d) ==
  /\ d \in cycle
  /\ cycle' = cycle \ {d}
  /\ flash' = [m \in Flash |-> IF DtcOf[m] = d /\ flash[m].at # "idle"
                               THEN [flash[m] EXCEPT !.behind = FALSE] ELSE flash[m]]
  /\ UNCHANGED <<conf, run, rocs, artdaq, boards, plans, slow, byHand, count>>

Flashing(d) == {m \in Flash : DtcOf[m] = d /\ flash[m].at \in {"pause", "quiet", "flash"}}

\* Another pause or resume of the same slow controls while m holds its own.
Disturbed(d, m) ==
  [n \in Flash |-> IF n # m /\ n \in Flashing(d)
                   THEN [flash[n] EXCEPT !.alone = FALSE] ELSE flash[n]]

\* The constructor of SlowControlsPause: it reads the flag ...
FlashBegins(m) ==
  LET d == DtcOf[m] IN
  /\ flash[m].at = "idle" /\ count.macros < MaxMacros
  /\ count' = [count EXCEPT !.macros = @ + 1]
  /\ flash' = [flash EXCEPT ![m] = [at |-> "pause", wasRunning |-> slow[d],
                                   alone |-> Flashing(d) = {}, behind |-> FALSE]]
  /\ UNCHANGED <<conf, run, rocs, artdaq, boards, plans, slow, cycle, byHand>>

\* Mutant: the flag is saved and not cleared.
FlashPausesNothing(m) ==
  LET d == DtcOf[m] IN
  /\ flash[m].at = "pause"
  /\ flash' = [Disturbed(d, m) EXCEPT ![m].at = "quiet", ![m].behind = d \in cycle]
  /\ UNCHANGED <<conf, run, rocs, artdaq, boards, plans, slow, cycle, byHand, count>>

\* ... and then clears it.
FlashPauses(m) ==
  LET d == DtcOf[m] IN
  /\ flash[m].at = "pause"
  /\ slow' = [slow EXCEPT ![d] = FALSE]
  /\ flash' = [Disturbed(d, m) EXCEPT ![m].at = "quiet", ![m].behind = d \in cycle]
  /\ UNCHANGED <<conf, run, rocs, artdaq, boards, plans, cycle, byHand, count>>

\* The sleep before the first command is over, whether the cycle is or not.
FlashWrites(m) ==
  /\ flash[m].at = "quiet"
  /\ flash' = [flash EXCEPT ![m].at = "flash"]
  /\ UNCHANGED <<conf, run, rocs, artdaq, boards, plans, slow, cycle, byHand, count>>

\* A SoftReset of the DTC after an IAP; the destructor of SlowControlsPause, on
\* every way out.
FlashEnds(m) ==
  LET d == DtcOf[m] IN
  /\ flash[m].at = "flash"
  /\ slow' = [slow EXCEPT ![d] = flash[m].wasRunning]
  /\ flash' = [Disturbed(d, m) EXCEPT ![m].at = "done"]
  /\ \/ UNCHANGED <<counted, byHand>>
     \/ /\ counted' = [x \in RealROCs |-> IF x = d THEN 0 ELSE counted[x]]
        /\ byHand' = TRUE
  /\ UNCHANGED <<conf, run, rocs, artdaq, cfo, sent, emulating, plans, cycle, count>>

---------------------------------------------------------------------------
Transition ==
  \/ Start \/ StepEnds \/ ArtdaqStarts \/ CfoWaits \/ CfoAutoLaunches \/ CfoStarted
  \/ \E d \in DTC : DtcStarts(d) \/ DtcStartsAlone(d)
  \/ FrontEndFails
  \/ Pause \/ Resume \/ Stop \/ CfoStops \/ TransitionEnds
  \/ \E d \in DTC : DtcPauses(d) \/ DtcResumes(d) \/ DtcStops(d) \/ DtcHalts(d)
  \/ Halt \/ CfoHalts \/ Halted

Operator ==
  \/ \E n \in Counts : MacroFixedWidth(n) \/ SuperOrchestrationStart(n)
  \/ \E n \in Cycles : MacroSuperCycle(n)
  \/ MacroOrchestrates \/ SuperOrchestrationEnd \/ ResetRunplan \/ LaunchRunplan
  \/ \E m \in Flash : FlashBegins(m) \/ FlashPauses(m) \/ FlashWrites(m) \/ FlashEnds(m)

Next ==
  \/ Transition \/ Operator
  \/ LoopOrchestrates \/ CfoIssuesWindow
  \/ \E t \in Thread : LaunchStep(t) \/ Orchestrates(t)
  \/ \E d \in DTC : PollBegins(d) \/ PollEnds(d)

Spec == Init /\ [][Next]_vars
---------------------------------------------------------------------------
(* Properties *)

\* The type of the variables.
TypeOK ==
  /\ conf \in Configurations
  /\ run \in [state : {"Configured", "Starting", "Running", "Pausing", "Paused",
                       "Resuming", "Stopping", "Halting", "Halted", "Failed"},
              step : Nat, todo : SUBSET (FrontEnd \cup {Artdaq}), more : BOOLEAN]
  /\ rocs \subseteq RealROCs /\ artdaq \in BOOLEAN
  /\ cfo \in [on : BOOLEAN, plan : Int, left : Int]
  /\ next \in Nat /\ super \in [go : BOOLEAN, windows : Nat]
  /\ launch \in [Thread -> [at : {"idle", "prepare"}] \cup
                            [at : {"halt", "set", "enable", "add"},
                             windows : Nat, adds : BOOLEAN]]
  /\ counted \in [RealROCs -> Nat] /\ sent \in Nat
  /\ emulating \subseteq DTC /\ slow \in [DTC -> BOOLEAN] /\ cycle \subseteq DTC
  /\ flash \in [Flash -> [at : {"idle"}] \cup
                          [at : {"pause", "quiet", "flash", "done"},
                           wasRunning : BOOLEAN, alone : BOOLEAN, behind : BOOLEAN]]
  /\ byHand \in BOOLEAN
  /\ count \in [runs : Nat, macros : Nat]

\* Start is ordered across the subsystems so that a run loses no window: once
\* the state machine or the work loop has made the CFO issue one, artdaq and
\* every real ROC run, and no DTC with real ROCs has reset its counters since
\* (CFO start, DTC start).  The exception is an operator's own launch or IAP.
RunIsComplete ==
  (/\ EventBuilding /\ ~byHand /\ sent > 0
   /\ run.state \in {"Starting", "Running", "Pausing", "Paused", "Resuming"})
  => /\ artdaq /\ RealROCs \subseteq rocs
     /\ \A d \in RealROCs : counted[d] = sent

\* When a stop or a halt is over nothing makes windows any more: not the CFO,
\* unless an operator's macro was at work on it, and no DTC's own emulator; in
\* the hardware development mode a pause silences the emulators as well.
StoppedIsQuiet ==
  /\ run.state \in {"Configured", "Halted"} =>
       /\ emulating = {}
       /\ EventBuilding /\ ~byHand => ~cfo.on
  /\ run.state = "Paused" => emulating = {}

\* No cycle of the slow controls begins behind Program ROCs Safe, from its pause
\* to its end, unless another party paused or resumed them meanwhile: the only
\* one it can meet is the one it found running, which it gives a number of
\* seconds and does not look at again.  And in a run only a flash that
\* overlapped its start, or another flash, can have woken the slow controls.
SlowControlsQuiet ==
  /\ \A m \in Flash : flash[m].at \in {"quiet", "flash"} /\ flash[m].alone
                        /\ DtcOf[m] \in cycle => flash[m].behind
  /\ \A d \in DTC : run.state \in {"Running", "Paused"} /\ slow[d] =>
       \E m \in Flash : DtcOf[m] = d /\ flash[m].at = "done" /\ ~flash[m].alone
===========================================================================
