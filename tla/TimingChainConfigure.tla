----------------------- MODULE TimingChainConfigure -----------------------
(***************************************************************************)
(* The configure transition of the CFO and DTC front ends in the event     *)
(* building modes: the fourteen phases of configureEventBuildingMode(), in *)
(* lock step inside a subsystem and in turns across subsystems, that bring *)
(* up the clocks, the timing chain, the sample edges, the marker offsets,  *)
(* the ROC links and the data path.  Two DTC front ends may drive the same *)
(* board: one without real ROCs next to the CFO, one with the real ROCs in *)
(* a detector subsystem.                                                   *)
(*                                                                         *)
(* A front end answers each call of the gateway with the work it still     *)
(* has: "sub" (call me again in this iteration), "more" (another           *)
(* iteration), "later" (another subsystem-iteration) or "done".            *)
(***************************************************************************)
EXTENDS Integers, FiniteSets

CONSTANTS
  DTC,            \* the DTC front ends
  Cfo,            \* the CFO front end
  Boards,         \* the boards of the chain are 1 .. Boards, the CFO feeds 1
  BoardOf,        \* the board a DTC front end drives
  RealROCs,       \* DTC front ends classified as "w/ real ROCs"
  ConfiguresROCs, \* of those, the ones with EnableROCConfigureStep
  CfoHome,        \* DTC front ends in the CFO's subsystem
  Clocked,        \* front ends with configure_clock_
  TopLevel,       \* TRUE: a top-level gateway; FALSE: standalone subsystems
  Modes,          \* operating modes the operator may configure
  MaxPolls,       \* polls of the jitter attenuator's lock (10 in the code)
  MaxPasses,      \* MAX_CFO_EDGE_FIX_PASSES (10 in the code)
  OffsetSteps,    \* last sub-step that may apply the offset (4 in the code)
  MarkerSteps,    \* last sub-step that waits for markers (12 in the code)
  RocSteps,       \* bound on the sub-steps of the ROCs' own configure
  MaxConfigures,  \* bound on the configures of a behaviour
  MayReboot       \* the boards that may reboot, each at most once

Board == 1 .. Boards
FrontEnd == DTC \cup {Cfo}

ASSUME ChainAssumption ==
  /\ Boards \in Nat \ {0} /\ BoardOf \in [DTC -> Board] /\ Cfo \notin DTC
  /\ ConfiguresROCs \subseteq RealROCs /\ RealROCs \subseteq DTC
  /\ CfoHome \subseteq DTC /\ Clocked \subseteq FrontEnd
  /\ TopLevel \in BOOLEAN
  /\ Modes \subseteq {"EventBuilding", "EventBuildingAndSync", "Loopback"}
  /\ {MaxPolls, MaxPasses, OffsetSteps, RocSteps, MaxConfigures} \subseteq Nat \ {0}
  /\ MarkerSteps \in Nat /\ MarkerSteps > OffsetSteps /\ MayReboot \subseteq Board

VARIABLES
  mode,      \* operatingMode_ of this configure
  gw,        \* the gateway of each subsystem and the replies it has collected
  base,      \* configPhaseBaseIteration_ of each front end, -1 when unset
  sub,       \* sub-step: sub-iteration less timing_chain_first_substep_
  stale,     \* front ends whose recorded time-alive value precedes a reboot
  looked,    \* what a DTC w/o real ROCs has read of its ROC links, if anything
  retried,   \* rtfPhaseEdgeRetried_
  pass,      \* the CFO's edge-fix pass: DTCs left, whether any toggled, clean passes
  cfo,       \* the CFO's registers
  board,     \* each DTC board's registers and the state of its clock
  failure,   \* the check that failed the configure, "none" if none did
  count      \* bookkeeping of the bounds: configures done, boards that rebooted

vars == <<mode, gw, base, sub, stale, looked, retried, pass, cfo, board,
          failure, count>>

---------------------------------------------------------------------------
(* The phases, as plain iterations from the first one of a front end's pass *)

ClocksA == 0
ClocksB == 1
ChainEnable == 2
ChainCheck == 3
CfoEdgeFix == 4
SyncA == 5
SyncB == 6
SyncC == 7
SyncD == 8
SyncE == 9
RocConfig == 10
RocDataPath == 11
FinalSoftReset == 12
EventSending == 13

Subsystem == {"cfo", "detector"}
Standalone == -1

\* getSubsystemFEUIDsOfPlugin: the front ends of a subsystem.
FEs(s) == IF s = "cfo" THEN CfoHome \cup {Cfo} ELSE DTC \ CfoHome
Home(f) == IF f \in CfoHome \cup {Cfo} THEN "cfo" ELSE "detector"

\* The subsystem-iteration in which a front end runs its pass.
TurnOf(f) == IF Home(f) = "cfo" THEN 0 ELSE 1
IsMyTurn(f) == gw[Home(f)].turn \in {Standalone, TurnOf(f)}

EdgeFixing == mode \in {"EventBuilding", "EventBuildingAndSync"}
Syncing == mode = "EventBuildingAndSync"

ClockPhase(d) == IF d \in RealROCs THEN ClocksB ELSE ClocksA
EdgePhase(d) == IF d \in RealROCs THEN SyncB ELSE SyncA
OffsetPhase(d) == IF d \in RealROCs THEN SyncD ELSE SyncC

---------------------------------------------------------------------------
(* Calls and replies *)

IsCalled(f) == gw[Home(f)].state = "Configuring" /\ f \in gw[Home(f)].todo

\* isFirstIteration(): the very first call of the transition.
IsFirst(f) ==
  /\ gw[Home(f)].turn \in {Standalone, 0} /\ gw[Home(f)].iter = 0 /\ sub[f] = 0

\* configPhase() takes the base at the first call of the pass; the first
\* iteration of a transition forgets the base of the transition before.
BaseOf(f) ==
  IF IsFirst(f) \/ base[f] = -1 THEN gw[Home(f)].iter ELSE base[f]
Phase(f) == gw[Home(f)].iter - BaseOf(f)

\* The common head of configure(): the front end is called, it is its turn, and
\* it enters phase p.  A reboot is noticed only by a test that is not skipped,
\* and tests within two seconds of the last one are: see NoticesReboot.
At(f, p) == IsCalled(f) /\ IsMyTurn(f) /\ Phase(f) = p

Enter(f) ==
  /\ base' = [base EXCEPT ![f] = BaseOf(f)]
  /\ stale' = IF IsFirst(f) THEN stale \ {f} ELSE stale

Reply(f, r) ==
  /\ gw' = [gw EXCEPT ![Home(f)].todo = IF r = "sub" THEN @ ELSE @ \ {f},
                      ![Home(f)].more = @ \/ r = "more",
                      ![Home(f)].later = @ \/ r = "later"]
  /\ sub' = [sub EXCEPT ![f] = IF r = "sub" THEN @ + 1 ELSE 0]
  /\ UNCHANGED <<mode, failure, count>>

\* A front end that throws fails its subsystem.
Throw(f, why) ==
  /\ gw' = [gw EXCEPT ![Home(f)].state = "Failed"]
  /\ failure' = why
  /\ UNCHANGED <<mode, sub, looked, retried, pass, cfo, board, count>>

\* testAndUpdateTimeAlive(): the register has decreased since the last test.
NoticesReboot(f) ==
  /\ IsCalled(f) /\ ~IsFirst(f) /\ f \in stale
  /\ Throw(f, "rebooted")
  /\ UNCHANGED <<base, stale>>

\* A DTC of a subsystem without a CFO waits for the CFO's pass.
Waits(f) ==
  /\ IsCalled(f) /\ ~IsMyTurn(f)
  /\ base' = [base EXCEPT ![f] = IF IsFirst(f) THEN -1 ELSE @]
  /\ stale' = IF IsFirst(f) THEN stale \ {f} ELSE stale
  /\ Reply(f, "later")
  /\ UNCHANGED <<looked, retried, pass, cfo, board>>

---------------------------------------------------------------------------
(* The hardware: one timing chain.  A DTC's receiver locks when the CFO     *)
(* drives its links and every board down to it has a locked jitter          *)
(* attenuator, an enabled CFO link and a SERDES that is not stuck.  A wrong *)
(* sample edge shows as errors under event traffic, and only perhaps under  *)
(* bare clock markers; errors stay latched until a SoftReset.               *)

Locked(b) ==
  cfo.links /\ \A u \in 1 .. b : board[u].ja /\ board[u].rx /\ ~board[u].stuck

MarkersArrive(b) == Locked(b) /\ cfo.markers

\* What the error flags and counters of the CFO interface may show.
EdgeErrors(b) ==
  IF board[b].err \/ (~board[b].edge /\ cfo.events) THEN {TRUE}
  ELSE IF ~board[b].edge THEN {TRUE, FALSE}
  ELSE {FALSE}

\* Mutant: no SoftReset after the edge has been toggled.
ToggledOnly(b, turned, latched) ==
  [x \in Board |->
    IF x = b THEN [board[x] EXCEPT !.edge = ~@]
    ELSE [board[x] EXCEPT !.edge = IF x \in turned THEN ~@ ELSE @,
                          !.err = @ \/ x \in latched]]

\* ToggleExternalCFOSampleEdge() and SoftReset() on board b.  The boards
\* downstream sample another clock: their edges may turn wrong or right, and
\* errors may latch there.
Toggled(b, turned, latched) ==
  [x \in Board |->
    IF x = b THEN [board[x] EXCEPT !.edge = ~@, !.err = FALSE]
    ELSE [board[x] EXCEPT !.edge = IF x \in turned THEN ~@ ELSE @,
                          !.err = @ \/ x \in latched]]

Downstream(b) == {x \in Board : x > b}

SoftReset(b) == [board EXCEPT ![b].err = FALSE]

\* A board after power-up: nothing enabled, and an edge that may be wrong.
FreshBoard(edge) ==
  [ja |-> FALSE, rx |-> FALSE, stuck |-> FALSE, edge |-> edge, err |-> FALSE,
   links |-> "off", dcs |-> FALSE, drp |-> FALSE, evb |-> FALSE, offset |-> FALSE]

---------------------------------------------------------------------------
(* The DTC front end *)

\* Mutant: the control register is cleared without its keep mask: the edge is lost.
ControlClearedEntirely(d) ==
  LET b == board[BoardOf[d]] IN
  [board EXCEPT ![BoardOf[d]] =
     [b EXCEPT !.dcs = FALSE, !.drp = FALSE, !.evb = FALSE, !.edge = FALSE,
               !.links = IF d \in RealROCs THEN "off" ELSE b.links]]

\* configureForTimingChain() of a DTC.  The control register is cleared but for
\* the edge bits: DCS reception and data requests are off until phases 4 and 5.
ControlCleared(d) ==
  LET b == board[BoardOf[d]] IN
  [board EXCEPT ![BoardOf[d]] =
     [b EXCEPT !.dcs = FALSE, !.drp = FALSE, !.evb = FALSE,
               !.links = IF d \in RealROCs THEN "off" ELSE b.links]]

DtcClearsControl(d) ==
  /\ At(d, ClockPhase(d)) /\ sub[d] = 0
  /\ board' = ControlCleared(d)
  /\ Enter(d) /\ Reply(d, "sub")
  /\ UNCHANGED <<looked, retried, pass, cfo>>

DtcSetsClock(d) ==
  /\ At(d, ClockPhase(d)) /\ sub[d] = 1
  /\ Enter(d) /\ Reply(d, IF d \in Clocked THEN "sub" ELSE "more")
  /\ UNCHANGED <<looked, retried, pass, cfo, board>>

\* After the last poll the front end warns and goes on without a lock.
DtcPollsLock(d) ==
  /\ At(d, ClockPhase(d)) /\ sub[d] >= 2
  /\ \E lock \in {board[BoardOf[d]].ja, TRUE} :
       /\ board' = [board EXCEPT ![BoardOf[d]].ja = lock]
       /\ Reply(d, IF ~lock /\ sub[d] - 2 < MaxPolls THEN "sub" ELSE "more")
  /\ Enter(d)
  /\ UNCHANGED <<looked, retried, pass, cfo>>

DtcEnablesLink(d) ==
  /\ At(d, ChainEnable)
  /\ board' = [board EXCEPT ![BoardOf[d]].rx = TRUE]
  /\ Enter(d) /\ Reply(d, "more")
  /\ UNCHANGED <<looked, retried, pass, cfo>>

DtcChecksLock(d) ==
  /\ At(d, ChainCheck)
  /\ Enter(d)
  /\ \/ /\ Locked(BoardOf[d])
        /\ Reply(d, "more")
        /\ UNCHANGED <<looked, retried, pass, cfo, board>>
     \/ ~Locked(BoardOf[d]) /\ Throw(d, "noLock")

\* Phases of the other kind of front end, and phases the mode leaves out.
DtcIdlePhase(d, p) ==
  \/ p \in {ClocksA, ClocksB} \ {ClockPhase(d)}
  \/ p \in {CfoEdgeFix, SyncE}
  \/ p \in {SyncA, SyncB} /\ (~EdgeFixing \/ p # EdgePhase(d))
  \/ p \in {SyncC, SyncD} /\ (~Syncing \/ p # OffsetPhase(d))

DtcIdles(d) ==
  /\ \E p \in ClocksA .. SyncE : At(d, p) /\ DtcIdlePhase(d, p)
  /\ Enter(d) /\ Reply(d, "more")
  /\ UNCHANGED <<looked, retried, pass, cfo, board>>

---------------------------------------------------------------------------
(* Phases 3a and 3b: each DTC checks, and if need be fixes, its own edge *)

\* Sub-steps 0 and 2: SoftReset, then wait for more than 1000 clock markers.
DtcWaitsForMarkers(d) ==
  /\ EdgeFixing /\ At(d, EdgePhase(d)) /\ sub[d] \in {0, 2}
  /\ Enter(d)
  /\ \/ /\ MarkersArrive(BoardOf[d])
        /\ board' = SoftReset(BoardOf[d])
        /\ Reply(d, "sub")
        /\ UNCHANGED <<looked, retried, pass, cfo>>
     \/ ~MarkersArrive(BoardOf[d]) /\ Throw(d, "noMarkers")

\* Sub-steps 1 and 3: clean, the counters of the jitter attenuator decide.
DtcFindsEdgeClean(d) ==
  /\ EdgeFixing /\ At(d, EdgePhase(d)) /\ sub[d] \in {1, 3}
  /\ FALSE \in EdgeErrors(BoardOf[d])
  /\ Enter(d)
  /\ \/ /\ Reply(d, "more")
        /\ UNCHANGED <<looked, retried, pass, cfo, board>>
     \/ Throw(d, "unstableClock")

\* Sub-step 1 toggles the edge; sub-step 3 gives up.
DtcFindsEdgeErrors(d) ==
  /\ EdgeFixing /\ At(d, EdgePhase(d)) /\ sub[d] \in {1, 3}
  /\ TRUE \in EdgeErrors(BoardOf[d])
  /\ Enter(d)
  /\ \/ /\ sub[d] = 1
        /\ \E turned \in SUBSET Downstream(BoardOf[d]) :
           \E latched \in SUBSET Downstream(BoardOf[d]) :
             board' = Toggled(BoardOf[d], turned, latched)
        /\ Reply(d, "sub")
        /\ UNCHANGED <<looked, retried, pass, cfo>>
     \/ sub[d] = 3 /\ Throw(d, "edgeErrors")

---------------------------------------------------------------------------
(* Phases 3c and 3d: the permanent marker offset, with the 40 MHz reference *)

AtOffset(d) == Syncing /\ At(d, OffsetPhase(d))

DtcStartsOffset(d) ==
  /\ AtOffset(d) /\ sub[d] = 0
  /\ retried' = retried \ {d}
  /\ Enter(d) /\ Reply(d, "sub")
  /\ UNCHANGED <<looked, pass, cfo, board>>

\* The histogram has not saturated yet, until the last of these sub-steps.
DtcWaitsForHistogram(d) ==
  /\ AtOffset(d) /\ sub[d] \in 1 .. OffsetSteps
  /\ Enter(d)
  /\ \/ /\ sub[d] < OffsetSteps
        /\ Reply(d, "sub")
        /\ UNCHANGED <<looked, retried, pass, cfo, board>>
     \/ Throw(d, "badPosition")

\* Every one of these sub-steps that finds the histogram saturated applies the
\* offset and resets the board.
DtcAppliesOffset(d) ==
  /\ AtOffset(d) /\ sub[d] \in 1 .. OffsetSteps
  /\ board' = [board EXCEPT ![BoardOf[d]] = [@ EXCEPT !.offset = TRUE, !.err = FALSE]]
  /\ Enter(d) /\ Reply(d, "sub")
  /\ UNCHANGED <<looked, retried, pass, cfo>>

DtcWaitsToVerify(d) ==
  /\ AtOffset(d) /\ sub[d] > OffsetSteps
  /\ Enter(d)
  /\ \/ /\ sub[d] < MarkerSteps
        /\ Reply(d, "sub")
        /\ UNCHANGED <<looked, retried, pass, cfo, board>>
     \/ sub[d] >= MarkerSteps /\ Throw(d, "noMarkers")

\* A phase error alone is worth one more attempt with the punched clock's other
\* edge; every other error, and a second phase error, fails the configure.
DtcVerifiesOffset(d) ==
  /\ AtOffset(d) /\ sub[d] > OffsetSteps /\ MarkersArrive(BoardOf[d])
  /\ Enter(d)
  /\ \/ /\ FALSE \in EdgeErrors(BoardOf[d])
        /\ Reply(d, "more")
        /\ UNCHANGED <<looked, retried, pass, cfo, board>>
     \/ /\ FALSE \in EdgeErrors(BoardOf[d]) /\ d \notin retried
        /\ retried' = retried \cup {d}
        /\ board' = [board EXCEPT ![BoardOf[d]].offset = TRUE]
        /\ Reply(d, "sub")
        /\ UNCHANGED <<looked, pass, cfo>>
     \/ Throw(d, "offsetErrors")

---------------------------------------------------------------------------
(* Phases 4, 5 and the final reset *)

\* SetupROCs() for every link, from the front end's own ROC records: those of
\* the front end next to the CFO are emulated in the DTC's hardware.
LinksOf(d) == IF d \in RealROCs THEN "plain" ELSE "emulated"

DtcSetsUpROCs(d) ==
  /\ d \in RealROCs /\ At(d, RocConfig) /\ sub[d] = 0
  /\ board' = [board EXCEPT ![BoardOf[d]] =
                 [@ EXCEPT !.links = LinksOf(d), !.dcs = TRUE, !.err = FALSE]]
  /\ Enter(d) /\ Reply(d, IF d \in ConfiguresROCs THEN "sub" ELSE "more")
  /\ UNCHANGED <<looked, retried, pass, cfo>>

\* The ROCs' own configure: more sub-steps, all done, or one of them failed.
DtcConfiguresROCs(d) ==
  /\ d \in RealROCs /\ At(d, RocConfig) /\ sub[d] > 0
  /\ Enter(d)
  /\ \/ /\ \E r \in {"sub", "more"} : (r = "sub" => sub[d] < RocSteps) /\ Reply(d, r)
        /\ UNCHANGED <<looked, retried, pass, cfo, board>>
     \/ Throw(d, "rocs")

\* A DTC w/o real ROCs reads the enables of all its ROC links ...
DtcReadsLinks(d) ==
  /\ d \notin RealROCs /\ At(d, RocConfig) /\ looked[d] = "not"
  /\ looked' = [looked EXCEPT ![d] = board[BoardOf[d]].links]
  /\ Enter(d)
  /\ UNCHANGED <<mode, gw, sub, retried, pass, cfo, board, failure, count>>

\* Mutant: the links are set up whatever their state, as once was done.
LinksRewritten(d) == LinksOf(d)

\* ... and sets them up only when it has found them all off.
LinksAfter(d) == IF looked[d] = "off" THEN LinksOf(d) ELSE board[BoardOf[d]].links

DtcSetsLinks(d) ==
  /\ d \notin RealROCs /\ At(d, RocConfig) /\ looked[d] # "not"
  /\ board' = [board EXCEPT ![BoardOf[d]].links = LinksAfter(d)]
  /\ looked' = [looked EXCEPT ![d] = "not"]
  /\ Enter(d) /\ Reply(d, "more")
  /\ UNCHANGED <<retried, pass, cfo>>

\* Event building registers and the data request mode; a DTC w/o real ROCs sets
\* the request mode only.
DtcSetsDataPath(d) ==
  /\ At(d, RocDataPath)
  /\ board' = [board EXCEPT ![BoardOf[d]] =
                 [@ EXCEPT !.drp = TRUE, !.evb = board[BoardOf[d]].evb \/ d \in RealROCs]]
  /\ Enter(d) /\ Reply(d, "more")
  /\ UNCHANGED <<looked, retried, pass, cfo>>

\* A DTC in the CFO's subsystem idles one more iteration.
DtcFinalReset(d) ==
  /\ At(d, FinalSoftReset)
  /\ board' = [board EXCEPT ![BoardOf[d]] = [@ EXCEPT !.rx = TRUE, !.err = FALSE]]
  /\ Enter(d) /\ Reply(d, IF TurnOf(d) = 0 THEN "more" ELSE "done")
  /\ UNCHANGED <<looked, retried, pass, cfo>>

\* Past its last phase a front end does nothing while the others finish.
PastLast(f) ==
  /\ IsCalled(f) /\ IsMyTurn(f)
  /\ Phase(f) > IF f = Cfo THEN EventSending ELSE FinalSoftReset
  /\ Enter(f) /\ Reply(f, "done")
  /\ UNCHANGED <<looked, retried, pass, cfo, board>>

---------------------------------------------------------------------------
(* The CFO front end *)

FreshCfo == [ja |-> FALSE, links |-> FALSE, markers |-> FALSE, events |-> FALSE,
             rf0 |-> FALSE]
NoPass == [left |-> {}, toggled |-> FALSE, clean |-> 0]

CfoClearsControl ==
  /\ At(Cfo, ClocksA) /\ sub[Cfo] = 0
  /\ cfo' = [FreshCfo EXCEPT !.ja = cfo.ja]
  /\ Enter(Cfo) /\ Reply(Cfo, "sub")
  /\ UNCHANGED <<looked, retried, pass, board>>

CfoSetsClock ==
  /\ At(Cfo, ClocksA) /\ sub[Cfo] = 1
  /\ Enter(Cfo) /\ Reply(Cfo, IF Cfo \in Clocked THEN "sub" ELSE "more")
  /\ UNCHANGED <<looked, retried, pass, cfo, board>>

CfoPollsLock ==
  /\ At(Cfo, ClocksA) /\ sub[Cfo] >= 2
  /\ \E lock \in {cfo.ja, TRUE} :
       /\ cfo' = [cfo EXCEPT !.ja = lock]
       /\ Reply(Cfo, IF ~lock /\ sub[Cfo] - 2 < MaxPolls THEN "sub" ELSE "more")
  /\ Enter(Cfo)
  /\ UNCHANGED <<looked, retried, pass, board>>

\* Mutant: halt() resets the phase base.
BaseForgotten(b) == -1

\* halt(), called by the launch of a run plan as a plain hardware helper: it
\* leaves the phase base alone.
BaseAfterHalt(b) == b

\* All links and clock markers, the CFO link of every DTC of the subsystem by
\* macro, and in the event building modes an endless run plan of null events.
\* Some receivers may come up with a stuck SERDES.
CfoEnablesChain ==
  /\ At(Cfo, ChainEnable)
  /\ cfo' = [cfo EXCEPT !.links = TRUE, !.markers = TRUE, !.events = EdgeFixing]
  /\ \E stuck \in SUBSET Board :
       board' = [b \in Board |->
                   [board[b] EXCEPT !.rx = @ \/ \E d \in CfoHome : BoardOf[d] = b,
                                    !.stuck = b \in stuck]]
  /\ base' = [base EXCEPT ![Cfo] = IF EdgeFixing THEN BaseAfterHalt(BaseOf(Cfo))
                                                 ELSE BaseOf(Cfo)]
  /\ stale' = stale
  /\ Reply(Cfo, "more")
  /\ UNCHANGED <<looked, retried, pass>>

HomeLocked == \A d \in CfoHome : Locked(BoardOf[d])

CfoChecksLocks ==
  /\ At(Cfo, ChainCheck)
  /\ Enter(Cfo)
  /\ \/ /\ HomeLocked
        /\ Reply(Cfo, "more")
        /\ UNCHANGED <<looked, retried, pass, cfo, board>>
     \/ /\ ~HomeLocked /\ sub[Cfo] = 0      \* reset the SERDES and try again
        /\ board' = [b \in Board |-> [board[b] EXCEPT !.stuck = FALSE]]
        /\ Reply(Cfo, "sub")
        /\ UNCHANGED <<looked, retried, pass, cfo>>
     \/ ~HomeLocked /\ sub[Cfo] = 1 /\ Throw(Cfo, "noLock")

CfoIdlePhase(p) ==
  p \in {ClocksB, SyncA, SyncB, SyncC, SyncD, RocConfig, RocDataPath}
    \cup IF EdgeFixing THEN {} ELSE {CfoEdgeFix, SyncE}

CfoIdles ==
  /\ \E p \in ClocksA .. EventSending : At(Cfo, p) /\ CfoIdlePhase(p)
  /\ Enter(Cfo) /\ Reply(Cfo, "more")
  /\ UNCHANGED <<looked, retried, pass, cfo, board>>

AtEdgeFix == EdgeFixing /\ At(Cfo, CfoEdgeFix)

\* Sub-step 0: "Get RTF Interface Status" of every DTC of the subsystem.
CfoValidatesRTF ==
  /\ AtEdgeFix /\ sub[Cfo] = 0
  /\ Enter(Cfo)
  /\ \/ /\ HomeLocked
        /\ pass' = [NoPass EXCEPT !.left = CfoHome]
        /\ Reply(Cfo, "sub")
        /\ UNCHANGED <<looked, retried, cfo, board>>
     \/ Throw(Cfo, "rtfStatus")

\* "Fix CFO Clock Edge" on one DTC of the pass.
CfoFixesEdge(d) ==
  /\ AtEdgeFix /\ sub[Cfo] > 0 /\ d \in pass.left
  /\ MarkersArrive(BoardOf[d])
  /\ \/ /\ FALSE \in EdgeErrors(BoardOf[d])
        /\ pass' = [pass EXCEPT !.left = @ \ {d}]
        /\ UNCHANGED board
     \/ /\ TRUE \in EdgeErrors(BoardOf[d])
        /\ pass' = [pass EXCEPT !.left = @ \ {d}, !.toggled = TRUE]
        /\ \E turned \in SUBSET Downstream(BoardOf[d]) :
           \E latched \in SUBSET Downstream(BoardOf[d]) :
             board' = Toggled(BoardOf[d], turned, latched)
  /\ UNCHANGED <<mode, gw, base, sub, stale, looked, retried, cfo,
                 failure, count>>

CfoFindsNoMarkers(d) ==
  /\ AtEdgeFix /\ sub[Cfo] > 0 /\ d \in pass.left
  /\ ~MarkersArrive(BoardOf[d])
  /\ Throw(Cfo, "noMarkers")
  /\ UNCHANGED <<base, stale>>

\* Two clean passes in a row end the loop; a pass that has toggled at the limit
\* fails it.
CleanPasses == IF pass.toggled THEN 0 ELSE pass.clean + 1

CfoEndsPass ==
  /\ AtEdgeFix /\ sub[Cfo] > 0 /\ pass.left = {}
  /\ \/ /\ CleanPasses >= 2
        /\ pass' = NoPass
        /\ Reply(Cfo, "more")
        /\ UNCHANGED <<looked, retried, cfo, board>>
     \/ /\ CleanPasses < 2 /\ (pass.toggled => sub[Cfo] < MaxPasses)
        /\ pass' = [left |-> CfoHome, toggled |-> FALSE, clean |-> CleanPasses]
        /\ Reply(Cfo, "sub")
        /\ UNCHANGED <<looked, retried, cfo, board>>
     \/ pass.toggled /\ sub[Cfo] >= MaxPasses /\ Throw(Cfo, "notConverged")
  /\ UNCHANGED <<base, stale>>

\* Mutant: only the beam-on mode is disabled in phase 3e: the plan runs on.
CfoStopsBeamOnOnly ==
  /\ EdgeFixing /\ At(Cfo, SyncE)
  /\ Enter(Cfo) /\ Reply(Cfo, "more")
  /\ UNCHANGED <<looked, retried, pass, cfo, board>>

CfoStopsEvents ==
  /\ EdgeFixing /\ At(Cfo, SyncE)
  /\ cfo' = [cfo EXCEPT !.events = FALSE]
  /\ Enter(Cfo) /\ Reply(Cfo, "more")
  /\ UNCHANGED <<looked, retried, pass, board>>

CfoFinalReset ==
  /\ At(Cfo, FinalSoftReset)
  /\ Enter(Cfo) /\ Reply(Cfo, "more")
  /\ UNCHANGED <<looked, retried, pass, cfo, board>>

CfoEnablesOperation ==
  /\ At(Cfo, EventSending)
  /\ cfo' = [cfo EXCEPT !.rf0 = TRUE]
  /\ Enter(Cfo) /\ Reply(Cfo, "done")
  /\ UNCHANGED <<looked, retried, pass, board>>

---------------------------------------------------------------------------
(* The gateways and the operator *)

Halted == [state |-> "Halted", turn |-> Standalone, iter |-> 0, todo |-> {},
           more |-> FALSE, later |-> FALSE]

\* The end of an iteration: the gateway goes by the replies of its front ends.
\* Every front end of the subsystem is called in the next iteration again.
EndsIteration(s) ==
  /\ gw[s].state = "Configuring" /\ gw[s].todo = {}
  /\ LET g == gw[s] IN
     gw' = [gw EXCEPT ![s] =
       IF g.more THEN [g EXCEPT !.iter = g.iter + 1, !.todo = FEs(s), !.more = FALSE]
       ELSE [g EXCEPT !.state = IF g.later THEN "PassDone" ELSE "Configured"]]
  /\ UNCHANGED <<mode, base, sub, stale, looked, retried, pass, cfo, board,
                 failure, count>>

\* The next subsystem-iteration, for the subsystems that asked for it, once all
\* subsystems have finished theirs.  The iteration index goes on counting.
NextTurn ==
  /\ \A s \in Subsystem : gw[s].state \in {"PassDone", "Configured"}
  /\ \E s \in Subsystem : gw[s].state = "PassDone"
  /\ gw' = [s \in Subsystem |->
       IF gw[s].state = "PassDone"
       THEN [state |-> "Configuring", turn |-> gw[s].turn + 1,
             iter |-> gw[s].iter + 1, todo |-> FEs(s), more |-> FALSE, later |-> FALSE]
       ELSE gw[s]]
  /\ UNCHANGED <<mode, base, sub, stale, looked, retried, pass, cfo, board,
                 failure, count>>

Configure(m) ==
  /\ \A s \in Subsystem : gw[s].state = "Halted"
  /\ count.configures < MaxConfigures
  /\ mode' = m
  /\ count' = [count EXCEPT !.configures = @ + 1]
  /\ gw' = [s \in Subsystem |->
       [Halted EXCEPT !.state = "Configuring", !.todo = FEs(s),
                      !.turn = IF TopLevel THEN 0 ELSE Standalone]]
  /\ failure' = "none"
  /\ UNCHANGED <<base, sub, stale, looked, retried, pass, cfo, board>>

\* halt() of all front ends, after a configure or after its failure.  The CFO's
\* stops the events, the DTCs' forget their phase.
Halt ==
  /\ \A s \in Subsystem : gw[s].state # "Configuring"
  /\ \/ \E s \in Subsystem : gw[s].state = "Failed"
     \/ \A s \in Subsystem : gw[s].state = "Configured"
  /\ count.configures < MaxConfigures
  /\ gw' = [s \in Subsystem |-> Halted]
  /\ base' = [f \in FrontEnd |-> IF f = Cfo THEN BaseAfterHalt(base[f]) ELSE -1]
  /\ sub' = [f \in FrontEnd |-> 0]
  /\ looked' = [d \in DTC |-> "not"]
  /\ pass' = NoPass
  /\ cfo' = IF mode = "Loopback" THEN cfo ELSE [cfo EXCEPT !.events = FALSE]
  /\ UNCHANGED <<mode, stale, retried, board, failure, count>>

\* A board reboots while the system configures; the bound leaves room for a
\* configure that recovers from it.
Reboot(b) ==
  /\ b \notin count.reboots /\ count.configures < MaxConfigures
  /\ \E s \in Subsystem : gw[s].state = "Configuring"
  /\ \E edge \in BOOLEAN : board' = [board EXCEPT ![b] = FreshBoard(edge)]
  /\ stale' = stale \cup {d \in DTC : BoardOf[d] = b}
  /\ count' = [count EXCEPT !.reboots = @ \cup {b}]
  /\ UNCHANGED <<mode, gw, base, sub, looked, retried, pass, cfo, failure>>

Init ==
  /\ mode \in Modes
  /\ gw = [s \in Subsystem |-> Halted]
  /\ base = [f \in FrontEnd |-> -1]
  /\ sub = [f \in FrontEnd |-> 0]
  /\ stale = {}
  /\ looked = [d \in DTC |-> "not"]
  /\ retried = {}
  /\ pass = NoPass
  /\ cfo = FreshCfo
  /\ board \in [Board -> {FreshBoard(e) : e \in BOOLEAN}]
  /\ failure = "none"
  /\ count = [configures |-> 0, reboots |-> {}]

DtcCall(d) ==
  \/ DtcClearsControl(d) \/ DtcSetsClock(d) \/ DtcPollsLock(d)
  \/ DtcEnablesLink(d) \/ DtcChecksLock(d) \/ DtcIdles(d)
  \/ DtcWaitsForMarkers(d) \/ DtcFindsEdgeClean(d) \/ DtcFindsEdgeErrors(d)
  \/ DtcStartsOffset(d) \/ DtcWaitsForHistogram(d) \/ DtcAppliesOffset(d)
  \/ DtcWaitsToVerify(d) \/ DtcVerifiesOffset(d)
  \/ DtcSetsUpROCs(d) \/ DtcConfiguresROCs(d) \/ DtcReadsLinks(d) \/ DtcSetsLinks(d)
  \/ DtcSetsDataPath(d) \/ DtcFinalReset(d)

CfoCall ==
  \/ CfoClearsControl \/ CfoSetsClock \/ CfoPollsLock \/ CfoEnablesChain
  \/ CfoChecksLocks \/ CfoIdles \/ CfoValidatesRTF
  \/ (\E d \in CfoHome : CfoFixesEdge(d) \/ CfoFindsNoMarkers(d)) \/ CfoEndsPass
  \/ CfoStopsEvents \/ CfoFinalReset \/ CfoEnablesOperation

System ==
  \/ \E d \in DTC : DtcCall(d)
  \/ CfoCall
  \/ \E f \in FrontEnd : NoticesReboot(f) \/ Waits(f) \/ PastLast(f)
  \/ \E s \in Subsystem : EndsIteration(s)
  \/ NextTurn

Next ==
  \/ System
  \/ \E m \in Modes : Configure(m)
  \/ Halt
  \/ \E b \in MayReboot : Reboot(b)

Spec == Init /\ [][Next]_vars

---------------------------------------------------------------------------
(* Properties *)

\* Type invariant: the gateways' bookkeeping, the bases and the hardware.
TypeOK ==
  /\ mode \in Modes
  /\ gw \in [Subsystem ->
       [state : {"Halted", "Configuring", "PassDone", "Configured", "Failed"},
        turn : -1 .. 1, iter : 0 .. EventSending + 1, todo : SUBSET FrontEnd,
        more : BOOLEAN, later : BOOLEAN]]
  /\ base \in [FrontEnd -> -1 .. 1]
  /\ sub \in [FrontEnd -> Nat]
  /\ stale \subseteq DTC /\ retried \subseteq DTC
  /\ count \in [configures : 0 .. MaxConfigures, reboots : SUBSET MayReboot]
  /\ looked \in [DTC -> {"not", "off", "emulated", "plain"}]
  /\ pass \in [left : SUBSET CfoHome, toggled : BOOLEAN, clean : 0 .. 1]
  /\ cfo \in [ja : BOOLEAN, links : BOOLEAN, markers : BOOLEAN, events : BOOLEAN,
              rf0 : BOOLEAN]
  /\ board \in [Board ->
       [ja : BOOLEAN, rx : BOOLEAN, stuck : BOOLEAN, edge : BOOLEAN, err : BOOLEAN,
        links : {"off", "emulated", "plain"}, dcs : BOOLEAN, drp : BOOLEAN,
        evb : BOOLEAN, offset : BOOLEAN]]

InPass(f) == gw[Home(f)].state = "Configuring" /\ IsMyTurn(f) /\ base[f] # -1

\* The front ends of a subsystem are in step: once two of them have started
\* their passes they count the phases from the same iteration, although each
\* keeps its own base, the CFO's survives a halt, and run-plan launches halt the
\* CFO in the middle of the sequence.
InStep ==
  \A f, g \in FrontEnd :
    (Home(f) = Home(g) /\ InPass(f) /\ InPass(g)) => base[f] = base[g]

\* The null-event run plan brackets the edge work: in the CFO's subsystem every
\* edge is judged while events flow, and no front end, of either subsystem under
\* a top-level gateway, sets up ROCs, the data path or its final reset while
\* they do.
EventsBracketEdges ==
  \A d \in DTC : (InPass(d) /\ (TopLevel \/ d \in CfoHome)) =>
    LET p == gw[Home(d)].iter - base[d] IN
    /\ (d \in CfoHome /\ EdgeFixing /\ p \in CfoEdgeFix .. SyncD) => cfo.events
    /\ (p \in RocConfig .. EventSending \/ d \notin CfoHome) => ~cfo.events

\* A DTC front end without real ROCs never turns the links that the owner of
\* the ROCs has set up into emulated ones.
OwnerKeepsLinks ==
  [][\A b \in Board : board[b].links = "plain" => board'[b].links # "emulated"]_vars

\* When both subsystems report Configured, and no reboot is waiting to be
\* noticed by the next transition, what the run needs is there on every board,
\* whichever front ends have worked on it: receiver and clock, the right edge,
\* the offset in sync mode, the owner's links, DCS and data path; and the CFO
\* sends markers but no events.
BoardReady(b) ==
  LET owned == \E d \in RealROCs : BoardOf[d] = b IN
  /\ board[b].rx /\ Locked(b) /\ board[b].drp
  /\ (EdgeFixing /\ \E d \in CfoHome : BoardOf[d] = b) => board[b].edge
  /\ Syncing => board[b].offset
  /\ IF owned THEN board[b].links = "plain" /\ board[b].dcs /\ board[b].evb
     ELSE board[b].links # "off"

ConfiguredIsReady ==
  ((\A s \in Subsystem : gw[s].state = "Configured") /\ stale = {}) =>
    /\ cfo.links /\ cfo.markers /\ cfo.rf0 /\ ~cfo.events
    /\ \A b \in {BoardOf[d] : d \in DTC} : BoardReady(b)

\* With a limit of two passes per board the CFO's loop never gives up: fixing
\* an upstream edge may undo the boards below it, but boards settle one by one
\* from the head of the chain.
EdgeFixConverges == MaxPasses >= 2 * Boards => failure # "notConverged"
===========================================================================
