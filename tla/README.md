# A TLA+ model of otsdaq-mu2e

This directory models, model-checks and proves properties of the program logic of
`otsdaq-mu2e`: the front ends that drive the DTC (data transfer controller), the CFO (the
clock and event source of the timing chain) and the ROCs (readout controllers) of the Mu2e
data acquisition, and the plugin that books its runs. `DTC:8896` means
`src/otsdaq-mu2e/FEInterfaces/DTCFrontEndInterfaceImpl.cc`, line 8896; `CFO` is
`CFOFrontEndInterfaceImpl.cc`, `PF` is `ROCPolarFireCoreInterfaceImpl.cc`, `FLASH` is
`RocFlashProgrammer.h`, `H` is `DTCFrontEndInterface.h`, all in that directory; `CORE` is
`CFOandDTCCore/CFOandDTCCoreVInterface.cc`, `RC` is `ROCCore/ROCCoreVInterface.cc`, `DB` is
`RunInfoPlugins/DBRunInfo_runInfo.cc`.

- `PROJECT.json` lists the components, the runs, the mutants, the map from every modelled
  definition to the lines it translates, the findings, the hazards and the theorems.
- One module per component, an `MC` module and `.cfg` files for TLC, a `Proofs` module
  where there are theorems.

To run a check: `tlc -config MCDetachedMerge.cfg MCDetachedMerge.tla`; to check the proofs:
`tlapm BufferTestDataProofs.tla`.

## 1. Inventory

| Component (source) | State it keeps | Operations | Hard behaviour | What makes it correct |
|---|---|---|---|---|
| **Merge of the detached buffer test** (`DTC:8790-9090`, `DTC:11285-11353`, `DTC:11788-11864`) | maps of unpaired halves per DTC, the tag merged last, counters for the status | stage a half, scan for time-out and overflow, publish, handle, reset | halves on two DMAs in any order, lost or doubled; halts and exceptions in the middle of a batch; state reused by the next run | events leave in order, once, complete; nothing is dropped silently; only disorder is rejected |
| **Detached buffer-test threads of DTC and CFO** (`DTC:10893-12340`, `DTC:8775-8795`, `DTC:9788-9897`, `CFO:4092-4560`) | the shared `DetachedBufferTestThreadStruct`: flags, mailbox, file, borrowed handle of DTC_1 | Start, Halt, FSM halt, re-initialisation by emulation and run-plan macros, the thread itself | fields read without `lock_` between steps of others; a thread that leaves while it is restarted or launched again; exception handler against the next Start | one reader per DMA, a file is closed once, by one who finds it open, a halt ends the thread, a borrowed handle stays valid |
| **Checks of received subevents** (`DTC:10561-10890`) | expected tag, sources seen for it, counters of the ROC emulators, statistics | check one subevent, move the tag on, restart | losses and doubles of single sources, restarts that keep the counters | no false alarm, no silent loss |
| **ROC flash programming: upload** (`FLASH:273-1053`) | per ROC: verdict, kind of MiV; the lock-step operation, segment, attempt, tags | probe, erase, write, CRC, read back, retry | commands and replies lost, late or foreign; two kinds of MiV; a ROC that hangs while others go on | a verified ROC holds the image; nothing else is touched; the session ends |
| **ROC flash programming: activation** (`FLASH:1083-1215`) | requests, per-ROC poll state, verdicts, link resets | request the IAP, poll three registers, judge, reset links, time out | the FPGA restarts between two reads; latched link errors; a request lost unnoticed | "programmed" means restarted with the expected version |
| **ROC action lock, Program ROCs, Program ROCs Safe** (`PF:275-1163`, `DTC:13598-14473`, `DTC:14487-14739`) | `actionLock_` of each ROC, the locks a macro still has to give back, the flag of the slow controls | launch, poll, collect, clear by force, the ports of a session, pause of the slow controls | a lock taken in one call and released in another; one ROC of several fails; three macros at once | nobody loses a lock it relies on; a session is undisturbed; locks are returned |
| **Run information database** (`DB:16-1235`) | tables of runs, transitions, end comments and conditions; one connection per supervisor | claim a number, record the condition, write a transition, reconnect | several supervisors, each statement its own transaction; refusals, cuts, lost answers and crashes between them | run numbers are unique, the pages of the book are lawful, the records are true |
| **CFO shared run plan** (`CFO:4762-6960`) | the plan in the CFO's memory, rewritten while it runs | start, stop, join, leave, single-shot join | words written one at a time under a running program, nested loops, duty cycles | a subsystem is on in its share of the events, never otherwise |
| **Configure of CFO and DTCs** (`CFO:2083-2760`, `DTC:1886-3560`, `CORE:1940-2612`) | iteration bases, edge-fix pass, clocks, chain, edges, offsets, links | fourteen phases in iterations, sub-iterations and turns of subsystems | two state machines on one chain, two front ends on one board, reboots, a fix upstream that undoes one downstream | front ends in step, edges fixed under events and in bounded passes, everything ready at the end, an owner keeps its links |
| **Start, stop, pause, resume, halt; run plans by hand; work loop** (`CFO:2763-4060`, `DTC:3560-4440`) | next event window tag, super parameters, emulation, counters | ordered start steps, launches of run plans, Super Orchestration | launches without a lock by three threads; counters reset in one step and windows issued in another | a run loses no window, its tags increase (not modelled, see the observations), a stop silences everything |
| Base of CFO and DTC front ends (`CORE`) | device handle | time-alive and RTF checks (in the two rows above), register access, durations to clocks | a reboot between two transitions | - |
| ROC core and emulated ROC (`RC`) | emulator work loop and its flags | block access, halt | a halt that meets a thread about to start or end | the thread ends |
| DTC macros: loopback, ROC reads, counters, EVB set-up | none of their own | register access and formatting | - | - |
| DTC table, histogram sender and receiver, DQM consumer, CAPTAN generator, hardware tests, web GUI, tools | little or none | formatting, I/O | - | - |

How they interact. A gateway calls the transitions of the front ends, iteration by
iteration, and the supervisor above it claims run numbers and writes transitions to the run
database. The operator calls macros of a front end at any time. A `BufferTest_detached`
macro launches one thread per front end; in merge mode the thread of DTC_0 borrows the DTC
object of the other front end, which must not read at the same time. The macros for
emulations and run plans restart that thread. The CFO makes the event windows that all DTCs
see: from the null-event plan of a configure, from the plan of a run, from plans launched
by hand or by the work loop, or from the shared plan of the subsystems. The flash macros
reach a ROC through the DCS link of the DTC, which slow controls and register macros use
too; the action lock of each ROC keeps flash actions apart, and a flash pauses the slow
controls. Block writes that carry commands are not acknowledged (`RC:249-261`).

## 2. Modules

| Module | Models | State and actions against the code |
|---|---|---|
| `DetachedMerge` | the merge | A half is its tag. `pending` is the key sets of `pendingDTC0_`/`pendingDTC1_`; `StageAbort`, `StagePark`, `StageMerge`, `StageBuildFails` are the outcomes of `stageDetachedHalf`; `ScanFails`/`ScanPasses` are the end of `mergeDetachedEvents`, with the publication of the counts only on success; `HandleStops`/`HandleEvent`/`HandleThrows` are `handleMergedDetachedEvents`; `StartTest` picks the pairing and includes the reset by the new thread. `newest`, `drained`, `merged`, `handled` are history. |
| `BufferTestThread` | the threads of two DTCs and a CFO, and their macros | Fields of the struct are per front end. The thread is split where another thread may come between two accesses: start, release, release of the borrowed DTC, top of the loop, mailbox, check of the handle, drain of the borrowed DTC, handling, the test of `fp_`, `fclose` and the clearing of `fp_` (of the loop's end, of a restart, of the handler and of Halt, three steps each), exit, catch, the handler's look at `otherDTC_` and its use; the CFO's thread has actions of its own where it differs. Macros are sequences of steps (`StartChecks`, `StartLaunches`, `HaltAsks`, `HaltCloses`, `HaltReports`, `InitChecks`, `InitAssigns`, ...) because they drop `lock_` or sleep in between. `crossed` is history: two who close the same file have met. |
| `SubeventChecks` | what a DTC thread checks of the data | `Deliver`, `Repeat` are one `handleDetachedSubevent` each; `Lose`, `LoseEvent`, `NextEvent` are the traffic, whose step from tag to tag is its own and need not be the `Stride` that the checker adds; `Start`, `Launch`, `ReInitialize`, `Restart`, `Halt` leave in the fields what the macros and the thread leave (`Start` leaves `skipBy32_` as it was). A counter of the emulators is kept by source id alone, whichever DTC delivers it. `faults` and `gaps` are history. |
| `FlashUpload` | `probeAll`, `upload` | The operation `op`, the segment, the attempt and the stage of every ROC are the program counter of the lock-step session. `flash`, `queue`, `exec`, `fifo` are the ROC at the other end. A tag is "is it the last one sent". |
| `FlashActivation` | `activate`, `resyncLink` | A poll is three steps (`ReadDone`, `ReadRet`, `ReadVersion`); time is a level that rises between sweeps. |
| `RocActionLock` | `actionLock_`, Program ROCs, the ports of Program ROCs Safe, macros of one ROC | `phase`/`step`/`todo`/`marked` follow Program ROCs through launch, accept and done polls of erase and write (one phase, repeated for each chunk), verify and program; `held` is `eraseLockHeld`, `writeLockHeld`, `readLockHeld`; `call` is a call that waits for its action (directory map, read and erase macros). |
| `RunBook` | the abstract specification of the run database | A book of runs: `Open` gives a number greater than all before, `Write` adds a transition that fits the page, and only the owner's newest page is written. |
| `RunInfo` | the plugin, statement by statement | A call is the row of its statements (`todo`); `Succeeds`, `IsRefused`, `AnswerIsLost`, `IsNotSent` are the four fates of a statement, `Restart` is a crash of the supervisor. The supervisor's calls are in the order that `DBRunInfo.h` documents. `ImplementsBook` is the refinement. |
| `SharedRunPlan` | the macros of the shared plan and the CFO that executes it | `Operation` and `After` are the program, whose masks are the variable `plan`, `Place` the order of the masks in memory; `CFO` executes one operation, `WriteWord` writes one word; `Join*`, `Leave*`, `Shoot*`, `Start*`, `ChunkEnds` compute the words as the code does. `share`, `asked`, `due`, `settled` are what teams have asked for. |
| `TimingChainConfigure` | configure of the CFO and of all DTCs of a chain | One action per phase and outcome, named for it (`DtcSetsClock`, `DtcFindsEdgeErrors`, `CfoFixesEdge`, ...); `gw` is the gateway with the replies of this iteration, `base` and `sub` are the iteration bases and sub-steps of the front ends, `board` and `cfo` the registers. |
| `RunTransitions` | the other transitions, the macros that launch run plans, the work loop, the pause of the slow controls | `launch[t]` is the launch thread `t` is in the middle of: halt, set memory, enable; `Dtc*`, `Cfo*` answer a transition; `Macro` launches by hand in any state. `FlashBegins`, `FlashPauses`, `FlashWrites`, `FlashEnds` are Program ROCs Safe seen from the slow controls: it reads their flag, clears it, sleeps, and restores it; `alone` and `behind` are history: nobody else has touched the flag since, and the cycle that was running then still runs. The tags of the windows are left out. |
| `BufferTestDataProofs` (of `DetachedMerge` and of `SubeventChecks`), `BufferTestThreadProofs`, `FlashMacroProofs` (of `RocActionLock` and of `FlashActivation`), `FlashUploadProofs`, `RunInfoProofs`, `RunTransitionsProofs`, `SharedRunPlanProofs`, `TimingChainConfigureProofs` | proofs | section 5 |
| `MC*` | instances for TLC | constants and symmetry only |

How they fit together. `FlashUpload`, `FlashActivation` and `RocActionLock` describe the
same hardware at three levels: the lock module keeps from the session only its ports,
commands and replies, the other two suppose the lock (`SessionUndisturbed` is what they rest
on) but allow other DCS users, which do not take it, all the same. `DetachedMerge` and
`SubeventChecks` are the body of the step `handle` and of the two drains of
`BufferTestThread`; that there is one thread, which they suppose, is `OneThreadRuns` there.
`RunTransitions` starts where `TimingChainConfigure` ends (`ConfiguredIsReady`).
`RunBook` is instantiated by `RunInfo`.

What is outside `src/` is modelled from how the code uses it and marked external in the
map: the MiV processor of the ROC (takes commands one at a time in order, register 128 keeps
DONE of the last command until it takes the next, is 0 after a restart, replies go to a FIFO
with a word count), the FPGA's restart, the link and its latched errors, the CFO's execution
of a plan, the boards' clocks and edges, the gateway that calls transitions, the supervisor
and the database.

## 3. Runs

Every passing run has one mutant per property: a plausible mistake in the code (a dropped
check, a missing reset, an off-by-one), stated in the module before the definition it would
replace, which makes TLC find the property violated.

| Run | Question and answer | Bounds (states, time on two cores) |
|---|---|---|
| `merge` | Both DTCs deliver any halves, in either pairing, with halts and restarts anywhere. What is merged is in order (`MergedInOrder`), complete (`PairsNeverWait`, `HalvesConserved`) and paired with its own partner (`EvenWithNextOdd`); a half is rejected on arrival only if its own DTC broke order or parity (`RejectsOnlyDisorder`); a half that the order has passed ends the run by its age (`PassedHalfEndsRun`, liveness). | 3 tags, 3 halves per side and run, drains of up to 2, backlog of 1 |
| `thread` | A DTC, a CFO, or two DTCs of which one merges, with their macros: launches, re-initialisations of a leaving thread, halts and exceptions never give two readers (`OneThreadRuns`, `OneReaderOfDTC1`); while no two who close a file have met, no file is lost, closed twice or used after it was closed, and never a foreign one is written (`FileAccounted`); the loop finds the borrowed DTC where it has looked for it (`HandleHeld`); after Halt has reported the exit nothing is left (`HaltLeavesNothing`), and a halt ends the thread wherever it is unless a Start takes it back (`HaltStops`, liveness). | 1 or 2 front ends, 2 threads each at once; emulation macros and files on the nodes with one (0.3 million, 45 s) |
| `thread_handed_back` | The exception handler of a merge thread uses `otherDTC_` after a Halt has dropped it: `HandedBackWhenGone` fails (section 4). | the same |
| `subevent_checks` | Sources deliver subevents of which some are lost or doubled, the checker is re-initialised at any step, or started again with the stride that a macro has left. Every mismatch counted is owed to a loss, a double, a restart or another stride (`AlarmsHaveCauses`); while none is counted, under the stride of the traffic, nothing is missing from the events passed (`SilenceMeansComplete`). | 1 to 4 sources of one or both DTCs, 3 events of a stream, 2 faults, 2 starts or re-initialisations (7.0 million, 1 min) |
| `flash` | Two ROCs of any kinds in lock-step, uploaded or only verified: a verified ROC holds the image (`VerifiedHoldsImage`), an acknowledged command was done (`AckMeansDone`), nothing outside the image is touched (`NothingElseTouched`), a dropped ROC gets nothing more (`FailedIsLeftAlone`), the session ends (`SessionEnds`, liveness). | 1 segment of 2 records, 2 attempts, 2 tries, 1 fault or foreign access (2.0 million, 90 s) |
| `iap_expected` | With an expected version, "programmed" means restarted with that version (`ProgrammedRunsExpected`), an early failure is a refusal (`EarlyFailureIsRefusal`), and `activate()` ends (`ActivationEnds`, liveness). | 2 ROCs, 1 fault, 2 resets of a link (0.1 million) |
| `roc_lock` | Program ROCs, a Program ROCs Safe session and a macro at once, with faults, lost commands, hangs and restarts without limit: nobody loses a lock it relies on (`HolderAlone`), only launches of Program ROCs leave locks behind (`OnlyLaunchesLeaveLocks`), the session is undisturbed (`SessionUndisturbed`). | 2 ROCs, symmetric, 1 command kept per ROC (4.9 million, 2 min) |
| `run_info` | Two supervisors on one database whose statements are refused, cut off, or answered in vain, with crashes and reconnections between them: the tables implement an atomic book of runs (`ImplementsBook`, refinement), the records tell what the supervisor knows (`StatusIsTrue`), a run that runs has one condition row per subsystem (`ConditionIsWhole`). | 2 clients, 2 subsystems, 2 run numbers, 1 pause, symmetric (1.1 million, 1 min) |
| `run_plan` | Subsystems join, leave, shoot, and the plan is stopped at any moment, while the CFO executes the plan that is being rewritten: a settled subsystem is on in its share of the events (`SharesHold`), none is ever on in an event that nobody asked for (`OnlyWhatWasAsked`), a single shot fires exactly the events asked for (`ShotsComplete`). | 2 subsystems, loops of 2, 4 and 8 events, a shot of 13 events (1.2 million, 30 s) |
| `run_plan_coarse` | A subsystem that leaves and joins again with a coarse ratio is never on: `SharesHold` fails (section 4). | 1 subsystem, ratio 1:4 |
| `configure` | A CFO and a chain of boards configured by two state machines that interleave at every step. Front ends are in step (`InStep`), the edges are judged and fixed while null events flow, which are over before set-up begins (`EventsBracketEdges`), the edges converge in boundedly many passes (`EdgeFixConverges`), a board is ready when its configure is over (`ConfiguredIsReady`), who owns the links keeps them (`OwnerKeepsLinks`). | 2 boards, 3 DTC front ends, 2 configures, 1 reboot (0.9 million, 80 s) |
| `run_transitions` | Two runs of a CFO and two DTCs with the work loop, an operator who launches plans by hand in any state, and two flashes of the ROCs of one DTC: no window of a run is lost at its start (`RunIsComplete`), nothing makes windows after a stop (`StoppedIsQuiet`), the slow controls do not wake behind a flash (`SlowControlsQuiet`). | 2 DTCs, 2 runs, 2 windows, 2 macros or flashes, the flashes symmetric (7.7 million, 2 min) |

### Bounds and why they are enough

- `merge`: the decisions compare a key with the pending keys and with the last merged one,
  so three keys give an earlier, an equal and a later one; three halves per side allow a
  pair, a passed half and a repetition in one run; batches of two let a batch be cut by a
  halt or an abort; `PairMaxPending = 1` is reached and exceeded within three halves. Halts
  and restarts are unbounded.
- `Slot`: two threads of one front end overlap when an exception handler outlives its run; a
  third launch needs a second handler still at work after a whole further run. The theorems
  of section 5 hold for any number. `Saving` and `Emulating` are the nodes with one front end:
  a file, its mailbox and its flags are of one front end alone, and the borrowed handle needs
  neither (for `Emulating` see the first observation on the buffer test). The proofs have
  files on every node.
- `flash`: two records tell the first from the last, and one fault or foreign access in
  either ROC lets it fall behind the other, retry, or drop out. With `MaxAttempts = Tries =
  2` a retry may succeed or run out. (The code's 4 tries of a piece repeat the same step.)
  The theorems hold for every size, and for any number of faults and foreign accesses.
- Levels of time in `FlashActivation`: one per time-out that the code compares with. One
  fault in an access or a request, with hangs, restarts and refusals at any time besides.
- `MaxQueue = 1` in `roc_lock`: a ROC loses a second command, as it would by a fault. The
  theorems hold for every capacity.
- `subevent_checks`: a network of two ids gives events of one source, of two of one DTC, of
  one of each DTC (matching) and of two of each (even/odd). `Skip = 2` stands for the code's
  32: a stride unlike the natural one. Two faults let a loss be hidden by a double, which
  is the case the properties must exclude; three events let a loss at the start, in the
  middle and at the end be seen. Two starts are a re-initialisation of a running
  thread, or a second start that finds the stride of the first. `Local` and `Peer` differ
  here; the theorems allow them to be equal, and hold for any numbers.
- `run_info`: two clients race for a number; the faults are not bounded, only the numbers
  and the pauses are.
- `run_plan`: a fine loop of two events in two nested coarse loops; teams join in every event,
  in every second one (in the fine loop) and in every fourth one (the inner coarse loop), and
  injection in every eighth (the outer one), which are the branches of the code; the plan of
  the CFO has a fine loop of 100 events in nine coarse loops. The offset 1 moves the duty of
  the fine loop off the first slot, where the coarse duties are. At full duty the 13 events of
  a single shot are an outer coarse chunk of 8, an inner one of 4 and a fine one of 1; below
  full duty all its chunks are fine ones. A single shot counts tags, which the CFO moves on
  behind the WAIT of each event (`InWait`, `IncTag`, `CFO:6377-6386`), until there are enough
  (`Counted`), and a stop forgets where the CFO stood, because only the next start, which
  begins anew, makes it run again. `Careful = TRUE` keeps teams off what the code does not
  support (section 4); one macro at a time. The theorems hold for loops of any sizes nested to
  any depth, any offsets and any counts.
- `configure`: board 1 has an instance owned by the CFO and one owned by a detector, board 2
  only the CFO's: shared and unshared boards, upstream and downstream. `MaxPasses` is not
  reached (the passes needed are at most twice the number of boards). Two configures, with
  a reboot of board 1 anywhere, leave one to start from whatever the other left.
- `run_transitions`: one DTC has real ROCs, and so is ready a step before the other; two windows
  let a plan be launched, run and be launched again; two macros meet each other, the start,
  the stop and the work loop; two flashes of one DTC disturb each other, and one of them a
  start. The second run starts from whatever the first, its stop and the
  operator have left behind. The theorems hold for any numbers of all of these.
- `CHECK_DEADLOCK FALSE` is set where the system really stops: a flash session, an
  activation, a configure, a buffer test that is halted and not started again, and a run
  that is over.

### Fairness

- `WF(Thread)` (`DetachedMerge`, `BufferTestThread`): a thread of the operating system runs,
  and the library calls it makes return (they have their own time-outs).
- `WF(GrowOld)`: a half that keeps waiting gets older than `pairTimeoutMs_`.
- `WF(Session)`: the macro runs. `WF(Take)`, `WF(MivTakes)`: an idle MiV takes the command
  in its queue. Nothing is assumed of the end of a command: the MiV may hang, an FPGA may
  never come back.
- `SF(TimePasses)` in `FlashActivation`: time goes on although the session is polling;
  strong, because the step is enabled only between two sweeps.
- The other runs check safety and assume no fairness.

## 4. Findings and observations

**Finding** (`thread_handed_back`, `DTC:12309`). Halt is to "hand DTC_1 back; only once the
thread is gone" (`DTC:12286`), and takes a cleared `running_` for that (`DTC:12287`). The
exception handler clears `running_` first (`DTC:11898`) and reads the status of DTC_1 through
`otherDTC_` at its end (`DTC:11960-11964`): a Halt in between test and use sets it to null.

**Finding** (`run_plan_coarse`, `CFO:6353`). The macro's text says "M:N ratio specifies M
Event Windows active every N Event Windows" (`CFO:377`). A join with a ratio coarser than
the fine loop sets the subsystem's bits by the OR mask before the loop and lets the AND mask
of the first fine slot pass (`shouldClear` only for `i > 0`). But a join only narrows the
masks it finds, and the leave before it cleared the bits in the masks of every fine slot
(`CFO:6511-6512`). After join, leave and coarse join the subsystem is never on.

Observations: what the models show, or what modelling showed, and no run is kept for.

Detached buffer test:

- `initDetachedBufferTest`, called by an emulation macro, clears `otherDTC_` of a running
  merge thread (`DTC:9838`), which tests it and uses it later without `lock_`; `DTC:12286`
  promises "only once the thread is gone". With node `Dtc` in `Emulating`, `HandleHeld` fails.
- After an exception with a file open the CFO's thread leaves it open: the next Start
  reports "Launched", but the thread finds a file and throws "Impossible?!" (`CFO:4346`)
  until a Halt closes it. The CFO's inner loop over `GetData` does not look at
  `exitThread_`, so a continuous stream holds off halts and restarts; its FSM halt does not
  stop the thread; its Halt says "exited" whether or not the thread is.
- The handler of the DTC's thread clears `running_` (`DTC:11898`) before it closes the file
  (`DTC:11905-11911`); a Start in between launches a thread that finds the file, says
  "Impossible?!" (`DTC:10904`) and dies (`FindsFile`). If the Start comes with the handler
  still before its test of `fp_`, and the new thread opens its file first, the handler
  closes the file of the new thread.
- Test of `fp_`, `fclose` and `fp_ = nullptr` are three statements without `lock_`, in the
  thread (`DTC:11873-11876`), in its handler (`11906-11910`) and in Halt (`12258-12264`). A
  Halt whose second is over while the thread still runs, or that meets a handler, may close
  the `FILE` that the other is closing, or writes to. `crossed` marks these two meetings and
  the one above, and `FileAccounted` states that there is no other way to it: without
  `~crossed =>` it fails.
- Pending counts printed at an abort (`DTC:11948-11951`) are assigned only by iterations that
  pass all checks (`DTC:9048-9055`): they are those of an earlier iteration.
- `SetCFOEmulatorFixedWidthEmulation` waits for `releaseAllComplete_` (`DTC:9726-9745`); a
  release that is under way when the macro arms the flag sets it. The OnOff macro does not
  wait at all (`DTC:9409`).
- A halt or an exception in the middle of a batch drops merged events that are counted but
  not handled (`DTC:9067`); what is handled is a prefix (theorem `Handling`).
- In event mode the event check sets the next tag to one past this event before
  `handleDetachedSubevent`, so that every subevent counts a mismatch, or throws with the
  active match. A restart that keeps the counters keeps the set of sources seen too: sources
  left over complete an event early (one more mismatch each, after which a loss can pass
  unnoticed), and the emulator check may fail falsely after the release. It may also fail
  falsely when a re-initialisation switches it off and another one on again before the
  thread restarts: blocks handled in between go unchecked, and its counters are behind. `DTC:10615` can
  overwrite the expected tag that an initialisation has just announced; `savedCount_` is
  never reset.
- The key of an emulator stream lacks the source's group (`DTC:231`): in a matching merge of
  two DTCs with equal ids, which nothing excludes (`DTC:12136-12156`), two emulators share a
  counter, and the emulator check fails without any fault (`SharedIds`).
- `skipBy32_` is written by `initDetachedBufferTest` only (`DTC:9836`, `DTC:9877`): neither
  Start (`DTC:12164-12214`) nor the prologue of the thread resets it, and the register of the
  DTC that drops events stays too. After an emulation with drops, a Start of traffic that
  is not dropped expects a stride of 32 (`DTC:10604-10605`), and every subevent is a
  mismatch. In EVB mode the stride ignores `skipBy32_` while the register drops events
  all the same. Both properties of `SubeventChecks` name this cause (`StrideFits`).
  Whether the emulators count events that were dropped or went to other nodes is not
  known from the code (the comment at `DTC:175-183` is taken at its word); the model has both.

ROC flash:

- Without an expected version one failed read counts as the link having gone down
  (`FLASH:1138`), so that a ROC whose request was lost is reported as programmed;
  `FLASH:1142`: "a ROC that never restarted must not pass as programmed". With `Expected = 0`
  and `MaxFaults = 2`, `ProgrammedRestarted` fails.
- The program phase of Program ROCs polls DONE right after the launch, takes the DONE of the
  previous action for the end of the IAP (`DTC:14408`), releases the lock and reports
  success; `PF:374-376` warns of this, and the other phases wait for DONE to drop. With one
  ROC, no faults and `MaxQueue = 2`, `ActionAlone` fails.
- A verify that fails clears the locks of the ROCs whose data it has not collected
  (`DTC:14342`); the next read of the same size takes the data. With two ROCs and the same
  constants, `CollectsOwnData` fails.
- Three kinds of paths leave an action lock behind, and only Force Clear Action Lock returns
  it: a launch with `waitForDone = false` whose `writeBlock` throws (the launch of a read
  gives the lock back, `PF:353-365`, the others do not); any exception of the program phase,
  which has no handler (`DTC:14382-14465`); a ROC that comes back from its IAP with
  register 128 at 0 (`DTC:14411-14418`). Calls that wait for the lock then block for ever.
- `autoProgramFromSPI` (`PF:1026-1037`) never increments the counter of its time-out; it has
  no caller in the repository.
- Two Program ROCs Safe on two DTCs: the second finds the flag of the slow controls already
  cleared and does not wait for a poll under way, which the comment at `DTC:14672-14675`
  says it does. `stop`, or the end of another macro, resumes slow controls in mid-flash.
- The pause before a flash only sleeps a number of seconds that the operator may set
  (`DTC:14686-14692`, 0 is allowed) and never looks: a cycle of the slow controls that takes
  longer runs on behind the flash, although the comment at `DTC:14672-14675` says that it is
  let finish. `SlowControlsQuiet` allows this one cycle (`behind`) and no other.

Run plans and transitions:

- The super-cycle macro moves the next tag on by the square of the number of cycles
  (`CFO:3687`; its twin near `DTC:9337` uses the windows per cycle), so its default start tags
  repeat. Tags repeat also when launches overlap, when an endless plan is followed by another
  one, and when a plan is launched again, and no lock or state prevents it. The model
  therefore leaves the tags out: no property of them holds for more than one launch at a time.
- The macros that launch plans check no state (`CFO:3580`, `3833`, `4068`): one may come during
  the start steps, or in the middle when the CFO stops, and then leaves its plan on.
  `RunIsComplete` and `StoppedIsQuiet` except what was launched by hand (`byHand`).
- A plan with a marker count of 1 compiles to an endless loop of null heartbeats
  (`CFO:3951-3962`, `CFO:4022`), although the argument reads "Number of Event Window Markers
  to generate (0 := infinite)". An infinite plan leaves the next tag as it was; Auto and Super
  Orchestration both start at tag 0; launches that overlap lose an update of the tag.
- Hardware-dev resume starts the emulation even with 0 pulses, and at tag 0; pause does
  nothing in the event building modes; start does not stop a plan left running by hand; a
  start that fails after the CFO's launch leaves windows running until a halt; halt does not
  restore the slow controls.
- Shared plan: a coarse single shot of a subsystem that has joined keeps its AND masks
  everywhere; a second join without a leave gives the union of the duties; two teams at once
  lose updates; percentages are cut twice (29 % becomes 28:100); part 2 of Start drops the OR
  masks of the initial mode. `Careful = TRUE` excludes these;
  of two teams at once, the runs and the proofs have one.
- `waitForSingleShotReady` takes a chunk for done as soon as the tag has advanced by exactly
  twice its events (`CFO:5769`, `>=`). That is enough only because of where the CFO then is.
  INC_TAG comes behind the WAIT of an event (`CFO:6377-6386`); between the last INC_TAG of a
  coarse chunk and the next WAIT the CFO only has the AND at the end of its loop and the
  next slot's masks to execute, at its clock and whatever the duration of an event, while
  the macro has yet to read registers, report and compile the next chunk. `ChunkEnds`
  states this as `running => InWait`. A CFO that stood still before that AND would let the
  preparation of the next chunk move the place where the bit is cleared: without the
  conjunct a single shot of 12 events (chunks of 8 and of 4) is on in events nobody asked
  for, and `OnlyWhatWasAsked` fails.

Configure:

- With subsystems that run standalone instead of under a top-level gateway (`TopLevel =
  FALSE`) `OwnerKeepsLinks` fails for the detector instance on a board of the CFO's:
  `doc/event_building_mode_configure.md` says that its configures "never write the ROC link
  enables or the ROC emulation bits while any ROC link is on".
- The phase offset is applied in every sub-step 1 to 4 (doc, 3c: once). The DTC's own check of
  its CDR throws before the CFO's SERDES reset can help unless it is called later. A
  configure of the CFO alone clears DCS, DRP and EVB of boards whose owner is a detector.
  Validation of RTF is required even when no mode synchronises. The pass limit of 10 is
  enough for 5 boards in a chain. The time-alive register is not read again within 2 s (`CORE:2559`).

Run information:

- A claim whose START is refused uses up a number that is never listed. A START that is
  committed but whose answer is lost leaves a run in `START` that nobody owns.
- `updateRunInfo` compares its run number with -1 only after the insertion.
  `openDbConnection` throws, so that the branch for a second attempt is never taken. Code
  after the `return conditionID` at `DB:390` is unreachable.

## 5. Proofs

Eight modules; every theorem holds for all values of the constants that the named assumptions
of the module allow.

### BufferTestDataProofs: the merge

The theorems about `DetachedMerge`, whose specification is `MergeSpec` and whose invariant is
`IInv`: `MergeTypeCorrect`, `MergeOrder` (`MergedInOrder`), `Pairing` (`PairsNeverWait`), `Conservation`
(`HalvesConserved`), `EvenOddPairs` (`EvenWithNextOdd`), `Handling`
(`HandledFollowsMerged`), `NoFalseReject` (`RejectsOnlyDisorder`); from `TagAssumption`
(tags are natural numbers) and `LimitAssumption`, in both pairings.

None is inductive alone. `IInv` joins to them

- `PendingFinite`: cardinalities are numbers only for finite sets;
- `OrderKnown`: `lastMergedBaseTag_` is the last merged tag, and no side has been merged or
  parked beyond what it has delivered. It gives `MergedInOrder` when an event is appended,
  and `NoFalseReject`: a key that is passed or pending was delivered before by the same side;
- `ToHandle`: between drain and handling, `merged` is `handled` followed by `mergedOut`.

`StageMerge` is where `Pairing` and `Conservation` meet: the partner leaves one side as the
arriving half joins the merged events.

### BufferTestThreadProofs

`TypeCorrect`, `OneThread` (`OneThreadRuns`), `FilesAreAccounted` (`FileAccounted`),
`HaltIsClean` (`HaltLeavesNothing`); and, on nodes where no emulation macro is used beside a merge
(`Apart`), `HandleIsHeld` (`HandleHeld`), `OneReader` (`OneReaderOfDTC1`). The invariant
says per front end: a thread that is alive is the only one and `running_` says so
(`ThreadOK`); past its opening a thread finds its own file or none, and somebody is left to
close a file (`FileOK`); a reported exit means no reader and no borrowed handle (`HaltOK`);
and what the checks of a macro found still holds when it assigns (`MacroOK`) — this is the
interleaving part, since the macros drop `lock_` in between: nobody else launches, and a
running thread can only stop. `AccountInv` adds who may be between a test of `fp_` and its
clearing: as long as nobody has met, one at most, and a handler or Halt only when no thread
is past its opening (`Alone`); and that what a restart has tested does not change while it
has `lock_` (`LockOK`). `MergeOK` adds, under `Apart`, that handle and reader go together.

### FlashMacroProofs: the action lock

The theorems about `RocActionLock`, whose specification is `Spec`: `TypeCorrect`, `LockIsKept`
(`HolderAlone`), `LocksAreReturned` (`OnlyLaunchesLeaveLocks`),
`SessionIsUndisturbed` (`SessionUndisturbed`); for any number of ROCs, any capacity
(`BoundAssumption`), with or without faults and hangs (`OptionAssumption`). `TypeInv` adds
`BusyHasCommand`. `LockInv` adds `HeldInFlight` (what the handlers clear by force is a lock
of an action in flight, so by `HolderAlone` their own) and `CallsInMap` (no handler runs
during a waiting call). `OneUser`, that two users who rely on one ROC are the same, gives
the session theorem.

### FlashMacroProofs: the activation

The theorems about `FlashActivation`, whose specification is `ActivationSpec`:
`ActivationTypeCorrect`, `EarlyFailureIsFinal` (`EarlyFailureIsRefusal`) and, if an expected version
is given and is not the one before, `ProgrammedIsTrue` (`ProgrammedRunsExpected`); for any
ROCs, faults and link resets. The invariant: the registers read so far belong to a ROC that
is pending (`PollOK`); a request, a busy MiV and an FPGA that is down are steps to the one
restart, and none is left after it, so that a version once read is final (`OneRestart`); and
an error read from PROG_RETURN after 200 ms is still there, with no command left
(`RefusalStays`).

### FlashUploadProofs

`TypeCorrect`, `VerdictsAreTrue` (`VerifiedHoldsImage`), `AcknowledgedIsDone`
(`AckMeansDone`), `TheRestIsUntouched` (`NothingElseTouched`) and the action property
`DroppedForGood` (`FailedIsLeftAlone`): all safety properties of the run, for any ROCs,
numbers of segments, records, attempts and tries, any number of faults and foreign accesses,
with and without a CRC check and an upload; from `SizeAssumption`, `OptAssumption` and
`TryAssumption`. Only the last command sent to a ROC may count, and `RocInv` says why no
other one does.

- `QueueInv`: of the session's commands that a ROC has not finished, only the last is fresh,
  and only while its answer is waited for; a send that is lost ages the others all the same.
  Whatever is left that would change the flash is for the segment at hand (`Confined`).
- `ReplyInv` and `CommandOver`: an answer to the last command, or `DONE` of an older MiV
  that has been seen busy, means that nothing of the session is left in the queue, because
  a MiV takes its commands in order.
- `WrittenInv`: what a new MiV has acknowledged of this segment has had its effect, and the
  records after it are still erased: no write is done twice, ahead, or before the erase.
- `VerifiedInv`: a segment whose CRC or data has been accepted is the image's and stays so:
  when it is looked at (`Settled`) nothing is queued that would change it, and what is sent
  later is confined to later segments.
- `StageInv`: a ROC that has failed is out of the session, which gives `DroppedForGood`.

### RunInfoProofs

`TypeCorrect`, `RefinesBook` (`ImplementsBook`: every step of `RunInfo` is a step of
`RunBook` or leaves the book alone), `RecordsAreTrue` (`StatusIsTrue`), and
`ConditionsAreWhole` (`ConditionIsWhole`); for any number of supervisors, runs and
subsystems. The refinement maps `owner` to the table of runs and `page` to the
transitions of each run. `Inv` says of each client, apart from the others, which run it has
in hand (`InHand`: its newest, not empty, not ended by an error), and for every row of
statements left which page goes with it: a claim has no number or one with an empty page
(`Claiming`), between calls the page shows the state (`Pages`), and a call that writes has
yet to write a transition that fits, or only the end comment is left (`Writing`). A step of
one client touches the rows of its own runs only, so that the others keep theirs. `EndsInv`
ties end comments to stops. `ConfigOf` follows the rows of one run: none
until the condition, then one for every subsystem not among the statements left, then one
each.

### RunTransitionsProofs

`TypeCorrect`, `SlowControlsAreQuiet` (`SlowControlsQuiet`), `RunsAreComplete`
(`RunIsComplete`) and `StopsAreQuiet` (`StoppedIsQuiet`): all properties of the run, for any
DTCs with any numbers of start steps, any runs, windows, launches, macros and flashes; from
`RunAssumption`, which asks for a last DTC to be ready (a finite system has one), so that the
last start step exists (`LastStep`).

- `SlowInv`: while nobody interferes with a flash, its slow controls stay paused, so that a
  cycle it meets is one it found, and it will resume them if it found them running; once the
  start has paused a DTC (`Settled`) what an older flash will restore has been marked as
  interfered with, or one that was is over (`Over`).
- `LaunchInv`: the state machine is in a launch only in the last start step, the work loop
  only in a run. `BeamInv`: before that step and after a stop the CFO is off unless an
  operator was at work. `StepInv`: which replies of a step have come, and what they have
  done (artdaq, the ROCs, the wish for a further step). `CountInv` draws the conclusion: a
  DTC that has made its last reset (`Armed`) has counted what was sent, and before that
  nothing was. `EmulationInv` does the same for the emulators of the DTCs.

### BufferTestDataProofs: the checks of subevents

The theorems about `SubeventChecks`, whose specification is `Spec`: `TypeCorrect`,
`SilenceIsTrue` (`SilenceMeansComplete`) and `NoFalseAlarms` (`AlarmsHaveCauses`), for any EVB
network (`IdsAssumption`: finite, with the ids of both DTCs, which may be equal), any stride
of `skipBy32_` (`SkipAssumption`: positive) and any numbers of tags, faults and starts.

- `SilentInv`: while nothing has been counted and nothing kept, and the stride is the step of
  the traffic (`StrideFits`), the tag expected stands at one of four places to the traffic
  (`Position`): nothing handled yet, behind the event being delivered, inside it, or past it
  with every source seen. Inside, what was seen is what was delivered, and an event with a gap
  cannot be completed.
- `CreditInv`: losses, doubles and restarts are a credit of mismatches, and `DebtOf` bounds
  the mismatches that the traffic as it stands will still cause if nothing else goes wrong.
  Under the settings of the traffic the credit never falls below the debt; each action has a
  lemma about `DebtOf` alone (`TakeDebt`, `RepeatDebt`, `LoseDebt`, `NextDebt`, `NewDebt`).
  While a restart is pending, or the stride is not the step of the traffic, the debt is
  unknown, but each subevent brings a credit of its own; it is enough that a thread without
  credit will accept its next subevent or has seen none (`Settled`, `GoodPosition`).
- `EmulatorInv`: while nothing was lost, doubled, kept, dropped or handled in between, and no
  two emulators share a key (`Numbered`), the block of each source continues the counter kept
  for it: sources with one key are the two halves of one emulator's stream (`OneKey`).

### TimingChainConfigureProofs

`TypeCorrect`, `FrontEndsInStep` (`InStep`), `EventsOnlyForEdges` (`EventsBracketEdges`),
`OwnersLinksStay` (`OwnerKeepsLinks`), `EdgeFixEnds` (`EdgeFixConverges`) and
`ReadyWhenConfigured` (`ConfiguredIsReady`): all properties of the run, for chains of any
length, any front ends in the two subsystems, any numbers of polls, passes, sub-steps and
configures, and reboots of any boards at any time while the system configures.

- `Skeleton` is about the gateways alone. A subsystem waits for its pass in one iteration and
  asks for another in all iterations of it but the last; the detectors' pass comes after the
  CFO's; and a front end's base is the first iteration of its pass from its first call on, and
  the CFO's, which a halt leaves behind, is 0 at most. It makes every front end's `Phase` the
  same `Ph` of its subsystem (`PhaseIs`), which all other parts are stated with: `Past(f, p)`
  and `Within(f, p)` say where a front end stands, and one lemma per step says how they move
  (`AnswerMoves`, `FailMoves`, `IterationMoves`, `TurnMoves`, ...).
- `CfoInv`: once the CFO is past enabling the chain it drives links and markers, and sends
  events exactly until the end of the edge work.
- `LookInv`: the ROC links that a front end has found off, in a call before the one that turns
  them on, have not been set up by their owner in between.
- `LoopInv`, for the loop over the edges: a locked board `b` of the CFO's subsystem is good
  from sub-step `2 * b` of the loop on; in the one before it shows no error and, once it has
  been judged there, has its right edge; in the one before that it shows no error once it has
  been judged (`Settled`). A toggle disturbs boards further down only, and nothing is upstream
  of the first one (`FixInv`), so the boards settle from the head of the chain on, whatever
  the errors look like, and no pass toggles after the last board has settled.
- `EdgesInv` and `BoardInv`: the same registers at the end. While no reboot waits to be
  noticed by the front ends whose pass it is (`Fresh`), a front end that has checked the chain
  has a locked board, one that has applied the offset has it, and the front end with the last
  word on a board (`LastOn`: a detector's, once the detectors' pass has begun) has it set up as
  it should be. A front end's own calls, another front end's, the CFO's, and a reboot
  are lemmas of their own (`OwnKeeps`, `OtherDtcKeeps`, `CfoKeeps`, `BoardKept`).

Three hypotheses are stated in the theorems that need them, and the instance that TLC checks
satisfies all of them. All are about how a system is set up, and come from
`doc/event_building_mode_configure.md`.

- `TopLevel` (`OwnersLinksStay`, `EdgeFixEnds`, `ReadyWhenConfigured`): a gateway above the
  subsystems gives them their turns. Standalone subsystems configure at the same time.
- `Owners` (`OwnersLinksStay`, `ReadyWhenConfigured`): of two front ends of one board, the one
  without real ROCs is next to the CFO, the one with them in a detector's subsystem ("Dual
  DTC instances").
- `Layout` (`ReadyWhenConfigured`): every board has a front end, and every board upstream of one
  that the CFO's subsystem brings up is brought up by it too. Without the first a reboot could
  go unnoticed. Without the second a lock that the CFO has checked ("Reach of the CFO")
  would depend on a board that a detector's front end resets later.

### SharedRunPlanProofs

`SharedRunPlanTypes`, and from `Careful` and `OneTeam` the invariant (`SharedRunPlanInvariant`)
and with it `SharesAreHeld` (`SharesHold`), `NobodyElseIsOn` (`OnlyWhatWasAsked`) and
`ShotsAreComplete` (`ShotsComplete`): all properties of the run, for loops of any sizes nested
to any depth (`NValuesAssumption`: each size is a multiple of those before it, as in
`standardNValues_`), any subsystems, duty cycles, offsets and counts of events.

- `Macros`: what a macro of each kind holds at each of its steps. It needs neither hypothesis.
- `Position`: which event of the plan an operation stands before. The number of the next event
  tells, loop by loop, how many passes are left (`InLoops`) and in which fine slot the program
  is (`SlotOf`); behind the fine loop the number to look at is that of
  the event just past (`Latest`). It is stated for every loop at once instead of by recursion over the
  depth, and one lemma per kind of operation shows that the step to `After(pc)` keeps it.
- `Resting`: a bit that no macro works on has one of four shapes, always on (`FullShape`), never
  (`SilentShape`), in fine slots (`FineShape`) or at the start of a coarse loop (`CoarseShape`).
  A shape ties the words that hold the bit, its share, and when the mode register has it:
  at most (`FineMost`, `CoarseMost`, `NowOK`) as soon as the words are there, exactly
  (`FineExact`, `CoarseExact`) once it has settled. `Fresh` is what a coarse join relies on: the
  AND masks that `Start` has left.
- `MacroOK`: how far the macro has come with its bit. The words before `at` are those of its
  target (`Copied`). The bit of a join is on in slots or in a loop of its duty cycle at most
  (`JoinOK`), that of a leave in those of its old one (`LeaveOK`, `Fading`). A single shot
  (`ShootOK`) keeps count: the events that still have to come are the chunks after this one
  and what is armed in the fine slots ahead (`FineShot`, with `Pending`), or what is left of
  the coarse loop that has been entered (`CoarseShot`, with `Passed`; the tags counted are at
  most the events past, less the one in whose WAIT the CFO still is, `InTag`). The words read
  back at the start are those of all other bits still, because nobody else writes (`Merges`).
- A step of the CFO is a step of each bit alone (`BitTurns`, `Turn`), and a word that is
  written changes the bit in work only (`Untouched`), so that shapes are kept bit by bit.

Two hypotheses, which the instance that TLC checks satisfies.

- `Careful`: teams join only when they are out, with a coarse ratio only when nobody has
  touched their bits since Start, and shoot only when they are out and off. What happens
  otherwise is the finding on the shared plan and the observations of section 4.
- `OneTeam`: one macro at a time. A macro reads the masks when it begins and writes all of them
  later, so that two at once lose updates.

### Only model-checked

Liveness (`PassedHalfEndsRun`, `HaltStops`, `SessionEnds`, `ActivationEnds`) is out of the
prover's reach, as is ENABLED. All other properties of the passing runs are theorems. No
proved module reaches a recursive operator.

## 6. Not modelled

- Contents of events, subevents and images; formatting, logging, status texts, rates. That
  joining two halves can fail is kept as a choice.
- The operator runs one macro of the buffer test of a front end at a time. The flash macros
  do run concurrently with each other (`RocActionLock`).
- Force Clear Action Lock is modelled for a lock that nobody uses any more: pressed at any
  other moment it breaks every property of the lock. Releasing a `std::mutex` from another
  thread than its owner is undefined in C++; the model gives it the usual meaning.
- `RocActionLock` looks at the ROCs of a poll in any order, does not tell the data of equal
  reads apart, and takes the commands of a session for reads. `preflight` is the assumption
  on the options of the flash session; `programFromSPIByIndex` has the shape of `ByAddress`.
- `SharedRunPlan`: two macros at once, custom ranges of bits, the parsing of durations, and the
  text of the plan.
- `TimingChainConfigure`: front ends that skip their initialisation, `emulate_cfo_`, the count
  of first sub-steps; the event building mode alone is in the model but in no run. Liveness
  ("a configure ends") was tried and is too slow for TLC; `EdgeFixConverges` is its safe part.
- `RunTransitions`: the tags of the windows; the loopback mode; the work loop is taken to be
  stopped before `stop()`; a halted system stays halted.
- The remaining components of section 1 and their reasons are in `PROJECT.json`: register
  access, formatting, I/O of libraries, programs for tests on hardware, pages and scripts. The
  emulated ROC's work loop (`RC:557`) and the conversion of durations to clocks (`CORE:708`)
  have logic of their own, but no state that the other parts rely on.

## 7. Plan

1. `SharedRunPlan` with teams at once on plans of disjoint subsystems.
2. `TimingChainConfigure` in the event building mode alone, and the loopback mode.
3. The thread of the emulated ROC; event durations to clocks against a reference definition.
