--------------------------- MODULE BufferTestThread ---------------------------
(***************************************************************************)
(* The life of the detached buffer-test threads of the two DTC front ends  *)
(* of a node: BufferTest_detached (Start, Halt), initDetachedBufferTest as *)
(* the CFO-emulator macros call it, the FSM transition halt, and the       *)
(* skeleton of detachedBufferTestThread.  What the thread does with its    *)
(* data is in DetachedMerge; here it is one step that may throw.           *)
(*                                                                         *)
(* The operator runs one macro at a time; the threads run between any two  *)
(* of its steps.  The fields of the DetachedBufferTestThreadStruct are     *)
(* shared: lock_ covers the assignments of Start, Halt and init and the    *)
(* restart of the thread, and none of the thread's other reads, so the     *)
(* steps here are the accesses between which another thread may come.  The *)
(* places that close the file test fp_, call fclose and clear fp_: three   *)
(* steps, without lock_ except in the restart.                             *)
(* Front end 0 is DTC_0, which may merge: it then also reads the DMA of    *)
(* DTC_1 through otherDTC_, the handle of front end 1.  Front end 2 is the *)
(* CFO of CFOFrontEndInterfaceImpl.cc: its thread and macros have the same *)
(* shape, without the merge and the release flag, and with differences in  *)
(* the read loop and the exception handler that are actions of their own.  *)
(***************************************************************************)
EXTENDS Naturals, FiniteSets

CONSTANTS
  Nodes,    \* the sets of front ends a node may have
  Slot,     \* threads of one front end that may exist at the same time
  Emulating,\* of those, the ones whose operator also uses the macros that start a
            \* buffer test for an emulation or a run plan
  Saving,   \* of those, the ones whose operator may have the data saved to a file
  NoFile    \* the null value of fp_

Dtc == {0, 1}
Cfo == 2
Fe  == Dtc \cup {Cfo}

ASSUME NodesAssumption == Nodes \subseteq SUBSET Fe
ASSUME SlotAssumption == NoFile \notin Slot
ASSUME EmulatingAssumption == Emulating \subseteq Nodes
ASSUME SavingAssumption == Saving \subseteq Nodes

VARIABLES
  node,               \* the front ends of this node
  running,            \* running_
  exitThread,         \* exitThread_
  resetStartEventTag, \* resetStartEventTag_, the mailbox of a restart
  releaseAllComplete, \* releaseAllComplete_, where a macro waits for it: in Emulating
  doNotResetCounters, \* doNotResetCounters_
  saveBinaryData,     \* saveBinaryData_
  merging,            \* mergeMode_ is not Off
  otherDTC,           \* otherDTC_ is not null
  fp,                 \* fp_: the thread that opened the file, or NoFile
  open,               \* files that are open, named by the thread that opened them
  crossed,            \* history: two who close the same file have met, see Meets
  pc,                 \* pc[f][s]: where the thread in slot s of front end f is
  macro,              \* the macro the operator runs
  halted              \* the last Halt has reported that the thread exited, no launch since

fields == <<running, exitThread, resetStartEventTag, releaseAllComplete,
            doNotResetCounters, saveBinaryData, merging, otherDTC>>
file   == <<fp, open, crossed>>
vars   == <<node, fields, file, pc, macro, halted>>

Idle == [name |-> "idle"]

Init ==
  /\ node \in Nodes
  /\ running = [f \in Fe |-> FALSE]
  /\ exitThread = [f \in Fe |-> FALSE]
  /\ resetStartEventTag = [f \in Fe |-> FALSE]
  /\ releaseAllComplete = [f \in Fe |-> FALSE]
  /\ doNotResetCounters = [f \in Fe |-> FALSE]
  /\ saveBinaryData = [f \in Fe |-> FALSE]
  /\ merging = [f \in Fe |-> FALSE]
  /\ otherDTC = [f \in Fe |-> FALSE]
  /\ fp = [f \in Fe |-> NoFile]
  /\ open = [f \in Fe |-> {}]
  /\ crossed = [f \in Fe |-> FALSE]
  /\ pc = [f \in Fe |-> [s \in Slot |-> "none"]]
  /\ macro = Idle
  /\ halted = [f \in Fe |-> FALSE]

-----------------------------------------------------------------------------
(* detachedBufferTestThread                                                 *)

At(f, s, p)   == pc[f][s] = p
GoTo(f, s, p) == pc' = [pc EXCEPT ![f][s] = p]

\* Mutant: the file is forgotten, and stays open.
FcloseForgets(f) == UNCHANGED <<fp, open, crossed>>

\* fclose(fp_), and fp_ = nullptr.
Fclose(f) ==
  /\ open' = [open EXCEPT ![f] = @ \ {fp[f]}]
  /\ UNCHANGED <<fp, crossed>>

Clears(f) ==
  /\ fp' = [fp EXCEPT ![f] = NoFile]
  /\ UNCHANGED <<open, crossed>>

\* The three steps of a thread that closes its file, from place p to place q.
TestsFile(f, s, p, closing, q) ==
  /\ At(f, s, p)
  /\ GoTo(f, s, IF fp[f] = NoFile THEN q ELSE closing)
  /\ UNCHANGED <<fields, macro, halted>>

ClosesFile(f, s, closing, closed) ==
  /\ At(f, s, closing)
  /\ Fclose(f)
  /\ GoTo(f, s, closed)
  /\ UNCHANGED <<fields, macro, halted>>

ClearsFile(f, s, closed, q) ==
  /\ At(f, s, closed)
  /\ Clears(f)
  /\ GoTo(f, s, q)
  /\ UNCHANGED <<fields, macro, halted>>

\* fopen succeeds, or fails and the thread throws.
OpenFile(f, s, p) ==
  /\ UNCHANGED crossed
  /\ \/ /\ open' = [open EXCEPT ![f] = @ \cup {s}]
        /\ fp' = [fp EXCEPT ![f] = s]
        /\ GoTo(f, s, p)
     \/ /\ fp' = [fp EXCEPT ![f] = NoFile]
        /\ UNCHANGED open
        /\ GoTo(f, s, "catch")

\* The handler of a thread is still to look at fp_, or to close or clear it.
Handling == {"caught", "caughtClosing", "caughtClosed"}
HandlerLeft(f) == \E s \in Slot : pc[f][s] \in Handling

\* History: whoever has just tested fp_ has found a file that others use or close.
Meets(f, others) ==
  /\ crossed' = [crossed EXCEPT ![f] = @ \/ (fp[f] # NoFile /\ others)]
  /\ UNCHANGED <<fp, open>>

\* The thread that holds lock_ is in its restart.
Locked(f) == \E s \in Slot : pc[f][s] \in {"restartClosing", "restartClosed", "restartOpens"}

\* "Impossible?! File pointer already initialized?"
FindsFile(f, s) ==
  /\ At(f, s, "start")
  /\ fp[f] # NoFile
  /\ GoTo(f, s, "catch")
  /\ UNCHANGED <<fields, file, macro, halted>>

OpensFile(f, s) ==
  /\ At(f, s, "start")
  /\ fp[f] = NoFile
  /\ IF saveBinaryData[f] THEN OpenFile(f, s, "release")
     ELSE GoTo(f, s, "release") /\ UNCHANGED file
  /\ UNCHANGED <<fields, macro, halted>>

\* releaseAllComplete_ is cleared and ReleaseAllBuffers is under way, at the start of the
\* thread and at every restart.
Release(f, s) ==
  /\ pc[f][s] \in {"release", "releaseAgain"}
  /\ releaseAllComplete' = [releaseAllComplete EXCEPT ![f] = FALSE]
  /\ GoTo(f, s, IF At(f, s, "release") THEN "releasing" ELSE "releasingAgain")
  /\ UNCHANGED <<running, exitThread, resetStartEventTag, doNotResetCounters,
                 saveBinaryData, merging, otherDTC, file, macro, halted>>

\* mergeMode_ and otherDTC_ are looked at, then the handle is used.
Borrows(f) == merging[f] /\ otherDTC[f]

ReleaseOther(f, s) ==
  /\ pc[f][s] \in {"releasing", "releasingAgain"}
  /\ Borrows(f)
  /\ GoTo(f, s, IF At(f, s, "releasing") THEN "releasingOther" ELSE "releasingOtherAgain")
  /\ UNCHANGED <<fields, file, macro, halted>>

Released(f, s) ==
  /\ \/ pc[f][s] \in {"releasing", "releasingAgain"} /\ ~Borrows(f)
     \/ pc[f][s] \in {"releasingOther", "releasingOtherAgain"}
  /\ releaseAllComplete' = [releaseAllComplete EXCEPT ![f] = node \in Emulating]
  /\ GoTo(f, s, IF pc[f][s] \in {"releasing", "releasingOther"} THEN "top" ELSE "check")
  /\ UNCHANGED <<running, exitThread, resetStartEventTag, doNotResetCounters,
                 saveBinaryData, merging, otherDTC, file, macro, halted>>

\* The loop: exitThread_, then the mailbox, then exitThread_ again.
Top(f, s) ==
  /\ At(f, s, "top")
  /\ GoTo(f, s, IF exitThread[f] THEN "close" ELSE "mailbox")
  /\ UNCHANGED <<fields, file, macro, halted>>

NoMail(f, s) ==
  /\ At(f, s, "mailbox")
  /\ ~resetStartEventTag[f]
  /\ GoTo(f, s, "check")
  /\ UNCHANGED <<fields, file, macro, halted>>

MailboxRead(f) ==
  /\ resetStartEventTag' = [resetStartEventTag EXCEPT ![f] = FALSE]
  /\ UNCHANGED <<running, exitThread, releaseAllComplete, doNotResetCounters,
                 saveBinaryData, merging, otherDTC>>

\* The restart, under lock_: the file is closed and opened again, or, when the counters
\* are kept, closed if nothing is to be saved any more.
RestartCloses(f) == fp[f] # NoFile /\ ~(doNotResetCounters[f] /\ saveBinaryData[f])

RestartTests(f, s) ==
  /\ At(f, s, "mailbox")
  /\ resetStartEventTag[f]
  /\ GoTo(f, s, IF RestartCloses(f) THEN "restartClosing" ELSE "restartOpens")
  /\ UNCHANGED <<fields, file, macro, halted>>

\* fopen, or not; then the mailbox is cleared.  A restart that throws leaves it set.
RestartOpens(f, s) ==
  /\ At(f, s, "restartOpens")
  /\ IF saveBinaryData[f] /\ ~doNotResetCounters[f]
     THEN OpenFile(f, s, "releaseAgain")
     ELSE GoTo(f, s, "releaseAgain") /\ UNCHANGED file
  /\ IF pc'[f][s] = "catch" THEN UNCHANGED fields ELSE MailboxRead(f)
  /\ UNCHANGED <<macro, halted>>

Restart(f, s) ==
  \/ RestartTests(f, s)
  \/ ClosesFile(f, s, "restartClosing", "restartClosed")
  \/ ClearsFile(f, s, "restartClosed", "restartOpens")
  \/ RestartOpens(f, s)

\* The own DMA is read, then the decision whether DTC_1 is read too.
Check(f, s) ==
  /\ At(f, s, "check")
  /\ GoTo(f, s, IF exitThread[f] THEN "close" ELSE IF Borrows(f) THEN "drainOther" ELSE "handle")
  /\ UNCHANGED <<fields, file, macro, halted>>

DrainOther(f, s) ==
  /\ At(f, s, "drainOther")
  /\ GoTo(f, s, "handle")
  /\ UNCHANGED <<fields, file, macro, halted>>

Handle(f, s) ==
  /\ At(f, s, "handle")
  /\ GoTo(f, s, "top")
  /\ UNCHANGED <<fields, file, macro, halted>>

\* A read or the handling of the data throws.
Throws(f, s) ==
  /\ pc[f][s] \in {"check", "drainOther", "handle", "releasing", "releasingAgain",
                   "releasingOther", "releasingOtherAgain"}
  /\ GoTo(f, s, "catch")
  /\ UNCHANGED <<fields, file, macro, halted>>

\* The end of the loop: the file is closed, then running_ is cleared.
Closes(f, s) ==
  \/ TestsFile(f, s, "close", "closing", "exit") /\ UNCHANGED file
  \/ ClosesFile(f, s, "closing", "closed")
  \/ ClearsFile(f, s, "closed", "exit")

StopsRunning(f) ==
  /\ running' = [running EXCEPT ![f] = FALSE]
  /\ UNCHANGED <<exitThread, resetStartEventTag, releaseAllComplete, doNotResetCounters,
                 saveBinaryData, merging, otherDTC>>

\* Mutant: the loop ends without a word.
ExitsStillRunning(f, s) ==
  /\ At(f, s, "exit")
  /\ GoTo(f, s, "none")
  /\ UNCHANGED <<fields, file, macro, halted>>

Exits(f, s) ==
  /\ At(f, s, "exit")
  /\ StopsRunning(f)
  /\ GoTo(f, s, "none")
  /\ UNCHANGED <<file, macro, halted>>

\* After an exception it is the other way round, with the spy of the DMA in between.
Catches(f, s) ==
  /\ At(f, s, "catch")
  /\ StopsRunning(f)
  /\ GoTo(f, s, "caught")
  /\ UNCHANGED <<file, macro, halted>>

CatchCloses(f, s) ==
  \/ /\ TestsFile(f, s, "caught", "caughtClosing", "caughtOther")
     /\ Meets(f, running[f] \/ \E r \in Slot \ {s} : pc[f][r] \in Handling)
  \/ ClosesFile(f, s, "caughtClosing", "caughtClosed")
  \/ ClearsFile(f, s, "caughtClosed", "caughtOther")

\* The handler of a merge of two event builders looks at otherDTC_ and reads the status of
\* DTC_1 for its report.
CatchLooks(f, s) ==
  /\ At(f, s, "caughtOther")
  /\ \/ Borrows(f) /\ GoTo(f, s, "caughtReading")
     \/ GoTo(f, s, "none")
  /\ UNCHANGED <<fields, file, macro, halted>>

CatchReads(f, s) ==
  /\ At(f, s, "caughtReading")
  /\ GoTo(f, s, "none")
  /\ UNCHANGED <<fields, file, macro, halted>>

\* The thread of a DTC front end.
DtcThread(f, s) ==
  \/ FindsFile(f, s) \/ OpensFile(f, s)
  \/ Release(f, s) \/ ReleaseOther(f, s) \/ Released(f, s)
  \/ Top(f, s) \/ NoMail(f, s) \/ Restart(f, s)
  \/ Check(f, s) \/ DrainOther(f, s) \/ Handle(f, s) \/ Throws(f, s)
  \/ Closes(f, s) \/ Exits(f, s) \/ Catches(f, s)
  \/ CatchCloses(f, s) \/ CatchLooks(f, s) \/ CatchReads(f, s)

-----------------------------------------------------------------------------
(* CFOFrontEndInterface::detechedBufferTestThread                           *)

CfoOpens(s) == FindsFile(Cfo, s) \/ OpensFile(Cfo, s)

\* ReleaseAllBuffers, of which nothing is reported.
CfoReleases(s) ==
  /\ pc[Cfo][s] \in {"release", "releaseAgain"}
  /\ GoTo(Cfo, s, IF At(Cfo, s, "release") THEN "top" ELSE "check")
  /\ UNCHANGED <<fields, file, macro, halted>>

CfoLoops(s) == Top(Cfo, s) \/ NoMail(Cfo, s)

CfoRestarts(s) == Restart(Cfo, s)

\* The DMA is read until it is empty, and exitThread_ is not looked at before.  A read
\* may throw.
CfoReads(s) ==
  /\ At(Cfo, s, "check")
  /\ \E p \in {"handle", "top", "catch"} : GoTo(Cfo, s, p)
  /\ UNCHANGED <<fields, file, macro, halted>>

\* handleDetachedSubevent: a record that is not the next in order throws.
CfoHandles(s) ==
  /\ At(Cfo, s, "handle")
  /\ \E p \in {"check", "catch"} : GoTo(Cfo, s, p)
  /\ UNCHANGED <<fields, file, macro, halted>>

CfoEnds(s) == Closes(Cfo, s) \/ Exits(Cfo, s)

\* The handler clears running_ and leaves the file open: the next Start meets it, unless
\* a Halt has closed it.
CfoCatches(s) ==
  /\ At(Cfo, s, "catch")
  /\ StopsRunning(Cfo)
  /\ GoTo(Cfo, s, "none")
  /\ UNCHANGED <<file, macro, halted>>

CfoThread(s) ==
  \/ CfoOpens(s) \/ CfoReleases(s) \/ CfoLoops(s) \/ CfoRestarts(s)
  \/ CfoReads(s) \/ CfoHandles(s) \/ CfoEnds(s) \/ CfoCatches(s)

Thread(f, s) == IF f \in Dtc THEN DtcThread(f, s) ELSE CfoThread(s)

-----------------------------------------------------------------------------
(* The macros                                                               *)

\* Mutant: nobody asks who reads this DTC's DMA.
AnyReader(f) == TRUE

\* requireNoMergeReaderOnThisDTC: the other front end does not read this DTC's DMA.
NoMergeReader(f) == \A g \in Dtc \ {f} : ~(running[g] /\ Borrows(g) /\ f = 1)

\* A merge runs on DTC_0, with a front end of DTC_1 whose own thread does not run.
MergeAllowed(f) == f = 0 /\ 1 \in node /\ ~running[1]

\* The new thread goes to a free slot; there is always one in the model.
Spawn(f) ==
  /\ \E s \in Slot : At(f, s, "none")
  /\ GoTo(f, CHOOSE s \in Slot : At(f, s, "none"), "start")

\* saveBinaryData_, as the operator asks.
Saves(f) ==
  \E b \in BOOLEAN :
    /\ b => node \in Saving
    /\ saveBinaryData' = [saveBinaryData EXCEPT ![f] = b]

\* Mutant: Start does not look at running_.
StartChecksNothing(f) ==
  /\ macro = Idle
  /\ NoMergeReader(f)
  /\ \E m \in BOOLEAN :
       /\ m => MergeAllowed(f)
       /\ macro' = [name |-> "start", fe |-> f, merge |-> m]
  /\ UNCHANGED <<fields, file, pc, halted>>

\* BufferTest_detached(Start): the checks, without lock_.
StartChecks(f) ==
  /\ macro = Idle
  /\ ~running[f]
  /\ NoMergeReader(f)
  /\ \E m \in BOOLEAN :
       /\ m => MergeAllowed(f)
       /\ macro' = [name |-> "start", fe |-> f, merge |-> m]
  /\ UNCHANGED <<fields, file, pc, halted>>

\* The assignments under lock_, and the launch.
StartLaunches(f) ==
  /\ macro.name = "start" /\ macro.fe = f
  /\ ~Locked(f)
  /\ exitThread' = [exitThread EXCEPT ![f] = FALSE]
  /\ resetStartEventTag' = [resetStartEventTag EXCEPT ![f] = FALSE]
  /\ merging' = [merging EXCEPT ![f] = macro.merge]
  /\ otherDTC' = [otherDTC EXCEPT ![f] = macro.merge]
  /\ running' = [running EXCEPT ![f] = TRUE]
  /\ Saves(f)
  /\ UNCHANGED <<releaseAllComplete, doNotResetCounters>>
  /\ Spawn(f)
  /\ macro' = Idle
  /\ halted' = [halted EXCEPT ![f] = FALSE]
  /\ UNCHANGED file

\* BufferTest_detached(Halt)
HaltAsks(f) ==
  /\ macro = Idle
  /\ ~Locked(f)
  /\ exitThread' = [exitThread EXCEPT ![f] = TRUE]
  /\ macro' = [name |-> "halt", fe |-> f]
  /\ UNCHANGED <<running, resetStartEventTag, releaseAllComplete, doNotResetCounters,
                 saveBinaryData, merging, otherDTC, file, pc, halted>>

\* running_ has become FALSE, or has not for ten times 100 ms: a file that is still open
\* is closed in either case, whoever else is about to.
HaltTests(f) ==
  /\ macro.name = "halt" /\ macro.fe = f
  /\ macro' = [name |-> IF fp[f] = NoFile THEN "halted" ELSE "haltClosing", fe |-> f]
  /\ Meets(f, running[f] \/ HandlerLeft(f))
  /\ UNCHANGED <<fields, pc, halted>>

HaltCloses(f) ==
  \/ HaltTests(f)
  \/ /\ macro.name = "haltClosing" /\ macro.fe = f
     /\ Fclose(f)
     /\ macro' = [name |-> "haltClosed", fe |-> f]
     /\ UNCHANGED <<fields, pc, halted>>
  \/ /\ macro.name = "haltClosed" /\ macro.fe = f
     /\ Clears(f)
     /\ macro' = [name |-> "halted", fe |-> f]
     /\ UNCHANGED <<fields, pc, halted>>

\* Mutant: DTC_1 is handed back whether or not the thread is gone.
HaltReportsAnyway(f) ==
  /\ macro.name = "halted" /\ macro.fe = f
  /\ halted' = [halted EXCEPT ![f] = ~running[f]]
  /\ otherDTC' = [otherDTC EXCEPT ![f] = FALSE]
  /\ macro' = Idle
  /\ UNCHANGED <<running, exitThread, resetStartEventTag, releaseAllComplete,
                 doNotResetCounters, saveBinaryData, merging, file, pc>>

\* Mutant: DTC_1 is not handed back.
HaltKeepsHandle(f) ==
  /\ macro.name = "halted" /\ macro.fe = f
  /\ halted' = [halted EXCEPT ![f] = ~running[f]]
  /\ macro' = Idle
  /\ UNCHANGED <<fields, file, pc>>

\* "only once the thread is gone": the handle of DTC_1 is dropped.
HaltReports(f) ==
  /\ macro.name = "halted" /\ macro.fe = f
  /\ halted' = [halted EXCEPT ![f] = ~running[f]]
  /\ otherDTC' = [otherDTC EXCEPT ![f] = @ /\ (running[f] \/ ~merging[f])]
  /\ macro' = Idle
  /\ UNCHANGED <<running, exitThread, resetStartEventTag, releaseAllComplete,
                 doNotResetCounters, saveBinaryData, merging, file, pc>>

\* The FSM transition of the DTC front ends: exitThread_ only.  The one of the CFO does
\* not touch its thread.
FsmHalt ==
  /\ exitThread' = [f \in Fe |-> f \in node \cap Dtc \/ exitThread[f]]
  /\ UNCHANGED <<running, resetStartEventTag, releaseAllComplete, doNotResetCounters,
                 saveBinaryData, merging, otherDTC, file, pc, macro, halted>>

\* initDetachedBufferTest, called by a CFO-emulator macro: the checks.
InitChecks(f) ==
  /\ node \in Emulating
  /\ macro = Idle
  /\ NoMergeReader(f)
  /\ macro' = [name |-> "init", fe |-> f, restart |-> running[f]]
  /\ UNCHANGED <<fields, file, pc, halted>>

\* The assignments under lock_: a restart of the running thread, or a launch.
InitAssigns(f) ==
  /\ macro.name = "init" /\ macro.fe = f
  /\ ~Locked(f)
  /\ exitThread' = [exitThread EXCEPT ![f] = FALSE]
  /\ resetStartEventTag' = [resetStartEventTag EXCEPT ![f] = macro.restart]
  /\ releaseAllComplete' = [releaseAllComplete EXCEPT ![f] = FALSE]
  /\ merging' = [merging EXCEPT ![f] = FALSE]
  /\ otherDTC' = [otherDTC EXCEPT ![f] = FALSE]
  /\ Saves(f)
  /\ \E b \in BOOLEAN :
       doNotResetCounters' = [doNotResetCounters EXCEPT ![f] = macro.restart /\ b]
  /\ IF macro.restart THEN UNCHANGED <<running, pc>>
     ELSE running' = [running EXCEPT ![f] = TRUE] /\ Spawn(f)
  /\ macro' = [name |-> "inited", fe |-> f]
  /\ halted' = [halted EXCEPT ![f] = FALSE]
  /\ UNCHANGED file

\* SetCFOEmulatorFixedWidthEmulation throws at a duration it cannot use, or waits for
\* releaseAllComplete_ if the thread runs ...
EmulationPrepares(f) ==
  /\ macro.name = "inited" /\ macro.fe = f
  /\ macro' \in {Idle, IF running[f] THEN [name |-> "wait", fe |-> f] ELSE Idle}
  /\ UNCHANGED <<fields, file, pc, halted>>

\* ... and then enables the emulation,
EmulationStarts(f) ==
  /\ macro.name = "wait" /\ macro.fe = f
  /\ releaseAllComplete[f]
  /\ macro' = Idle
  /\ UNCHANGED <<fields, file, pc, halted>>

\* or throws when the release takes more than 7 s.
EmulationTimesOut(f) ==
  /\ macro.name = "wait" /\ macro.fe = f
  /\ ~releaseAllComplete[f]
  /\ macro' = Idle
  /\ UNCHANGED <<fields, file, pc, halted>>

\* SetCFOEmulatorOnOffSpillEmulation enables the emulation whatever the thread does.
OnOffStarts(f) ==
  /\ macro.name = "inited" /\ macro.fe = f
  /\ macro' = Idle
  /\ UNCHANGED <<fields, file, pc, halted>>

DtcOperator(f) ==
  \/ StartChecks(f) \/ StartLaunches(f)
  \/ HaltAsks(f) \/ HaltCloses(f) \/ HaltReports(f)
  \/ InitChecks(f) \/ InitAssigns(f)
  \/ EmulationPrepares(f) \/ EmulationStarts(f) \/ EmulationTimesOut(f)
  \/ OnOffStarts(f)

\* BufferTest_detached of the CFO.  The launch also clears doNotResetCounters_.
CfoStarts ==
  \/ StartChecks(Cfo)
  \/ /\ macro.name = "start" /\ macro.fe = Cfo
     /\ ~Locked(Cfo)
     /\ exitThread' = [exitThread EXCEPT ![Cfo] = FALSE]
     /\ resetStartEventTag' = [resetStartEventTag EXCEPT ![Cfo] = FALSE]
     /\ running' = [running EXCEPT ![Cfo] = TRUE]
     /\ doNotResetCounters' = [doNotResetCounters EXCEPT ![Cfo] = FALSE]
     /\ Saves(Cfo)
     /\ Spawn(Cfo)
     /\ macro' = Idle
     /\ halted' = [halted EXCEPT ![Cfo] = FALSE]
     /\ UNCHANGED <<releaseAllComplete, merging, otherDTC, file>>

CfoHalts == HaltAsks(Cfo) \/ HaltCloses(Cfo) \/ HaltReports(Cfo)

\* initDetachedBufferTest of the CFO, called by a template run plan, which is launched
\* after it.
CfoInits == InitChecks(Cfo) \/ InitAssigns(Cfo)

CfoPlanStarts ==
  /\ macro.name = "inited" /\ macro.fe = Cfo
  /\ macro' = Idle
  /\ UNCHANGED <<fields, file, pc, halted>>

Operator ==
  \/ \E f \in node \cap Dtc : DtcOperator(f)
  \/ Cfo \in node /\ (CfoStarts \/ CfoHalts \/ CfoInits \/ CfoPlanStarts)
  \/ FsmHalt

Next ==
  /\ Operator \/ \E f \in node, s \in Slot : Thread(f, s)
  /\ UNCHANGED node

Spec == Init /\ [][Next]_vars

\* Every thread is scheduled, and the calls it makes into the DTC library return.
FairSpec ==
  Spec /\ \A f \in Fe, s \in Slot : WF_vars(f \in node /\ Thread(f, s) /\ UNCHANGED node)

-----------------------------------------------------------------------------
Places == {"none", "start", "release", "releasing", "releasingOther", "releaseAgain",
           "releasingAgain", "releasingOtherAgain", "top", "mailbox", "check", "drainOther",
           "handle", "restartClosing", "restartClosed", "restartOpens", "close", "closing",
           "closed", "exit", "catch", "caught", "caughtClosing", "caughtClosed",
           "caughtOther", "caughtReading"}

TypeOK ==
  /\ node \in Nodes
  /\ \A v \in {running, exitThread, resetStartEventTag, releaseAllComplete,
               doNotResetCounters, saveBinaryData, merging, otherDTC} : v \in [Fe -> BOOLEAN]
  /\ \A f \in Fe \ {0} : ~merging[f]
  /\ fp \in [Fe -> Slot \cup {NoFile}]
  /\ open \in [Fe -> SUBSET Slot]
  /\ crossed \in [Fe -> BOOLEAN]
  /\ pc \in [Fe -> [Slot -> Places]]
  /\ macro = Idle \/ macro.fe \in Fe
  /\ halted \in [Fe -> BOOLEAN]

\* A thread between its launch and the clearing of running_.
Gone        == {"none", "caughtOther", "caughtReading"} \cup Handling
Running(f)  == {s \in Slot : pc[f][s] \notin Gone}
Borrowing   == {"releasingOther", "releasingOtherAgain", "drainOther"}

\* Somebody is about to call fclose, or has called it and is about to clear fp_.
Fclosing(f) ==
  \/ \E s \in Slot : pc[f][s] \in {"closing", "caughtClosing", "restartClosing"}
  \/ macro.name = "haltClosing" /\ macro.fe = f
Clearing(f) ==
  \/ \E s \in Slot : pc[f][s] \in {"closed", "caughtClosed", "restartClosed"}
  \/ macro.name = "haltClosed" /\ macro.fe = f

\* One thread at most reads for a front end, and running_ says whether there is one,
\* through launches, restarts of a thread that is just leaving, halts and exceptions.
OneThreadRuns ==
  \A f \in Fe : Cardinality(Running(f)) = IF running[f] THEN 1 ELSE 0

\* A thread writes only into the file it has opened, even while the handler of an earlier
\* thread is still to close its own.  As long as a launch has not met such a handler, and
\* Halt has not met a thread or a handler that is still to close the file, no file stays
\* open without fp_, fp_ never names a file that has been closed except until it is
\* cleared, and whoever calls fclose (the thread, its handler, a restart or Halt) and
\* whoever writes finds the file open.
FileAccounted ==
  \A f \in Fe :
    /\ \A s \in Slot : At(f, s, "handle") => fp[f] \in {s, NoFile}
    /\ ~crossed[f] =>
         /\ open[f] = IF Clearing(f) THEN {} ELSE {fp[f]} \ {NoFile}
         /\ Fclosing(f) => fp[f] \in open[f]
         /\ \A s \in Slot : At(f, s, "handle") => fp[f] \in open[f] \cup {NoFile}

\* DTC: once Halt has reported that the thread has exited, and until the next launch, no thread
\* reads for events, DTC_1 has been handed back, and a file is only open while an exception
\* handler is still to close it.
HaltLeavesNothing ==
  \A f \in Dtc : halted[f] =>
    /\ Running(f) = {}
    /\ ~Borrows(f)
    /\ fp[f] # NoFile => HandlerLeft(f)

\* A thread that is about to use otherDTC_ in its loop finds the handle it has looked at
\* before, although Halt drops the handle without lock_.
HandleHeld ==
  \A f \in Fe, s \in Slot : pc[f][s] \in Borrowing => otherDTC[f]

\* "hand DTC_1 back; only once the thread is gone": whoever is about to use otherDTC_ finds
\* it, the exception handler of the thread too.  It fails: the handler clears running_
\* before it looks at otherDTC_, and a Halt that sees running_ cleared drops the handle
\* between the look and the use.
HandedBackWhenGone ==
  \A f \in Fe, s \in Slot : pc[f][s] \in Borrowing \cup {"caughtReading"} => otherDTC[f]

\* The DMA of DTC_1 has one reader: the merge thread of front end 0 or its own.
OneReaderOfDTC1 ==
  (\E s \in Slot : pc[0][s] \in Borrowing) => Running(1) = {}

\* A halt ends the thread: it is gone, unless a new start takes the halt back.  Only the
\* thread of the CFO may go on, as long as its DMA has data.  Of two DTCs it is stated for
\* DTC_0, whose thread may merge.
HaltStops ==
  LET f == CHOOSE g \in node : 1 # g
  IN  (exitThread[f] /\ running[f]) ~>
        (~running[f] \/ ~exitThread[f] \/ \E s \in Slot : f = Cfo /\ At(f, s, "handle"))
=============================================================================
