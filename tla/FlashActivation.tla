--------------------------- MODULE FlashActivation ---------------------------
(***************************************************************************)
(* FlashSession::activate (RocFlashProgrammer.h): every verified ROC is    *)
(* asked to program its FPGA from the SPI flash (IAP), then all of them    *)
(* are polled in turn until each has restarted, refused, or run out of     *)
(* time.  A poll is three register reads, and the ROC may change between   *)
(* any two of them.                                                        *)
(*                                                                         *)
(* The ROC and its link are modelled from what the session and its         *)
(* comments expect: the MiV takes the command within 200 ms and clears     *)
(* PROG_RETURN, the link drops while the FPGA restarts, the DTC then       *)
(* latches the link error and refuses every access to this ROC until a     *)
(* SoftReset, which resyncLink performs for the whole DTC, and some links  *)
(* come back only after such a reset.  writeROCBlock asks for no           *)
(* acknowledgement, so the command may be lost unnoticed, and an access    *)
(* may fail at any time.  Time is a level that rises while the session     *)
(* polls; a level is passed only between two sweeps over the ROCs.         *)
(***************************************************************************)
EXTENDS Naturals, FiniteSets

CONSTANTS
  Selected,        \* the ROCs that are selected
  OldVersion,      \* firmware version running before the IAP
  ImageVersion,    \* version of the image in the flash
  Expected,        \* expectedFwVersion; 0: do not check
  LinkResyncTries, \* linkResyncTries
  MaxFaults        \* bound: failed or lost accesses

ASSUME VersionAssumption == OldVersion \in Nat \ {0} /\ ImageVersion \in Nat \ {0} /\ Expected \in Nat
ASSUME LimitAssumption   == LinkResyncTries \in Nat /\ MaxFaults \in Nat
ASSUME RocAssumption     == "none" \notin Selected

\* Levels of time since the requests, with the default options: 200 ms, one level for
\* every linkResyncAfterMs, authTimeoutMs with the third of them, linkBackTimeoutMs.
Taken(t)      == t >= 1
ResyncDue(t, n) == t >= n + 2
AuthOver(t)   == t >= 4
BackOver(t)   == t >= 5
MaxTime       == 5

VARIABLES
  \* the ROC
  miv,       \* register 128: "done", "busy" (0x4000), or "fresh" (0, nothing run yet)
  ret,       \* register 132, PROG_RETURN: 0 or an error
  version,   \* the firmware version register
  command,   \* the IAP command has arrived and waits for the MiV
  up,        \* the FPGA runs and its side of the link is up
  stuck,     \* the link needs a reset on the DTC side
  latched,   \* the DTC has latched a link error and refuses accesses to this ROC
  restarts,  \* history: how often the FPGA has restarted
  \* the session
  state,     \* RocResult::state
  verBefore, \* verBefore_
  toSend,    \* ROCs the request still has to be sent to
  sent, finished, wentDown, resyncs,
  sweep,     \* ROCs not yet polled in this sweep
  polled,    \* the ROC being polled, and the registers read so far
  time,      \* level of time since the requests
  ended,     \* activate() has returned
  faults     \* failed and lost accesses so far

roc            == <<miv, ret, version, command, up, stuck, latched, restarts>>
sessionVars    == <<state, verBefore, toSend, sent, finished, wentDown, resyncs, sweep, polled, ended>>
activationVars == <<roc, sessionVars, time, faults>>

NoPoll == [roc |-> "none"]

ActivationInit ==
  /\ miv = [r \in Selected |-> "done"]
  /\ ret \in [Selected -> {0, 1}]
  /\ version = [r \in Selected |-> OldVersion]
  /\ command = [r \in Selected |-> FALSE]
  /\ up = [r \in Selected |-> TRUE]
  /\ stuck = [r \in Selected |-> FALSE]
  /\ latched = [r \in Selected |-> FALSE]
  /\ restarts = [r \in Selected |-> 0]
  /\ \E go \in SUBSET Selected :
       /\ state = [r \in Selected |-> IF r \in go THEN "Verified" ELSE "Failed"]
       /\ toSend = go
  /\ verBefore = [r \in Selected |-> 0]
  /\ sent = {} /\ finished = {} /\ wentDown = {}
  /\ resyncs = [r \in Selected |-> 0]
  /\ sweep = {}
  /\ polled = NoPoll
  /\ time = 0
  /\ ended = FALSE
  /\ faults = 0

-----------------------------------------------------------------------------
(* The ROC                                                                  *)

MivTakes(r) ==
  /\ up[r] /\ command[r] /\ miv[r] # "busy"
  /\ command' = [command EXCEPT ![r] = FALSE]
  /\ miv' = [miv EXCEPT ![r] = "busy"]
  /\ ret' = [ret EXCEPT ![r] = 0]
  /\ UNCHANGED <<version, up, stuck, latched, restarts, sessionVars, time, faults>>

\* The IAP service authenticates the image or returns an error.
Refuses(r) ==
  /\ up[r] /\ miv[r] = "busy"
  /\ miv' = [miv EXCEPT ![r] = "done"]
  /\ ret' = [ret EXCEPT ![r] = 1]
  /\ UNCHANGED <<version, command, up, stuck, latched, restarts, sessionVars, time, faults>>

GoesDown(r) ==
  /\ up[r] /\ miv[r] = "busy"
  /\ up' = [up EXCEPT ![r] = FALSE]
  /\ latched' = [latched EXCEPT ![r] = TRUE]
  /\ stuck' \in {stuck, [stuck EXCEPT ![r] = TRUE]}
  /\ UNCHANGED <<miv, ret, version, command, restarts, sessionVars, time, faults>>

\* The FPGA starts with the new image, or with the old one when the new one did not load.
ComesBack(r) ==
  /\ ~up[r]
  /\ up' = [up EXCEPT ![r] = TRUE]
  /\ miv' = [miv EXCEPT ![r] = "fresh"]
  /\ ret' = [ret EXCEPT ![r] = 0]
  /\ \E v \in {OldVersion, ImageVersion} : version' = [version EXCEPT ![r] = v]
  /\ restarts' = [restarts EXCEPT ![r] = @ + 1]
  /\ UNCHANGED <<command, stuck, latched, sessionVars, time, faults>>

Answers(r) == up[r] /\ ~stuck[r] /\ ~latched[r]

-----------------------------------------------------------------------------
(* The requests                                                             *)

FailRoc(r) == state' = [state EXCEPT ![r] = "Failed"]

\* sendWhenIdle: the MiV is idle before the request, and the command arrives or is lost.
Request(r) ==
  /\ r \in toSend
  /\ toSend' = toSend \ {r}
  /\ verBefore' = [verBefore EXCEPT ![r] = version[r]]
  /\ sent' = sent \cup {r}
  /\ \/ command' = [command EXCEPT ![r] = TRUE] /\ UNCHANGED faults
     \/ faults < MaxFaults /\ faults' = faults + 1 /\ UNCHANGED command
  /\ UNCHANGED <<miv, ret, version, up, stuck, latched, restarts, state, finished, wentDown,
                 resyncs, sweep, polled, ended, time>>

\* An access throws, or the MiV is not idle.  The command may have arrived all the same.
RequestFails(r) ==
  /\ r \in toSend
  /\ toSend' = toSend \ {r}
  /\ faults < MaxFaults
  /\ faults' = faults + 1
  /\ FailRoc(r)
  /\ command' \in {command, [command EXCEPT ![r] = TRUE]}
  /\ UNCHANGED <<miv, ret, version, up, stuck, latched, restarts, verBefore, sent, finished,
                 wentDown, resyncs, sweep, polled, ended, time>>

-----------------------------------------------------------------------------
(* The polls                                                                *)

Pending == sent \ finished

\* The next sweep, or the end of activate().
StartSweep ==
  /\ toSend = {} /\ sweep = {} /\ polled = NoPoll /\ ~ended
  /\ sweep' = Pending
  /\ ended' = (Pending = {})
  /\ UNCHANGED <<roc, state, verBefore, toSend, sent, finished, wentDown, resyncs, polled,
                 time, faults>>

\* Time passes between the sweeps, but 200 ms not before the MiV has taken its command.
TimePasses ==
  /\ toSend = {} /\ sweep = {} /\ polled = NoPoll /\ ~ended
  /\ time < MaxTime
  /\ time = 0 => \A r \in Selected : ~command[r] \/ ~up[r]
  /\ time' = time + 1
  /\ UNCHANGED <<roc, sessionVars, faults>>

ReadDone(r) ==
  /\ r \in sweep /\ polled = NoPoll
  /\ Answers(r)
  /\ sweep' = sweep \ {r}
  /\ polled' = [roc |-> r, done |-> miv[r], next |-> "ret"]
  /\ UNCHANGED <<roc, state, verBefore, toSend, sent, finished, wentDown, resyncs, ended,
                 time, faults>>

ReadRet(r) ==
  /\ polled.roc = r /\ polled.next = "ret"
  /\ Answers(r)
  /\ polled' = [roc |-> r, done |-> polled.done, ret |-> ret[r], next |-> "version"]
  /\ UNCHANGED <<roc, state, verBefore, toSend, sent, finished, wentDown, resyncs, sweep, ended,
                 time, faults>>

\* Success needs the link to have gone down or the version to have become the expected one.
Restarted(r, v) ==
  \/ r \in wentDown
  \/ Expected # 0 /\ v = Expected /\ v # verBefore[r]

\* Mutants: a version that is not the expected one is accepted; PROG_RETURN is judged
\* before the MiV has had its 200 ms.
JudgeAnyVersion(r, done, pr, v) ==
  CASE r \notin wentDown /\ done = "done" /\ pr # 0 /\ Taken(time) -> "Failed"
    [] done = "busy" \/ pr # 0 -> "pending"
    [] Restarted(r, v) -> "Programmed"
    [] OTHER -> "pending"
JudgeAtOnce(r, done, pr, v) ==
  CASE r \notin wentDown /\ done = "done" /\ pr # 0 -> "Failed"
    [] done = "busy" \/ pr # 0 -> "pending"
    [] Restarted(r, v) /\ (Expected = 0 \/ v = Expected) -> "Programmed"
    [] Restarted(r, v) /\ BackOver(time) -> "Failed"
    [] OTHER -> "pending"

\* The decision on the three values read, for a ROC that answered.
Judge(r, done, pr, v) ==
  CASE r \notin wentDown /\ done = "done" /\ pr # 0 /\ Taken(time) -> "Failed"
    [] done = "busy" \/ pr # 0 -> "pending"
    [] Restarted(r, v) /\ (Expected = 0 \/ v = Expected) -> "Programmed"
    [] Restarted(r, v) /\ BackOver(time) -> "Failed"
    [] OTHER -> "pending"

\* Mutant: no limit for a ROC that went down and answers again.
TimedOutOnlyIfUp(r) == r \notin wentDown /\ AuthOver(time)

\* No verdict on the values: the time-outs, for a ROC that went down and one that did not.
TimedOut(r) == IF r \in wentDown THEN BackOver(time) ELSE AuthOver(time)

Conclude(r, verdict) ==
  LET v == IF verdict = "pending" /\ TimedOut(r) THEN "Failed" ELSE verdict IN
  IF v = "pending" THEN UNCHANGED <<state, finished>>
  ELSE state' = [state EXCEPT ![r] = v] /\ finished' = finished \cup {r}

\* The third register: the values are judged at once.
ReadVersion(r) ==
  /\ polled.roc = r /\ polled.next = "version"
  /\ Answers(r)
  /\ polled' = NoPoll
  /\ Conclude(r, Judge(r, polled.done, polled.ret, version[r]))
  /\ UNCHANGED <<roc, verBefore, toSend, sent, wentDown, resyncs, sweep, ended, time, faults>>

ResyncsAllowed(r) == resyncs[r] < LinkResyncTries

\* resyncLink resets the link of this ROC, and the SoftReset clears the errors latched for
\* every link of the DTC that is up.
Resync(r) ==
  /\ stuck' = [stuck EXCEPT ![r] = FALSE]
  /\ latched' = [q \in Selected |-> latched[q] /\ ~up[q]]

\* A ROC that does not answer has gone down; it is resynchronised when it is due.
NoAnswer(r) ==
  LET due == ResyncsAllowed(r) /\ ResyncDue(time, resyncs[r]) IN
  /\ wentDown' = wentDown \cup {r}
  /\ polled' = NoPoll
  /\ sweep' = sweep \ {r}
  /\ IF due
     THEN /\ resyncs' = [resyncs EXCEPT ![r] = @ + 1]
          /\ Resync(r) \/ UNCHANGED <<stuck, latched>>
     ELSE UNCHANGED <<resyncs, stuck, latched>>
  /\ IF BackOver(time)
     THEN FailRoc(r) /\ finished' = finished \cup {r}
     ELSE UNCHANGED <<state, finished>>
  /\ UNCHANGED <<miv, ret, version, command, up, restarts, verBefore, toSend, sent, ended, time>>

PollsNow(r) ==
  \/ r \in sweep /\ polled = NoPoll
  \/ polled.roc = r

\* One of the three reads fails: the ROC is down, or the link had a moment of its own.
ReadFails(r) ==
  /\ PollsNow(r)
  /\ \/ ~Answers(r) /\ UNCHANGED faults
     \/ Answers(r) /\ faults < MaxFaults /\ faults' = faults + 1
  /\ NoAnswer(r)

Session ==
  \/ \E r \in Selected : \/ Request(r) \/ RequestFails(r)
                    \/ ReadDone(r) \/ ReadRet(r) \/ ReadVersion(r) \/ ReadFails(r)
  \/ StartSweep

RocRuns(r) == MivTakes(r) \/ Refuses(r) \/ GoesDown(r) \/ ComesBack(r)

ActivationNext == Session \/ TimePasses \/ \E r \in Selected : RocRuns(r)

ActivationSpec == ActivationInit /\ [][ActivationNext]_activationVars

\* The session polls, time passes, and a command at hand is taken.  The IAP itself may
\* hang, and the FPGA need not come back.
ActivationFairSpec ==
  /\ ActivationSpec
  /\ WF_activationVars(Session) /\ SF_activationVars(TimePasses)
  /\ \A r \in Selected : WF_activationVars(MivTakes(r))

-----------------------------------------------------------------------------
ActivationTypeOK ==
  /\ miv \in [Selected -> {"done", "busy", "fresh"}]
  /\ ret \in [Selected -> {0, 1}]
  /\ version \in [Selected -> {OldVersion, ImageVersion}]
  /\ command \in [Selected -> BOOLEAN]
  /\ up \in [Selected -> BOOLEAN] /\ stuck \in [Selected -> BOOLEAN] /\ latched \in [Selected -> BOOLEAN]
  /\ restarts \in [Selected -> Nat]
  /\ state \in [Selected -> {"Verified", "Programmed", "Failed"}]
  /\ verBefore \in [Selected -> {0, OldVersion}]
  /\ toSend \subseteq Selected /\ sent \subseteq Selected /\ sweep \subseteq sent
  /\ finished \subseteq sent /\ wentDown \subseteq sent
  /\ resyncs \in [Selected -> 0..LinkResyncTries]
  /\ polled = NoPoll \/ polled.roc \in sent \ finished
  /\ time \in 0..MaxTime
  /\ ended \in BOOLEAN
  /\ faults \in Nat

\* With an expected version other than the one before, a ROC reported as programmed has
\* restarted since the request and runs that version, whatever was lost and however its
\* restart fell between the three reads of a poll ("the ROC must come back with the
\* expected firmware version").
ProgrammedRunsExpected ==
  \A r \in Selected : state[r] = "Programmed" => restarts[r] > 0 /\ version[r] = Expected

\* A ROC that fails before any time-out has refused: it runs the old firmware and no
\* request is left that could still restart it ("NOT programmed, old firmware running").
EarlyFailureIsRefusal ==
  [][\A r \in sent : state[r] = "Verified" /\ state'[r] = "Failed" /\ ~AuthOver(time) =>
       restarts[r] = 0 /\ up[r] /\ ~command[r] /\ miv[r] = "done"]_activationVars

\* activate() returns, with a verdict on every ROC it asked, even if an IAP hangs, a ROC
\* never comes back, or its link does not.
ActivationEnds == <>(ended /\ \A r \in Selected : state[r] # "Verified")

\* "a ROC that never restarted must not pass as programmed": no run checks it, since without
\* an expected version the code breaks it (README, Observations).
ProgrammedRestarted == \A r \in Selected : state[r] = "Programmed" => restarts[r] > 0
=============================================================================
