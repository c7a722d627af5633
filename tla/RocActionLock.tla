---------------------------- MODULE RocActionLock ----------------------------
(***************************************************************************)
(* The action lock of a ROC (ROCPolarFireCoreInterface::actionLock_) and   *)
(* the macros that flash a ROC under it: Program ROCs, which launches an   *)
(* action on every ROC and polls them all, the session of Program ROCs     *)
(* Safe, which keeps the locks for its whole life, and the macros of one   *)
(* ROC (read, erase or write a block, clear the lock by force).  A lock is *)
(* taken by the call that launches an action and often released by another *)
(* one: isActionDone with releaseLockOnDone, collectSPIFlashBlockRead, or  *)
(* the handler of an exception.                                            *)
(*                                                                         *)
(* The ROC is modelled from what these calls expect of it: it takes        *)
(* commands one at a time in the order they arrive, register 128 "can      *)
(* still contain DONE from the previous action for a short time", it is 0  *)
(* after a restart of the FPGA, accesses fail while the FPGA is down, and  *)
(* an action may hang.  Time is modelled by the rule that no poll runs out *)
(* while an idle ROC has a command to take.                                *)
(***************************************************************************)
EXTENDS Naturals, Sequences, FiniteSets

CONSTANTS
  Roc,       \* the ROCs of the DTC
  Hangs,     \* an action may hang
  Faults,    \* an access may fail, and a command may be lost
  MaxQueue   \* bound: commands a ROC keeps; it loses the next one

ASSUME OptionAssumption == Hangs \in BOOLEAN /\ Faults \in BOOLEAN
ASSUME BoundAssumption  == MaxQueue \in Nat \ {0}

VARIABLES
  lock,    \* actionLock_: "free", or the macro that has locked it
  queue,   \* commands the ROC has received, the executing one first
  reg,     \* register 128: "done", "busy", or "fresh" (0, nothing run since a restart)
  reply,   \* whose data the FIFO of the ROC holds (register 129), or "none"
  down,    \* ROCs whose FPGA restarts
  \* Program ROCs
  phase,   \* "idle", "map", "write" (the erase, then each chunk), "verify", "program"
  step,    \* in the phase: "launch", "accept", "done"
  todo,    \* ROCs not yet launched in this phase, or not yet written or read in "map"
  held,    \* eraseLockHeld, writeLockHeld, readLockHeld
  marked,  \* acceptedMap, readyMap, doneMap
  lost,    \* lostConnectionMap
  \* the session of Program ROCs Safe
  session, \* "idle", "ports", "run"
  ports,   \* ROCs with an OtsRocPort
  \* a call that runs to its end on one ROC: of Program ROCs in "map", or of a ROC macro
  call     \* per caller: [act, roc, at], or NoCall

rocs    == <<queue, reg, reply, down>>
program == <<phase, step, todo, held, marked, lost>>
safe    == <<session, ports>>
vars    == <<lock, rocs, program, safe, call>>

Caller == {"program", "macro"}
NoCall == [act |-> "none"]

Init ==
  /\ lock = [r \in Roc |-> "free"]
  /\ queue = [r \in Roc |-> <<>>]
  /\ reg = [r \in Roc |-> "done"]
  /\ reply = [r \in Roc |-> "none"]
  /\ down = {}
  /\ phase = "idle" /\ step = "launch"
  /\ todo = {} /\ held = {} /\ marked = {} /\ lost = {}
  /\ session = "idle" /\ ports = {}
  /\ call = [c \in Caller |-> NoCall]

-----------------------------------------------------------------------------
(* The ROC                                                                  *)

Take(r) ==
  /\ queue[r] # <<>> /\ reg[r] # "busy" /\ r \notin down
  /\ reg' = [reg EXCEPT ![r] = "busy"]
  /\ UNCHANGED <<lock, queue, reply, down, program, safe, call>>

Finish(r) ==
  /\ reg[r] = "busy"
  /\ queue' = [queue EXCEPT ![r] = Tail(@)]
  /\ reg' = [reg EXCEPT ![r] = "done"]
  /\ reply' = IF Head(queue[r]).act = "read"
              THEN [reply EXCEPT ![r] = Head(queue[r]).by] ELSE reply
  /\ UNCHANGED <<lock, down, program, safe, call>>

\* The FPGA is programmed from the flash, and comes back without its commands.
GoDown(r) ==
  /\ reg[r] = "busy" /\ Head(queue[r]).act = "program"
  /\ down' = down \cup {r}
  /\ queue' = [queue EXCEPT ![r] = <<>>]
  /\ reg' = [reg EXCEPT ![r] = "fresh"]
  /\ reply' = [reply EXCEPT ![r] = "none"]
  /\ UNCHANGED <<lock, program, safe, call>>

ComeBack(r) ==
  /\ r \in down
  /\ down' = down \ {r}
  /\ UNCHANGED <<lock, queue, reg, reply, program, safe, call>>

\* isActionDone
ActionDone(r) == r \notin down /\ reg[r] = "done"
NotDone(r)    == r \notin down /\ reg[r] # "done"

\* A register access fails: the FPGA is down, or a fault of the link.
AccessFails(r) == r \in down \/ Faults

\* writeBlock asks for no acknowledgement: the command arrives or is lost.
Send(u, a, r) ==
  /\ r \notin down
  /\ \/ /\ Len(queue[r]) < MaxQueue
        /\ queue' = [queue EXCEPT ![r] = Append(@, [by |-> u, act |-> a])]
     \/ (Faults \/ Len(queue[r]) = MaxQueue) /\ UNCHANGED queue
  /\ UNCHANGED <<reg, reply, down>>

Sent(u, r) == \E i \in DOMAIN queue[r] : queue[r][i].by = u

\* A poll that waits for "cond" can run out: the drop of DONE was missed, the command was
\* lost or has been executed, or an action hangs.
Overdue(r, cond) ==
  /\ r \notin down /\ ~cond
  /\ queue[r] = <<>> \/ (reg[r] = "busy" /\ Hangs)

\* DONE, and for a read the expected count (the counts are those of equal requests).
Complete(r, a)   == ActionDone(r) /\ (a = "read" => reply[r] # "none")
\* The drop of DONE; Program ROCs takes the data of a read for it too.
AcceptSeen(r, a) == NotDone(r) \/ (a = "read" /\ Complete(r, a))

Lock(u, r) == lock[r] = "free" /\ lock' = [lock EXCEPT ![r] = u]
Unlock(rs) == lock' = [r \in Roc |-> IF r \in rs THEN "free" ELSE lock[r]]

-----------------------------------------------------------------------------
(* Program ROCs                                                             *)

Enter(p) ==
  /\ phase' = p
  /\ step' = "launch"
  /\ todo' = IF p = "idle" THEN {} ELSE Roc
  /\ marked' = {} /\ lost' = {}

\* The next phase: the map is written, then read; chunks are written and read one after
\* the other; and each phase is an option of the operator.
NextPhase ==
  CASE phase = "idle"    -> {"map", "write", "verify", "program"}
    [] phase = "map"     -> {"map", "write", "verify", "program", "idle"}
    [] phase = "write"   -> {"write", "verify", "program", "idle"}
    [] phase = "verify"  -> {"verify", "program", "idle"}
    [] phase = "program" -> {"idle"}

Begin ==
  /\ phase = "idle"
  /\ \E p \in NextPhase : Enter(p)
  /\ UNCHANGED <<held, lock, rocs, safe, call>>

\* The phases that launch an action on every ROC and then poll them all.
Async == {"write", "verify", "program"}
ActOf == IF phase = "verify" THEN "read" ELSE phase

\* Mutant: the handler clears the lock of every ROC of the macro.
CatchClearsAll == IF phase = "program" THEN {} ELSE Roc

\* The locks the handler of an exception clears by force; "program" has no handler.
CatchClears == IF phase = "program" THEN {} ELSE held

\* The macro ends with an exception.
Throw(extra) ==
  /\ Unlock(CatchClears \cup extra)
  /\ held' = {}
  /\ Enter("idle")

Launching(r) == phase \in Async /\ step = "launch" /\ r \in todo

Launch(r) ==
  /\ Launching(r)
  /\ Lock("program", r)
  /\ Send("program", ActOf, r)
  /\ todo' = todo \ {r}
  /\ held' = IF phase = "program" THEN held ELSE held \cup {r}
  /\ UNCHANGED <<phase, step, marked, lost, safe, call>>

\* try_lock fails.
LaunchRefused(r) ==
  /\ Launching(r)
  /\ lock[r] # "free"
  /\ Throw({})
  /\ UNCHANGED <<rocs, safe, call>>

\* writeBlock throws: only launchSPIFlashBlockRead gives back the lock it has taken.
LaunchThrows(r) ==
  /\ Launching(r)
  /\ lock[r] = "free"
  /\ AccessFails(r)
  /\ lock' = [q \in Roc |-> IF q \in CatchClears THEN "free"
                            ELSE IF q = r /\ phase # "verify" THEN "program" ELSE lock[q]]
  /\ held' = {}
  /\ Enter("idle")
  /\ UNCHANGED <<rocs, safe, call>>

\* The launches are over, and the first poll begins: "program" has no wait for the drop of DONE.
Launched ==
  /\ phase \in Async /\ step = "launch" /\ todo = {}
  /\ step' = IF phase = "program" THEN "done" ELSE "accept"
  /\ UNCHANGED <<phase, todo, held, marked, lost, lock, rocs, safe, call>>

Mark(r) == marked' = marked \cup {r}

Polling(r, s) == phase \in Async /\ step = s /\ r \notin marked

\* DONE has dropped, or the data is already there.
Accepted(r) ==
  /\ Polling(r, "accept")
  /\ AcceptSeen(r, ActOf)
  /\ Mark(r)
  /\ UNCHANGED <<phase, step, todo, held, lost, lock, rocs, safe, call>>

AllAccepted ==
  /\ phase \in Async /\ step = "accept" /\ marked = Roc
  /\ step' = "done"
  /\ marked' = {}
  /\ UNCHANGED <<phase, todo, held, lost, lock, rocs, safe, call>>

\* isActionDone with releaseLockOnDone.
DoneReleases(r) ==
  /\ Polling(r, "done") /\ phase # "verify"
  /\ ActionDone(r)
  /\ Unlock({r})
  /\ Mark(r)
  /\ held' = held \ {r}
  /\ UNCHANGED <<phase, step, todo, lost, rocs, safe, call>>

\* collectSPIFlashBlockRead: the reply is read, and the lock released in any case.
Collects(r) ==
  /\ Polling(r, "done") /\ phase = "verify"
  /\ Complete(r, "read")
  /\ reply' = [reply EXCEPT ![r] = "none"]
  /\ Unlock({r})
  /\ Mark(r)
  /\ held' = held \ {r}
  /\ UNCHANGED <<phase, step, todo, lost, queue, reg, down, safe, call>>

CollectThrows(r) ==
  /\ Polling(r, "done") /\ phase = "verify"
  /\ AccessFails(r) \/ Overdue(r, Complete(r, "read"))
  /\ Throw({r})
  /\ UNCHANGED <<rocs, safe, call>>

\* A poll fails or runs out.  In "program" a failure is taken for the restart of the FPGA.
PollThrows(r) ==
  /\ Polling(r, step) /\ step # "launch" /\ ~(phase = "verify" /\ step = "done")
  /\ \/ phase # "program" /\ AccessFails(r)
     \/ Overdue(r, IF step = "accept" THEN AcceptSeen(r, ActOf) ELSE ActionDone(r))
  /\ Throw({})
  /\ UNCHANGED <<rocs, safe, call>>

LosesConnection(r) ==
  /\ Polling(r, "done") /\ phase = "program"
  /\ AccessFails(r)
  /\ lost' = lost \cup {r}
  /\ UNCHANGED <<phase, step, todo, held, marked, lock, rocs, safe, call>>

\* "back after connection lost! Marking done!": isActionDone was FALSE, so nothing is released.
BackMarksDone(r) ==
  /\ Polling(r, "done") /\ phase = "program"
  /\ r \in lost
  /\ NotDone(r)
  /\ Mark(r)
  /\ UNCHANGED <<phase, step, todo, held, lost, lock, rocs, safe, call>>

\* A status word that is not 0 (of a write it is looked at when all are done), or data
\* that differs from the file.
BadResult ==
  /\ phase \in Async /\ step = "done"
  /\ IF phase = "write" THEN marked = Roc ELSE marked # {}
  /\ Throw({})
  /\ UNCHANGED <<rocs, safe, call>>

PhaseOver ==
  /\ \/ phase \in Async /\ step = "done" /\ marked = Roc
     \/ phase = "map" /\ todo = {} /\ call["program"] = NoCall
  /\ \E p \in NextPhase : Enter(p)
  /\ UNCHANGED <<held, lock, rocs, safe, call>>

-----------------------------------------------------------------------------
(* Calls that wait for their action: writeSPIFlashDirectory, eraseSPIFlash- *)
(* Block and readSPIFlashBlock, by Program ROCs in "map" and by ROC macros   *)

Call(c, a, r) ==
  /\ call[c] = NoCall
  /\ call' = [call EXCEPT ![c] = [act |-> a, roc |-> r, at |-> "lock"]]
  /\ UNCHANGED <<lock, rocs, held, marked, lost, step, safe>>

MapCalls(r) ==
  /\ phase = "map" /\ r \in todo
  /\ \E a \in {"write", "read"} : Call("program", a, r)
  /\ todo' = todo \ {r}
  /\ UNCHANGED phase

RocMacro(r) ==
  /\ \E a \in {"write", "read"} : Call("macro", a, r)
  /\ UNCHANGED <<phase, todo>>

In(c, at) == call[c] # NoCall /\ call[c].at = at
GoTo(c, at) == call' = [call EXCEPT ![c].at = at]

\* The end of a call; an exception in "map" ends Program ROCs too, with nothing to clear.
Return(c) == call' = [call EXCEPT ![c] = NoCall] /\ UNCHANGED program
CallThrows(c) ==
  /\ call' = [call EXCEPT ![c] = NoCall]
  /\ IF c = "program" THEN Enter("idle") /\ UNCHANGED held ELSE UNCHANGED program

\* lock_guard waits for the lock; the launch of a read tries it.
CallLocks(c) ==
  /\ In(c, "lock")
  /\ Lock(c, call[c].roc)
  /\ GoTo(c, "send")
  /\ UNCHANGED <<rocs, program, safe>>

CallRefused(c) ==
  /\ In(c, "lock") /\ call[c].act = "read"
  /\ lock[call[c].roc] # "free"
  /\ CallThrows(c)
  /\ UNCHANGED <<lock, rocs, safe>>

CallSends(c) ==
  /\ In(c, "send")
  /\ Send(c, call[c].act, call[c].roc)
  /\ GoTo(c, IF call[c].act = "read" THEN "done" ELSE "accept")
  /\ UNCHANGED <<lock, program, safe>>

CallAccepted(c) ==
  /\ In(c, "accept")
  /\ NotDone(call[c].roc)
  /\ GoTo(c, "done")
  /\ UNCHANGED <<lock, rocs, program, safe>>

\* Mutant: the lock of a read is not released with its data.
CallDoneKeepsLock(c) ==
  /\ In(c, "done")
  /\ Complete(call[c].roc, call[c].act)
  /\ reply' = IF call[c].act = "read" THEN [reply EXCEPT ![call[c].roc] = "none"] ELSE reply
  /\ IF call[c].act = "read" THEN UNCHANGED lock ELSE Unlock({call[c].roc})
  /\ Return(c) \/ CallThrows(c)
  /\ UNCHANGED <<queue, reg, down, safe>>

\* A read waits for DONE and for its data, and reads the data; a bad status or a
\* directory that differs is an exception, after the release of the lock.
CallDone(c) ==
  /\ In(c, "done")
  /\ Complete(call[c].roc, call[c].act)
  /\ reply' = IF call[c].act = "read" THEN [reply EXCEPT ![call[c].roc] = "none"] ELSE reply
  /\ Unlock({call[c].roc})
  /\ Return(c) \/ CallThrows(c)
  /\ UNCHANGED <<queue, reg, down, safe>>

\* An access fails or a poll runs out: the lock is released in every call that waits.
CallFails(c) ==
  /\ In(c, "send") \/ In(c, "accept") \/ In(c, "done")
  /\ \/ AccessFails(call[c].roc)
     \/ In(c, "accept") /\ Overdue(call[c].roc, NotDone(call[c].roc))
     \/ In(c, "done") /\ Overdue(call[c].roc, Complete(call[c].roc, call[c].act))
  /\ Unlock({call[c].roc})
  /\ CallThrows(c)
  /\ UNCHANGED <<rocs, safe>>

-----------------------------------------------------------------------------
(* Program ROCs Safe                                                        *)

SafeBegins ==
  /\ session = "idle"
  /\ session' = "ports"
  /\ UNCHANGED <<ports, lock, rocs, program, call>>

\* Mutant: the port of a ROC does not try the lock.
PortWithoutLock(r) ==
  /\ session = "ports" /\ r \notin ports
  /\ ports' = ports \cup {r}
  /\ UNCHANGED <<session, lock, rocs, program, call>>

Port(r) ==
  /\ session = "ports" /\ r \notin ports
  /\ Lock("session", r)
  /\ ports' = ports \cup {r}
  /\ UNCHANGED <<session, rocs, program, call>>

\* The destructors of the ports release their locks, on an exception and at the end; the
\* session waits for its commands, unless one hangs.
SafeEnds ==
  /\ \/ session = "ports" /\ \E r \in Roc \ ports : lock[r] # "free"
     \/ session = "run" /\ (Hangs \/ \A r \in ports : ~Sent("session", r))
  /\ session' = "idle"
  /\ ports' = {}
  /\ Unlock(ports)
  /\ UNCHANGED <<rocs, program, call>>

SafeRuns ==
  /\ session = "ports" /\ ports # {}
  /\ session' = "run"
  /\ UNCHANGED <<ports, lock, rocs, program, call>>

\* sendWhenIdle, when the last command of the session is over: a read, which stands
\* for all of them.  FlashUpload has late commands, and FlashActivation the restart.
SafeSends(r) ==
  /\ session = "run" /\ r \in ports
  /\ reg[r] # "busy" /\ reply[r] = "none"
  /\ ~Sent("session", r)
  /\ Send("session", "read", r)
  /\ UNCHANGED <<lock, program, safe, call>>

SafeCollects(r) ==
  /\ session = "run" /\ r \in ports
  /\ reply[r] # "none" /\ r \notin down
  /\ reply' = [reply EXCEPT ![r] = "none"]
  /\ UNCHANGED <<lock, queue, reg, down, program, safe, call>>

-----------------------------------------------------------------------------
\* Program ROCs has launched an action on the ROC, in a phase that polls them all, and
\* waits for it.
InFlight(r) ==
  phase \in Async /\ (step = "launch" => r \notin todo) /\ (step = "done" => r \notin marked)

CallOn(c, r) == call[c] # NoCall /\ call[c].roc = r /\ call[c].at # "lock"

\* Who works with a ROC in reliance on its lock.
Uses(u, r) ==
  \/ u = "session" /\ r \in ports
  \/ u \in Caller /\ CallOn(u, r)
  \/ u = "program" /\ InFlight(r)

User == {"program", "macro", "session"}

\* Force Clear Action Lock, which the operator uses for a lock that nobody uses any more.
ForceClear(r) ==
  /\ lock[r] # "free" /\ ~\E u \in User : Uses(u, r)
  /\ Unlock({r})
  /\ UNCHANGED <<rocs, program, safe, call>>

RocMoves == \E r \in Roc : Take(r) \/ Finish(r) \/ GoDown(r) \/ ComeBack(r)

ProgramROCs ==
  \/ Begin \/ Launched \/ AllAccepted \/ BadResult \/ PhaseOver
  \/ \E r \in Roc :
       \/ Launch(r) \/ LaunchRefused(r) \/ LaunchThrows(r)
       \/ Accepted(r) \/ DoneReleases(r) \/ Collects(r) \/ CollectThrows(r)
       \/ PollThrows(r) \/ LosesConnection(r) \/ BackMarksDone(r)
       \/ MapCalls(r)

Calls ==
  \/ \E r \in Roc : RocMacro(r) \/ ForceClear(r)
  \/ \E c \in Caller : CallLocks(c) \/ CallRefused(c) \/ CallSends(c)
                     \/ CallAccepted(c) \/ CallDone(c) \/ CallFails(c)

ProgramROCsSafe ==
  \/ SafeBegins \/ SafeRuns \/ SafeEnds
  \/ \E r \in Roc : Port(r) \/ SafeSends(r) \/ SafeCollects(r)

Next == RocMoves \/ ProgramROCs \/ Calls \/ ProgramROCsSafe

Spec == Init /\ [][Next]_vars

-----------------------------------------------------------------------------
(* Properties                                                               *)

OneCall == [act : {"read", "write"}, roc : Roc, at : {"lock", "send", "accept", "done"}]
Command == [by : User, act : {"read", "write", "program"}]

\* Every variable has its type, the commands of a ROC are bounded, and a phase starts
\* with nothing marked (acceptedMap, readyMap and doneMap of ProgramROCs are local).
TypeOK ==
  /\ lock \in [Roc -> User \cup {"free"}]
  /\ queue \in [Roc -> Seq(Command)] /\ \A r \in Roc : Len(queue[r]) <= MaxQueue
  /\ reg \in [Roc -> {"done", "busy", "fresh"}]
  /\ reply \in [Roc -> User \cup {"none"}]
  /\ down \subseteq Roc
  /\ phase \in Async \cup {"idle", "map"} /\ step \in {"launch", "accept", "done"}
  /\ todo \subseteq Roc /\ held \subseteq Roc /\ marked \subseteq Roc /\ lost \subseteq Roc
  /\ step = "launch" => marked = {}
  /\ session \in {"idle", "ports", "run"} /\ ports \subseteq Roc
  /\ call \in [Caller -> OneCall \cup {NoCall}]

\* Whoever works with a ROC in reliance on its lock holds that lock: no release by a poll, by
\* the handler of an exception (forceClearActionLock) or by a destructor takes it from
\* another.  A std::mutex would not notice.
HolderAlone == \A r \in Roc, u \in User : Uses(u, r) => lock[r] = u

\* A lock that nobody uses any more was left by a launch of Program ROCs: the calls
\* that wait for their action, and the ports of Program ROCs Safe, give it back on every path.
OnlyLaunchesLeaveLocks ==
  \A r \in Roc : lock[r] # "free" => (lock[r] = "program" \/ Uses(lock[r], r))

\* While Program ROCs Safe has the port of a ROC "no other action can send a command to this
\* ROC, or have its reply drained" (OtsRocPort).
SessionUndisturbed ==
  [][\A r \in ports :
       /\ Len(queue'[r]) > Len(queue[r]) => queue'[r][Len(queue'[r])].by = "session"
       /\ reply[r] # "none" /\ reply'[r] = "none" => UNCHANGED <<program, call>>]_vars

\* No run checks the two below, which the code breaks (README, Observations).
\* The lock is there to "protect/lock this link/ROC from starting more than one action"
\* (ROCPolarFireCoreInterface.h): no action is started while another is under way.
ActionAlone == \A r \in Roc : Len(queue[r]) <= 1

\* DONE with the expected count is the "safe completion condition" of a read
\* (collectSPIFlashBlockRead): the data that a reader takes are those of its own read.
CollectsOwnData ==
  \A r \in Roc : ActionDone(r) /\ reply[r] # "none" =>
    /\ phase = "verify" /\ Polling(r, "done") => reply[r] = "program"
    /\ \A c \in Caller : In(c, "done") /\ call[c].act = "read" /\ call[c].roc = r => reply[r] = c
=============================================================================
