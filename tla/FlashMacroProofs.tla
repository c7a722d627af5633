--------------------------- MODULE FlashMacroProofs ---------------------------
(***************************************************************************)
(* Proofs about the macros that flash ROCs, for any number of ROCs, any    *)
(* faults and any capacity of a ROC.                                       *)
(*                                                                         *)
(* RocActionLock: the types, and that no lock is taken from a user who     *)
(* relies on it, so that a session of Program ROCs Safe is undisturbed.    *)
(*                                                                         *)
(* FlashActivation: what activate() (RocFlashProgrammer.h) reports is      *)
(* true.  A ROC gets one request, so that it restarts at most once; after  *)
(* the restart nothing is left that could change the version again, and a  *)
(* refusal once read stays.                                                *)
(***************************************************************************)
EXTENDS RocActionLock, FlashActivation, TLAPS

-----------------------------------------------------------------------------
(* The lock                                                                 *)

\* The command that a ROC executes is the first it has received.
BusyHasCommand == \A r \in Roc : reg[r] = "busy" => queue[r] # <<>>

TypeInv == TypeOK /\ BusyHasCommand

\* Program ROCs has a lock to clear on an exception only while the action is in flight,
\* and its waiting calls belong to the directory map.
HeldInFlight == \A r \in held : InFlight(r) /\ phase # "program"
CallsInMap   == call["program"] # NoCall => phase = "map"

LockInv == HolderAlone /\ OnlyLaunchesLeaveLocks /\ HeldInFlight /\ CallsInMap

-----------------------------------------------------------------------------
(* Types                                                                    *)

\* The part of the types that is about the ROCs.
RocsOK ==
  /\ queue \in [Roc -> Seq(Command)] /\ \A r \in Roc : Len(queue[r]) <= MaxQueue
  /\ reg \in [Roc -> {"done", "busy", "fresh"}]
  /\ reply \in [Roc -> User \cup {"none"}]
  /\ down \subseteq Roc
  /\ BusyHasCommand

\* A command sent leaves the types of the ROC as they are.
LEMMA SendKeepsTypes ==
  ASSUME RocsOK, NEW r \in Roc, NEW u \in User, NEW a \in {"read", "write", "program"},
         Send(u, a, r)
  PROVE  RocsOK'
<1>1. [by |-> u, act |-> a] \in Command
  BY DEF Command
<1>2. queue' = queue \/ queue' = [queue EXCEPT ![r] = Append(@, [by |-> u, act |-> a])]
  BY DEF Send
<1>3. Len(queue[r]) < MaxQueue \/ queue' = queue
  BY DEF Send
<1>4. MaxQueue \in Nat
  BY BoundAssumption
<1>5. CASE queue' = queue
  BY <1>5 DEF RocsOK, BusyHasCommand, Send
<1>6. CASE queue' # queue
  <2>1. queue' = [queue EXCEPT ![r] = Append(@, [by |-> u, act |-> a])]
    BY <1>2, <1>6
  <2>2. queue[r] \in Seq(Command) /\ Len(queue[r]) < MaxQueue
    BY <1>3, <1>6 DEF RocsOK
  <2>3. /\ Append(queue[r], [by |-> u, act |-> a]) \in Seq(Command)
        /\ Append(queue[r], [by |-> u, act |-> a]) # <<>>
        /\ Len(Append(queue[r], [by |-> u, act |-> a])) <= MaxQueue
    BY <1>1, <1>4, <2>2
  <2> QED BY <2>1, <2>3 DEF RocsOK, BusyHasCommand, Send
<1> QED BY <1>5, <1>6

\* What the ROC does by itself leaves the types as they are.
LEMMA RocMovesKeepTypes ==
  ASSUME RocsOK, RocMoves PROVE RocsOK'
<1> USE DEF RocsOK, BusyHasCommand
<1>0. MaxQueue \in Nat
  BY BoundAssumption
<1>1. ASSUME NEW r \in Roc, Take(r) PROVE RocsOK'
  BY <1>1 DEF Take
<1>2. ASSUME NEW r \in Roc, Finish(r) PROVE RocsOK'
  <2>1. queue[r] \in Seq(Command) /\ queue[r] # <<>>
    BY <1>2 DEF Finish
  <2>2. Tail(queue[r]) \in Seq(Command) /\ Len(Tail(queue[r])) <= MaxQueue
    BY <1>0, <2>1
  <2>3. Head(queue[r]) \in Command
    BY <2>1
  <2>4. Head(queue[r]).by \in User
    BY <2>3 DEF Command
  <2> QED BY <1>2, <2>2, <2>4 DEF Finish
<1>3. ASSUME NEW r \in Roc, GoDown(r) PROVE RocsOK'
  BY <1>0, <1>3 DEF GoDown
<1>4. ASSUME NEW r \in Roc, ComeBack(r) PROVE RocsOK'
  BY <1>4 DEF ComeBack
<1> QED BY <1>1, <1>2, <1>3, <1>4 DEF RocMoves

\* The part of the types that is about the macros and the locks.
MacrosOK ==
  /\ lock \in [Roc -> User \cup {"free"}]
  /\ phase \in Async \cup {"idle", "map"} /\ step \in {"launch", "accept", "done"}
  /\ todo \subseteq Roc /\ held \subseteq Roc /\ marked \subseteq Roc /\ lost \subseteq Roc
  /\ step = "launch" => marked = {}
  /\ session \in {"idle", "ports", "run"} /\ ports \subseteq Roc
  /\ call \in [Caller -> OneCall \cup {NoCall}]

\* Types, ROC by ROC and macro by macro.
LEMMA TypeParts == TypeInv <=> RocsOK /\ MacrosOK
BY DEF TypeInv, TypeOK, RocsOK, MacrosOK

\* A lock is taken or given back only as a user or "free".
LEMMA LocksTyped ==
  ASSUME MacrosOK PROVE
    /\ \A u \in User, r \in Roc : Lock(u, r) => lock' \in [Roc -> User \cup {"free"}]
    /\ \A rs : Unlock(rs) => lock' \in [Roc -> User \cup {"free"}]
BY DEF MacrosOK, Lock, Unlock

\* Program ROCs keeps the types of the macros.
LEMMA ProgramKeepsTypes ==
  ASSUME MacrosOK, ProgramROCs PROVE MacrosOK'
<1> USE LocksTyped DEF MacrosOK, Enter, Async, User, program, safe
<1>1. ASSUME Begin PROVE MacrosOK'
  BY <1>1 DEF Begin, NextPhase
<1>2. ASSUME Launched PROVE MacrosOK'
  BY <1>2 DEF Launched
<1>3. ASSUME AllAccepted PROVE MacrosOK'
  BY <1>3 DEF AllAccepted
<1>4. ASSUME BadResult PROVE MacrosOK'
  BY <1>4 DEF BadResult, Throw, CatchClears
<1>5. ASSUME PhaseOver PROVE MacrosOK'
  BY <1>5 DEF PhaseOver, NextPhase
<1>6. ASSUME NEW r \in Roc, Launch(r) PROVE MacrosOK'
  BY <1>6 DEF Launch, Launching, Lock
<1>7. ASSUME NEW r \in Roc, LaunchRefused(r) PROVE MacrosOK'
  BY <1>7 DEF LaunchRefused, Throw
<1>8. ASSUME NEW r \in Roc, LaunchThrows(r) PROVE MacrosOK'
  BY <1>8 DEF LaunchThrows, CatchClears
<1>9. ASSUME NEW r \in Roc, Accepted(r) PROVE MacrosOK'
  BY <1>9 DEF Accepted, Polling, Mark
<1>10. ASSUME NEW r \in Roc, DoneReleases(r) PROVE MacrosOK'
  BY <1>10 DEF DoneReleases, Polling, Mark
<1>11. ASSUME NEW r \in Roc, Collects(r) PROVE MacrosOK'
  BY <1>11 DEF Collects, Polling, Mark
<1>12. ASSUME NEW r \in Roc, CollectThrows(r) PROVE MacrosOK'
  BY <1>12 DEF CollectThrows, Throw
<1>13. ASSUME NEW r \in Roc, PollThrows(r) PROVE MacrosOK'
  BY <1>13 DEF PollThrows, Throw
<1>14. ASSUME NEW r \in Roc, LosesConnection(r) PROVE MacrosOK'
  BY <1>14 DEF LosesConnection, Polling
<1>15. ASSUME NEW r \in Roc, BackMarksDone(r) PROVE MacrosOK'
  BY <1>15 DEF BackMarksDone, Polling, Mark
<1>16. ASSUME NEW r \in Roc, MapCalls(r) PROVE MacrosOK'
  BY <1>16 DEF MapCalls, Call, OneCall, NoCall, Caller
<1> QED BY <1>1, <1>2, <1>3, <1>4, <1>5, <1>6, <1>7, <1>8, <1>9, <1>10, <1>11, <1>12, <1>13, <1>14, <1>15, <1>16 DEF ProgramROCs

\* The calls that wait keep the types of the macros.
LEMMA CallsKeepTypes ==
  ASSUME MacrosOK, Calls PROVE MacrosOK'
<1> USE LocksTyped DEF MacrosOK, Enter, Async, User, Caller, OneCall, NoCall
<1>1. ASSUME NEW r \in Roc, RocMacro(r) PROVE MacrosOK'
  BY <1>1 DEF RocMacro, Call, program, safe
<1>2. ASSUME NEW r \in Roc, ForceClear(r) PROVE MacrosOK'
  BY <1>2 DEF ForceClear, program, safe
<1>3. ASSUME NEW c \in Caller, CallLocks(c) PROVE MacrosOK'
  BY <1>3 DEF CallLocks, In, GoTo, Lock, program, safe
<1>4. ASSUME NEW c \in Caller, CallRefused(c) PROVE MacrosOK'
  BY <1>4 DEF CallRefused, CallThrows, safe, program
<1>5. ASSUME NEW c \in Caller, CallSends(c) PROVE MacrosOK'
  BY <1>5 DEF CallSends, In, GoTo, program, safe
<1>6. ASSUME NEW c \in Caller, CallAccepted(c) PROVE MacrosOK'
  BY <1>6 DEF CallAccepted, In, GoTo, program, safe
<1>7. ASSUME NEW c \in Caller, CallDone(c) PROVE MacrosOK'
  BY <1>7 DEF CallDone, Return, CallThrows, program, safe
<1>8. ASSUME NEW c \in Caller, CallFails(c) PROVE MacrosOK'
  BY <1>8 DEF CallFails, CallThrows, program, safe
<1> QED BY <1>1, <1>2, <1>3, <1>4, <1>5, <1>6, <1>7, <1>8 DEF Calls

\* Program ROCs Safe keeps the types of the macros.
LEMMA SafeKeepsTypes ==
  ASSUME MacrosOK, ProgramROCsSafe PROVE MacrosOK'
<1> USE LocksTyped DEF MacrosOK, User, program, safe
<1>1. ASSUME SafeBegins PROVE MacrosOK'
  BY <1>1 DEF SafeBegins
<1>2. ASSUME SafeRuns PROVE MacrosOK'
  BY <1>2 DEF SafeRuns
<1>3. ASSUME SafeEnds PROVE MacrosOK'
  BY <1>3 DEF SafeEnds
<1>4. ASSUME NEW r \in Roc, Port(r) PROVE MacrosOK'
  BY <1>4 DEF Port, Lock
<1>5. ASSUME NEW r \in Roc, SafeSends(r) PROVE MacrosOK'
  BY <1>5 DEF SafeSends
<1>6. ASSUME NEW r \in Roc, SafeCollects(r) PROVE MacrosOK'
  BY <1>6 DEF SafeCollects
<1> QED BY <1>1, <1>2, <1>3, <1>4, <1>5, <1>6 DEF ProgramROCsSafe

\* Who touches the ROCs sends one command, takes a reply, or leaves them alone.
LEMMA RocsKeepTypes ==
  ASSUME TypeInv, ProgramROCs \/ Calls \/ ProgramROCsSafe PROVE RocsOK'
<1> USE TypeParts
<1>0. RocsOK /\ "program" \in User /\ "macro" \in User /\ "session" \in User
  BY DEF User
<1>1. ASSUME UNCHANGED rocs PROVE RocsOK'
  BY <1>0, <1>1 DEF RocsOK, BusyHasCommand, rocs
<1>2. ASSUME NEW r \in Roc, reply' = [reply EXCEPT ![r] = "none"] \/ reply' = reply, UNCHANGED <<queue, reg, down>>
      PROVE RocsOK'
  BY <1>0, <1>2 DEF RocsOK, BusyHasCommand
<1>3. CASE ProgramROCs
  <2>1. ASSUME NEW r \in Roc, Launch(r) PROVE RocsOK'
    <3>1. ActOf \in {"read", "write", "program"} /\ Send("program", ActOf, r)
      BY <2>1 DEF ActOf, Launch, Launching, Async
    <3> QED BY <1>0, <3>1, SendKeepsTypes
  <2>2. ASSUME NEW r \in Roc, Collects(r) PROVE RocsOK'
    BY <1>2, <2>2 DEF Collects
  <2>3. ASSUME UNCHANGED rocs PROVE RocsOK'
    BY <1>1, <2>3
  <2> QED BY <1>3, <2>1, <2>2, <2>3
      DEF ProgramROCs, Begin, Launched, AllAccepted, BadResult, PhaseOver, LaunchRefused,
          LaunchThrows, Accepted, DoneReleases, CollectThrows, PollThrows, LosesConnection,
          BackMarksDone, MapCalls, Call, rocs
<1>4. CASE Calls
  <2>1. ASSUME NEW c \in Caller, CallSends(c) PROVE RocsOK'
    <3>1. call[c] \in OneCall /\ c \in User
      BY <2>1 DEF MacrosOK, CallSends, In, Caller, User
    <3>2. call[c].roc \in Roc /\ call[c].act \in {"read", "write", "program"}
      BY <3>1 DEF OneCall
    <3> QED BY <1>0, <2>1, <3>1, <3>2, SendKeepsTypes DEF CallSends
  <2>2. ASSUME NEW c \in Caller, CallDone(c) PROVE RocsOK'
    <3>1. call[c].roc \in Roc
      BY <2>2 DEF MacrosOK, CallDone, In, OneCall
    <3> QED BY <1>2, <2>2, <3>1 DEF CallDone
  <2>3. ASSUME UNCHANGED rocs PROVE RocsOK'
    BY <1>1, <2>3
  <2> QED BY <1>4, <2>1, <2>2, <2>3
      DEF Calls, RocMacro, ForceClear, CallLocks, CallRefused, CallAccepted, CallFails, Call, rocs
<1>5. CASE ProgramROCsSafe
  <2>1. ASSUME NEW r \in Roc, SafeSends(r) PROVE RocsOK'
    BY <1>0, <2>1, SendKeepsTypes DEF SafeSends
  <2>2. ASSUME NEW r \in Roc, SafeCollects(r) PROVE RocsOK'
    BY <1>2, <2>2 DEF SafeCollects
  <2>3. ASSUME UNCHANGED rocs PROVE RocsOK'
    BY <1>1, <2>3
  <2> QED BY <1>5, <2>1, <2>2, <2>3
      DEF ProgramROCsSafe, SafeBegins, SafeRuns, SafeEnds, Port, rocs
<1> QED BY <1>3, <1>4, <1>5

\* Every step of the action lock and of its users keeps the types.
LEMMA TypeStep == TypeInv /\ [Next]_vars => TypeInv'
<1> SUFFICES ASSUME TypeInv, [Next]_vars PROVE RocsOK' /\ MacrosOK'
  BY DEF TypeInv, TypeOK, RocsOK, MacrosOK
<1>0. RocsOK /\ MacrosOK
  BY TypeParts
<1>1. CASE RocMoves
  <2>1. UNCHANGED <<lock, program, safe, call>>
    BY <1>1 DEF RocMoves, Take, Finish, GoDown, ComeBack
  <2> QED BY <1>0, <1>1, <2>1, RocMovesKeepTypes DEF MacrosOK, program, safe
<1>2. CASE ProgramROCs
  BY <1>0, <1>2, RocsKeepTypes, ProgramKeepsTypes
<1>3. CASE Calls
  BY <1>0, <1>3, RocsKeepTypes, CallsKeepTypes
<1>4. CASE ProgramROCsSafe
  BY <1>0, <1>4, RocsKeepTypes, SafeKeepsTypes
<1>5. CASE UNCHANGED vars
  BY <1>0, <1>5 DEF RocsOK, BusyHasCommand, MacrosOK, vars, rocs, program, safe
<1> QED BY <1>1, <1>2, <1>3, <1>4, <1>5 DEF Next

\* The types hold at first.
LEMMA TypeInit == Init => TypeInv
<1> SUFFICES ASSUME Init PROVE TypeInv
  OBVIOUS
<1>1. MaxQueue \in Nat /\ MaxQueue >= 0
  BY BoundAssumption
<1>2. <<>> \in Seq(Command) /\ Len(<<>>) = 0
  OBVIOUS
<1> QED BY <1>1, <1>2 DEF Init, TypeInv, TypeOK, BusyHasCommand, User, Async, Caller

\* Every variable keeps its type (TypeOK), and a ROC that works has a command.
THEOREM TypeCorrect == Spec => []TypeOK
<1>1. Init => TypeInv
  BY TypeInit
<1>2. TypeInv /\ [Next]_vars => TypeInv'
  BY TypeStep
<1>3. TypeInv => TypeOK
  BY DEF TypeInv
<1> QED BY <1>1, <1>2, <1>3, PTL DEF Spec

-----------------------------------------------------------------------------
(* Locks                                                                    *)

\* The users of a ROC are told apart by its lock: whoever relies on the lock is the only one.
LEMMA OneUser ==
  ASSUME HolderAlone, NEW r \in Roc, NEW u \in User, NEW v \in User, Uses(u, r), Uses(v, r)
  PROVE  u = v
BY DEF HolderAlone

\* Program ROCs takes only free locks, and gives back only its own.
LEMMA ProgramKeepsLocks ==
  ASSUME MacrosOK, LockInv, ProgramROCs PROVE LockInv'
<1> USE DEF LockInv, HolderAlone, OnlyLaunchesLeaveLocks, HeldInFlight, CallsInMap, Uses, CallOn, InFlight, MacrosOK, User, Caller, Async, NoCall, OneCall, program, safe, rocs
<1>1. ASSUME Begin PROVE LockInv'
  BY <1>1 DEF Begin, NextPhase, Enter
<1>2. ASSUME Launched PROVE LockInv'
  BY <1>2 DEF Launched
<1>3. ASSUME AllAccepted PROVE LockInv'
  BY <1>3 DEF AllAccepted
<1>4. ASSUME BadResult PROVE LockInv'
  BY <1>4 DEF BadResult, Throw, CatchClears, Unlock, Enter
<1>5. ASSUME PhaseOver PROVE LockInv'
  BY <1>5 DEF PhaseOver, NextPhase, Enter
<1>6. ASSUME NEW r \in Roc, Launch(r) PROVE LockInv'
  BY <1>6 DEF Launch, Launching, Lock
<1>7. ASSUME NEW r \in Roc, LaunchRefused(r) PROVE LockInv'
  BY <1>7 DEF LaunchRefused, Launching, Throw, CatchClears, Unlock, Enter
<1>8. ASSUME NEW r \in Roc, LaunchThrows(r) PROVE LockInv'
  BY <1>8 DEF LaunchThrows, Launching, CatchClears, Enter
<1>9. ASSUME NEW r \in Roc, Accepted(r) PROVE LockInv'
  BY <1>9 DEF Accepted, Polling, Mark
<1>10. ASSUME NEW r \in Roc, DoneReleases(r) PROVE LockInv'
  BY <1>10 DEF DoneReleases, Polling, Mark, Unlock
<1>11. ASSUME NEW r \in Roc, Collects(r) PROVE LockInv'
  BY <1>11 DEF Collects, Polling, Mark, Unlock
<1>12. ASSUME NEW r \in Roc, CollectThrows(r) PROVE LockInv'
  BY <1>12 DEF CollectThrows, Polling, Throw, CatchClears, Unlock, Enter
<1>13. ASSUME NEW r \in Roc, PollThrows(r) PROVE LockInv'
  BY <1>13 DEF PollThrows, Polling, Throw, CatchClears, Unlock, Enter
<1>14. ASSUME NEW r \in Roc, LosesConnection(r) PROVE LockInv'
  BY <1>14 DEF LosesConnection, Polling
<1>15. ASSUME NEW r \in Roc, BackMarksDone(r) PROVE LockInv'
  BY <1>15 DEF BackMarksDone, Polling, Mark
<1>16. ASSUME NEW r \in Roc, MapCalls(r) PROVE LockInv'
  BY <1>16 DEF MapCalls, Call
<1> QED BY <1>1, <1>2, <1>3, <1>4, <1>5, <1>6, <1>7, <1>8, <1>9, <1>10, <1>11, <1>12, <1>13, <1>14, <1>15, <1>16 DEF ProgramROCs

\* A call that waits takes a free lock, and gives back its own.
LEMMA CallsKeepLocks ==
  ASSUME MacrosOK, LockInv, Calls PROVE LockInv'
<1> USE DEF LockInv, HolderAlone, OnlyLaunchesLeaveLocks, HeldInFlight, CallsInMap, Uses, CallOn, InFlight, MacrosOK, User, Caller, Async, NoCall, OneCall, program, safe, rocs
<1>1. ASSUME NEW r \in Roc, RocMacro(r) PROVE LockInv'
  BY <1>1 DEF RocMacro, Call
<1>2. ASSUME NEW r \in Roc, ForceClear(r) PROVE LockInv'
  BY <1>2 DEF ForceClear, Unlock
<1>3. ASSUME NEW c \in Caller, CallLocks(c) PROVE LockInv'
  BY <1>3 DEF CallLocks, In, GoTo, Lock
<1>4. ASSUME NEW c \in Caller, CallRefused(c) PROVE LockInv'
  BY <1>4 DEF CallRefused, In, CallThrows, Enter
<1>5. ASSUME NEW c \in Caller, CallSends(c) PROVE LockInv'
  BY <1>5 DEF CallSends, In, GoTo
<1>6. ASSUME NEW c \in Caller, CallAccepted(c) PROVE LockInv'
  BY <1>6 DEF CallAccepted, In, GoTo
<1>7. ASSUME NEW c \in Caller, CallDone(c) PROVE LockInv'
  BY <1>7 DEF CallDone, In, Return, CallThrows, Unlock, Enter
<1>8. ASSUME NEW c \in Caller, CallFails(c) PROVE LockInv'
  BY <1>8 DEF CallFails, In, CallThrows, Unlock, Enter
<1> QED BY <1>1, <1>2, <1>3, <1>4, <1>5, <1>6, <1>7, <1>8 DEF Calls

\* A port of Program ROCs Safe takes a free lock, and its destructor gives it back.
LEMMA SafeKeepsLocks ==
  ASSUME MacrosOK, LockInv, ProgramROCsSafe PROVE LockInv'
<1> USE DEF LockInv, HolderAlone, OnlyLaunchesLeaveLocks, HeldInFlight, CallsInMap, Uses, CallOn, InFlight, MacrosOK, User, Caller, Async, NoCall, OneCall, program, safe, rocs
<1>1. ASSUME SafeBegins PROVE LockInv'
  BY <1>1 DEF SafeBegins
<1>2. ASSUME SafeRuns PROVE LockInv'
  BY <1>2 DEF SafeRuns
<1>3. ASSUME SafeEnds PROVE LockInv'
  BY <1>3 DEF SafeEnds, Unlock
<1>4. ASSUME NEW r \in Roc, Port(r) PROVE LockInv'
  BY <1>4 DEF Port, Lock
<1>5. ASSUME NEW r \in Roc, SafeSends(r) PROVE LockInv'
  BY <1>5 DEF SafeSends
<1>6. ASSUME NEW r \in Roc, SafeCollects(r) PROVE LockInv'
  BY <1>6 DEF SafeCollects
<1> QED BY <1>1, <1>2, <1>3, <1>4, <1>5, <1>6 DEF ProgramROCsSafe

\* Every step keeps what is known of the locks.
LEMMA LockStep == TypeInv /\ LockInv /\ [Next]_vars => LockInv'
<1> SUFFICES ASSUME TypeInv, LockInv, [Next]_vars PROVE LockInv'
  OBVIOUS
<1>0. MacrosOK
  BY TypeParts
<1>1. CASE UNCHANGED <<lock, program, safe, call>>
  BY <1>1 DEF LockInv, HolderAlone, OnlyLaunchesLeaveLocks, HeldInFlight, CallsInMap, Uses,
              CallOn, InFlight, program, safe
<1>2. RocMoves \/ UNCHANGED vars => UNCHANGED <<lock, program, safe, call>>
  BY DEF RocMoves, Take, Finish, GoDown, ComeBack, vars, program, safe
<1> QED BY <1>0, <1>1, <1>2, ProgramKeepsLocks, CallsKeepLocks, SafeKeepsLocks DEF Next

\* The invariant holds at first.
LEMMA InvInit == Init => TypeInv /\ LockInv
<1> SUFFICES ASSUME Init PROVE TypeInv /\ LockInv
  OBVIOUS
<1>1. TypeInv
  BY TypeInit
<1>2. LockInv
  BY DEF Init, LockInv, HolderAlone, OnlyLaunchesLeaveLocks, HeldInFlight, CallsInMap, Uses,
         CallOn, InFlight, Async, Caller, User
<1> QED BY <1>1, <1>2

\* Types and LockInv hold in every state.
LEMMA Invariants == Spec => [](TypeInv /\ LockInv)
BY InvInit, TypeStep, LockStep, PTL DEF Spec

\* Whoever works with a ROC in reliance on its lock holds that lock, whatever fails in
\* Program ROCs, Program ROCs Safe and the macros of one ROC (HolderAlone).
THEOREM LockIsKept == Spec => []HolderAlone
BY Invariants, PTL DEF LockInv

\* Only a launch of Program ROCs leaves a lock behind (OnlyLaunchesLeaveLocks).
THEOREM LocksAreReturned == Spec => []OnlyLaunchesLeaveLocks
BY Invariants, PTL DEF LockInv

-----------------------------------------------------------------------------
(* The session of Program ROCs Safe                                         *)

\* What SessionUndisturbed says of one ROC.
Undisturbed(r) ==
  /\ Len(queue'[r]) > Len(queue[r]) => queue'[r][Len(queue'[r])].by = "session"
  /\ reply[r] # "none" /\ reply'[r] = "none" => UNCHANGED <<program, call>>

\* The command that a user appends is its own.
LEMMA SendAppends ==
  ASSUME RocsOK, NEW r \in Roc, NEW q \in Roc, NEW u, NEW a, Send(u, a, q),
         Len(queue'[r]) > Len(queue[r])
  PROVE  q = r /\ queue'[r][Len(queue'[r])].by = u
<1>1. queue' = [queue EXCEPT ![q] = Append(@, [by |-> u, act |-> a])]
  BY DEF Send
<1>2. q = r
  BY <1>1 DEF RocsOK
<1>3. queue'[r] = Append(queue[r], [by |-> u, act |-> a]) /\ queue[r] \in Seq(Command)
  BY <1>1, <1>2 DEF RocsOK
<1>4. queue'[r][Len(queue'[r])] = [by |-> u, act |-> a]
  BY <1>3
<1> QED BY <1>2, <1>4

\* In a step of any user, a ROC with a port is disturbed by nobody else.
LEMMA UserSteps ==
  ASSUME TypeInv, LockInv, NEW r \in ports, ProgramROCs \/ Calls \/ ProgramROCsSafe
  PROVE  Undisturbed(r)
<1>0. RocsOK /\ MacrosOK /\ r \in Roc
  BY TypeParts DEF MacrosOK
<1>1. \A u \in User : Uses(u, r) => u = "session"
  BY <1>0, OneUser DEF LockInv, Uses, User
<1>2. lock[r] = "session"
  BY <1>0 DEF LockInv, HolderAlone, Uses, User
<1>3. ASSUME UNCHANGED <<queue, reply>> PROVE Undisturbed(r)
  BY <1>0, <1>3 DEF Undisturbed, RocsOK
<1>4. CASE ProgramROCs
  <2>1. ASSUME NEW q \in Roc, Launch(q) PROVE Undisturbed(r)
    <3>1. q # r
      BY <1>2, <2>1 DEF Launch, Lock
    <3>2. Send("program", ActOf, q)
      BY <2>1 DEF Launch
    <3>3. ~(Len(queue'[r]) > Len(queue[r]))
      BY <1>0, <3>1, <3>2, SendAppends
    <3> QED BY <3>2, <3>3 DEF Undisturbed, Send
  <2>2. ASSUME NEW q \in Roc, Collects(q) PROVE Undisturbed(r)
    <3>1. Uses("program", q)
      BY <2>2 DEF Uses, InFlight, Collects, Polling
    <3>2. q # r
      BY <1>1, <3>1 DEF User
    <3> QED BY <1>0, <2>2, <3>2 DEF Undisturbed, Collects, RocsOK
  <2> QED BY <1>3, <1>4, <2>1, <2>2
      DEF ProgramROCs, Begin, Launched, AllAccepted, BadResult, PhaseOver, LaunchRefused,
          LaunchThrows, Accepted, DoneReleases, CollectThrows, PollThrows, LosesConnection,
          BackMarksDone, MapCalls, Call, rocs
<1>5. CASE Calls
  <2>1. ASSUME NEW c \in Caller, CallSends(c) \/ CallDone(c) PROVE Undisturbed(r)
    <3>1. call[c] \in OneCall /\ call[c].at # "lock" /\ call[c] # NoCall
      BY <1>0, <2>1 DEF MacrosOK, CallSends, CallDone, In
    <3>2. call[c].roc \in Roc
      BY <3>1 DEF OneCall
    <3>3. Uses(c, call[c].roc)
      BY <3>1 DEF Uses, CallOn
    <3>4. call[c].roc # r
      BY <1>1, <3>3 DEF Caller, User
    <3>5. CASE CallSends(c)
      <4>1. Send(c, call[c].act, call[c].roc)
        BY <3>5 DEF CallSends
      <4>2. ~(Len(queue'[r]) > Len(queue[r]))
        BY <1>0, <3>2, <3>4, <4>1, SendAppends
      <4> QED BY <4>1, <4>2 DEF Undisturbed, Send
    <3>6. CASE CallDone(c)
      BY <1>0, <3>2, <3>4, <3>6 DEF Undisturbed, CallDone, RocsOK
    <3> QED BY <2>1, <3>5, <3>6
  <2> QED BY <1>3, <1>5, <2>1
      DEF Calls, RocMacro, ForceClear, CallLocks, CallRefused, CallAccepted, CallFails, Call, rocs
<1>6. CASE ProgramROCsSafe
  <2>1. ASSUME NEW q \in Roc, SafeSends(q) PROVE Undisturbed(r)
    <3>1. Send("session", "read", q)
      BY <2>1 DEF SafeSends
    <3>2. Len(queue'[r]) > Len(queue[r]) => queue'[r][Len(queue'[r])].by = "session"
      BY <1>0, <3>1, SendAppends
    <3> QED BY <3>1, <3>2 DEF Undisturbed, Send
  <2>2. ASSUME NEW q \in Roc, SafeCollects(q) PROVE Undisturbed(r)
    BY <1>0, <2>2 DEF Undisturbed, SafeCollects, RocsOK
  <2> QED BY <1>3, <1>6, <2>1, <2>2
      DEF ProgramROCsSafe, SafeBegins, SafeRuns, SafeEnds, Port, rocs
<1> QED BY <1>4, <1>5, <1>6

\* What the ROC does by itself takes no command in, and no reply out but in a restart.
LEMMA RocSteps ==
  ASSUME TypeInv, NEW r \in Roc, RocMoves PROVE Undisturbed(r)
<1>0. RocsOK
  BY TypeParts
<1>1. UNCHANGED <<program, call>>
  BY DEF RocMoves, Take, Finish, GoDown, ComeBack
<1>2. Len(queue'[r]) <= Len(queue[r])
  <2>0. queue[r] \in Seq(Command) /\ Len(queue[r]) \in Nat
    BY <1>0 DEF RocsOK
  <2>1. ASSUME NEW q \in Roc, Take(q) \/ ComeBack(q) PROVE Len(queue'[r]) <= Len(queue[r])
    BY <2>0, <2>1 DEF Take, ComeBack
  <2>2. ASSUME NEW q \in Roc, Finish(q) PROVE Len(queue'[r]) <= Len(queue[r])
    <3>1. queue[q] # <<>>
      BY <1>0, <2>2 DEF Finish, RocsOK, BusyHasCommand
    <3>2. queue'[r] = IF q = r THEN Tail(queue[r]) ELSE queue[r]
      BY <1>0, <2>2 DEF Finish, RocsOK
    <3> QED BY <2>0, <3>1, <3>2
  <2>3. ASSUME NEW q \in Roc, GoDown(q) PROVE Len(queue'[r]) <= Len(queue[r])
    <3>1. queue'[r] = IF q = r THEN <<>> ELSE queue[r]
      BY <1>0, <2>3 DEF GoDown, RocsOK
    <3> QED BY <2>0, <3>1
  <2> QED BY <2>1, <2>2, <2>3 DEF RocMoves
<1>3. Len(queue[r]) \in Nat /\ Len(queue'[r]) \in Nat
  <2>1. RocsOK'
    BY <1>0, RocMovesKeepTypes
  <2> QED BY <1>0, <2>1 DEF RocsOK
<1> QED BY <1>1, <1>2, <1>3 DEF Undisturbed

\* While Program ROCs Safe has the port of a ROC, nobody else sends a command to this ROC
\* or takes its reply (SessionUndisturbed).
THEOREM SessionIsUndisturbed == Spec => SessionUndisturbed
<1>1. TypeInv /\ LockInv /\ [Next]_vars => [\A r \in ports : Undisturbed(r)]_vars
  <2> SUFFICES ASSUME TypeInv, LockInv, Next, NEW r \in ports PROVE Undisturbed(r)
    OBVIOUS
  <2>1. r \in Roc
    BY TypeParts DEF MacrosOK
  <2> QED BY <2>1, UserSteps, RocSteps DEF Next
<1>2. [\A r \in ports : Undisturbed(r)]_vars <=>
      [\A r \in ports :
         /\ Len(queue'[r]) > Len(queue[r]) => queue'[r][Len(queue'[r])].by = "session"
         /\ reply[r] # "none" /\ reply'[r] = "none" => UNCHANGED <<program, call>>]_vars
  BY DEF Undisturbed
<1> QED BY <1>1, <1>2, Invariants, PTL DEF Spec, SessionUndisturbed

-----------------------------------------------------------------------------
(* The activation                                                           *)

\* The registers read so far belong to a ROC that is pending and no longer in the sweep.
PollOf(r) ==
  \/ \E d \in {"done", "busy", "fresh"} : polled = [roc |-> r, done |-> d, next |-> "ret"]
  \/ \E d \in {"done", "busy", "fresh"}, p \in {0, 1} :
       polled = [roc |-> r, done |-> d, ret |-> p, next |-> "version"]

PollOK ==
  /\ sweep \subseteq sent \ finished
  /\ polled = NoPoll \/ \E r \in sent \ finished : r \notin sweep /\ PollOf(r)

\* A ROC restarts at most once: a request, a busy MiV and an FPGA that is down are steps on
\* the way to the restart, and nothing of them is left after it.
OneRestart(r) ==
  /\ r \in toSend \/ command[r] => restarts[r] = 0 /\ miv[r] = "done" /\ up[r]
  /\ r \in toSend => ~command[r] /\ r \notin sent /\ state[r] = "Verified"
  /\ miv[r] = "busy" => restarts[r] = 0 /\ ret[r] = 0
  /\ ~up[r] => miv[r] = "busy"
  /\ restarts[r] = 0 => version[r] = OldVersion

\* An error in PROG_RETURN is there until a command is taken, and once the MiV has had its
\* 200 ms none is waiting.
RefusalStays(r) ==
  /\ ret[r] # 0 => miv[r] = "done" /\ restarts[r] = 0
  /\ time > 0 => r \notin toSend /\ ~command[r]
  /\ time > 0 /\ polled # NoPoll /\ polled.roc = r /\ polled.next = "version" /\ polled.ret # 0
       => ret[r] # 0

Inv == ActivationTypeOK /\ PollOK /\ \A r \in Selected : OneRestart(r) /\ RefusalStays(r)

\* The values of the three reads, by the place in the poll.
LEMMA PollIs ==
  ASSUME Inv, NEW r \in Selected, polled.roc = r
  PROVE  /\ polled # NoPoll /\ r \in sent \ finished /\ r \notin sweep /\ PollOf(r)
         /\ polled.done \in {"done", "busy", "fresh"}
         /\ polled.next = "version" => polled.ret \in {0, 1}
<1>1. polled # NoPoll
  BY RocAssumption DEF NoPoll
<1>2. PICK q \in sent \ finished : q \notin sweep /\ PollOf(q)
  BY <1>1 DEF Inv, PollOK
<1>3. q = r
  BY <1>2 DEF PollOf
<1>4. polled.done \in {"done", "busy", "fresh"} /\ (polled.next = "version" => polled.ret \in {0, 1})
  BY <1>2 DEF PollOf
<1> QED
  BY <1>1, <1>2, <1>3, <1>4

-----------------------------------------------------------------------------
(* The ROC                                                                  *)

\* The MiV and the FPGA of a ROC keep the invariant.
LEMMA RocKeepsInv ==
  ASSUME Inv, NEW r \in Selected, RocRuns(r)
  PROVE  Inv'
<1>0. /\ miv \in [Selected -> {"done", "busy", "fresh"}] /\ ret \in [Selected -> {0, 1}]
      /\ version \in [Selected -> {OldVersion, ImageVersion}] /\ command \in [Selected -> BOOLEAN]
      /\ up \in [Selected -> BOOLEAN] /\ stuck \in [Selected -> BOOLEAN] /\ latched \in [Selected -> BOOLEAN]
      /\ restarts \in [Selected -> Nat] /\ OneRestart(r) /\ RefusalStays(r)
  BY DEF Inv, ActivationTypeOK
<1>1. UNCHANGED <<sessionVars, time, faults>>
  BY DEF RocRuns, MivTakes, Refuses, GoesDown, ComesBack
<1>2. /\ miv' \in [Selected -> {"done", "busy", "fresh"}] /\ ret' \in [Selected -> {0, 1}]
      /\ version' \in [Selected -> {OldVersion, ImageVersion}] /\ command' \in [Selected -> BOOLEAN]
      /\ up' \in [Selected -> BOOLEAN] /\ stuck' \in [Selected -> BOOLEAN] /\ latched' \in [Selected -> BOOLEAN]
      /\ restarts' \in [Selected -> Nat]
  <2>1. CASE MivTakes(r)
    BY <1>0, <2>1 DEF MivTakes
  <2>2. CASE Refuses(r)
    BY <1>0, <2>2 DEF Refuses
  <2>3. CASE GoesDown(r)
    BY <1>0, <2>3 DEF GoesDown
  <2>4. CASE ComesBack(r)
    BY <1>0, <2>4 DEF ComesBack
  <2> QED
    BY <2>1, <2>2, <2>3, <2>4 DEF RocRuns
<1>3. ActivationTypeOK' /\ PollOK'
  BY <1>1, <1>2 DEF Inv, ActivationTypeOK, PollOK, PollOf, sessionVars
<1>4. ASSUME NEW q \in Selected, q # r PROVE OneRestart(q)' /\ RefusalStays(q)'
  <2>1. /\ miv'[q] = miv[q] /\ ret'[q] = ret[q] /\ version'[q] = version[q]
        /\ command'[q] = command[q] /\ up'[q] = up[q] /\ restarts'[q] = restarts[q]
    BY <1>0, <1>4 DEF RocRuns, MivTakes, Refuses, GoesDown, ComesBack
  <2> QED
    BY <1>1, <2>1 DEF Inv, OneRestart, RefusalStays, sessionVars
<1>5. OneRestart(r)' /\ RefusalStays(r)'
  <2>1. CASE MivTakes(r)
    BY <1>0, <1>1, <2>1 DEF MivTakes, OneRestart, RefusalStays, sessionVars
  <2>2. CASE Refuses(r)
    BY <1>0, <1>1, <2>2 DEF Refuses, OneRestart, RefusalStays, sessionVars
  <2>3. CASE GoesDown(r)
    BY <1>0, <1>1, <2>3 DEF GoesDown, OneRestart, RefusalStays, sessionVars
  <2>4. CASE ComesBack(r)
    BY <1>0, <1>1, <2>4 DEF ComesBack, OneRestart, RefusalStays, sessionVars
  <2> QED
    BY <2>1, <2>2, <2>3, <2>4 DEF RocRuns
<1> QED
  BY <1>3, <1>4, <1>5 DEF Inv

-----------------------------------------------------------------------------
(* The session                                                              *)

\* The requests that restart the ROCs keep the invariant.
LEMMA RequestsKeepInv ==
  ASSUME Inv, NEW r \in Selected, Request(r) \/ RequestFails(r)
  PROVE  Inv'
<1>0. ActivationTypeOK /\ PollOK /\ OneRestart(r) /\ RefusalStays(r) /\ r \in toSend
  BY DEF Inv, Request, RequestFails
<1>1. /\ toSend' = toSend \ {r} /\ sent \subseteq sent' /\ sent' \subseteq sent \cup {r}
      /\ UNCHANGED <<miv, ret, version, up, stuck, latched, restarts, finished, wentDown, resyncs,
                     sweep, polled, ended, time>>
  BY DEF Request, RequestFails
<1>2. /\ \A q \in Selected : q # r => command'[q] = command[q] /\ state'[q] = state[q]
      /\ command' \in [Selected -> BOOLEAN] /\ faults' \in Nat
      /\ state' \in [Selected -> {"Verified", "Programmed", "Failed"}]
  <2>1. command \in [Selected -> BOOLEAN] /\ faults \in Nat /\ state \in [Selected -> {"Verified", "Programmed", "Failed"}]
    BY <1>0 DEF ActivationTypeOK
  <2>2. CASE Request(r)
    <3>1. state' = state /\ (faults' = faults \/ faults' = faults + 1)
      BY <2>2 DEF Request
    <3>2. command' = command \/ command' = [command EXCEPT ![r] = TRUE]
      BY <2>2 DEF Request
    <3>3. \A q \in Selected : q # r => command'[q] = command[q]
      BY <2>1, <3>2
    <3>4. command' \in [Selected -> BOOLEAN]
      BY <2>1, <3>2
    <3> QED
      BY <2>1, <3>1, <3>3, <3>4
  <2>3. CASE RequestFails(r)
    <3>1. faults' \in Nat
      BY <2>1, <2>3 DEF RequestFails
    <3>2. /\ \A q \in Selected : q # r => state'[q] = state[q]
          /\ state' \in [Selected -> {"Verified", "Programmed", "Failed"}]
      BY <2>1, <2>3 DEF RequestFails, FailRoc
    <3>3. \A q \in Selected : q # r => command'[q] = command[q]
      BY <2>1, <2>3 DEF RequestFails
    <3>4. command' \in [Selected -> BOOLEAN]
      BY <2>1, <2>3 DEF RequestFails
    <3> QED
      BY <3>1, <3>2, <3>3, <3>4
  <2> QED
    BY <2>2, <2>3
<1>3. verBefore' \in [Selected -> {0, OldVersion}]
  BY <1>0 DEF Request, RequestFails, ActivationTypeOK, OneRestart
<1>4. ActivationTypeOK'
  BY <1>0, <1>1, <1>2, <1>3 DEF ActivationTypeOK
<1>5. PollOK'
  BY <1>0, <1>1 DEF PollOK, PollOf
<1>6. time = 0
  BY <1>0 DEF RefusalStays, ActivationTypeOK, MaxTime
<1>7. ASSUME NEW q \in Selected PROVE OneRestart(q)' /\ RefusalStays(q)'
  <2>1. OneRestart(q) /\ RefusalStays(q)
    BY DEF Inv
  <2> QED
    BY <1>0, <1>1, <1>2, <1>6, <2>1 DEF OneRestart, RefusalStays
<1> QED
  BY <1>4, <1>5, <1>7 DEF Inv

\* The beginning of a sweep of polls keeps the invariant.
LEMMA SweepKeepsInv ==
  ASSUME Inv, StartSweep \/ TimePasses
  PROVE  Inv'
<1>0. ActivationTypeOK /\ PollOK
  BY DEF Inv
<1>1. /\ toSend = {} /\ polled = NoPoll
      /\ UNCHANGED <<roc, state, verBefore, toSend, sent, finished, wentDown, resyncs, polled, faults>>
  BY DEF StartSweep, TimePasses, sessionVars
<1>2. /\ sweep' \subseteq sent \ finished /\ ended' \in BOOLEAN /\ time' \in 0..MaxTime
      /\ time' = time \/ (time' = time + 1 /\ (time = 0 => \A q \in Selected : ~command[q] \/ ~up[q]))
  <2>1. CASE StartSweep
    BY <1>0, <2>1 DEF StartSweep, Pending, ActivationTypeOK
  <2>2. CASE TimePasses
    <3>1. UNCHANGED sessionVars
      BY <2>2 DEF TimePasses
    <3>2. sweep' \subseteq sent \ finished /\ ended' \in BOOLEAN
      BY <1>0, <3>1 DEF sessionVars, PollOK, ActivationTypeOK
    <3>3. time' \in 0..MaxTime /\ time' = time + 1
      BY <1>0, <2>2 DEF TimePasses, ActivationTypeOK, MaxTime
    <3> QED
      BY <2>2, <3>2, <3>3 DEF TimePasses
  <2> QED
    BY <2>1, <2>2
<1>3. ActivationTypeOK' /\ PollOK'
  BY <1>0, <1>1, <1>2 DEF ActivationTypeOK, PollOK, roc
<1>4. ASSUME NEW q \in Selected PROVE OneRestart(q)' /\ RefusalStays(q)'
  <2>1. OneRestart(q) /\ RefusalStays(q)
    BY DEF Inv
  <2>2. time' > 0 => ~command[q]
    BY <1>0, <1>2, <2>1 DEF OneRestart, RefusalStays, ActivationTypeOK
  <2> QED
    BY <1>1, <2>1, <2>2 DEF OneRestart, RefusalStays, roc
<1> QED
  BY <1>3, <1>4 DEF Inv

\* The reads of a poll keep the invariant.
LEMMA ReadsKeepInv ==
  ASSUME Inv, NEW r \in Selected, ReadDone(r) \/ ReadRet(r)
  PROVE  Inv'
<1>0. ActivationTypeOK /\ PollOK
  BY DEF Inv
<1>1. UNCHANGED <<roc, state, verBefore, toSend, sent, finished, wentDown, resyncs, ended, time, faults>>
  BY DEF ReadDone, ReadRet
<1>2. /\ sweep' \subseteq sweep /\ r \in sent \ finished /\ r \notin sweep' /\ PollOf(r)'
      /\ polled'.roc = r /\ (polled'.next = "version" => polled'.ret = ret[r])
  <2>1. CASE ReadDone(r)
    <3>1. polled' = [roc |-> r, done |-> miv[r], next |-> "ret"] /\ sweep' = sweep \ {r} /\ r \in sweep
      BY <2>1 DEF ReadDone
    <3> QED
      BY <1>0, <3>1 DEF PollOf, PollOK, ActivationTypeOK
  <2>2. CASE ReadRet(r)
    <3>1. polled' = [roc |-> r, done |-> polled.done, ret |-> ret[r], next |-> "version"] /\ sweep' = sweep
      BY <2>2 DEF ReadRet
    <3>2. polled.roc = r
      BY <2>2 DEF ReadRet
    <3>3. polled.done \in {"done", "busy", "fresh"} /\ ret[r] \in {0, 1}
      BY <1>0, <3>2, PollIs DEF ActivationTypeOK
    <3> QED
      BY <3>1, <3>2, <3>3, PollIs DEF PollOf
  <2> QED
    BY <2>1, <2>2
<1>3. ActivationTypeOK'
  BY <1>0, <1>1, <1>2 DEF ActivationTypeOK, roc
<1>4. PollOK'
  BY <1>0, <1>1, <1>2 DEF PollOK
<1>5. ASSUME NEW q \in Selected PROVE OneRestart(q)' /\ RefusalStays(q)'
  BY <1>1, <1>2 DEF Inv, OneRestart, RefusalStays, roc
<1> QED
  BY <1>3, <1>4, <1>5 DEF Inv

\* A poll that is over, with or without a verdict.
LEMMA PollEnds ==
  ASSUME Inv, NEW r \in sent \ finished, polled' = NoPoll, sweep' = sweep \ {r},
         finished' \in {finished, finished \cup {r}}, wentDown' \in {wentDown, wentDown \cup {r}},
         state' \in [Selected -> {"Verified", "Programmed", "Failed"}],
         resyncs' \in [Selected -> 0..LinkResyncTries], faults' \in Nat,
         stuck' \in [Selected -> BOOLEAN], latched' \in [Selected -> BOOLEAN],
         \A q \in Selected \ {r} : state'[q] = state[q],
         UNCHANGED <<miv, ret, version, command, up, restarts, verBefore, toSend, sent, ended, time>>
  PROVE  Inv'
<1>0. ActivationTypeOK /\ PollOK
  BY DEF Inv
<1>1. ActivationTypeOK'
  BY <1>0 DEF ActivationTypeOK, PollOK
<1>2. PollOK'
  BY <1>0 DEF PollOK
<1>3. ASSUME NEW q \in Selected PROVE OneRestart(q)' /\ RefusalStays(q)'
  BY DEF Inv, OneRestart, RefusalStays
<1> QED
  BY <1>1, <1>2, <1>3 DEF Inv

\* The verdicts on what has been read keep the invariant.
LEMMA VerdictsKeepInv ==
  ASSUME Inv, NEW r \in Selected, ReadVersion(r) \/ ReadFails(r)
  PROVE  Inv'
<1>0. ActivationTypeOK /\ PollOK
  BY DEF Inv
<1>1. CASE ReadVersion(r)
  <2> DEFINE j == Judge(r, polled.done, polled.ret, version[r])
             v == IF j = "pending" /\ TimedOut(r) THEN "Failed" ELSE j
  <2>1. polled.roc = r /\ polled' = NoPoll
        /\ UNCHANGED <<roc, verBefore, toSend, sent, wentDown, resyncs, sweep, ended, time, faults>>
    BY <1>1 DEF ReadVersion
  <2>2. r \in sent \ finished /\ r \notin sweep
    BY <2>1, PollIs
  <2>3. v \in {"pending", "Programmed", "Failed"}
    BY DEF Judge
  <2>4. IF v = "pending" THEN UNCHANGED <<state, finished>>
        ELSE state' = [state EXCEPT ![r] = v] /\ finished' = finished \cup {r}
    BY <1>1 DEF ReadVersion, Conclude
  <2> HIDE DEF v
  <2>5. /\ state' \in [Selected -> {"Verified", "Programmed", "Failed"}]
        /\ \A q \in Selected \ {r} : state'[q] = state[q]
        /\ finished' \in {finished, finished \cup {r}}
    BY <1>0, <2>3, <2>4 DEF ActivationTypeOK
  <2>6. sweep' = sweep \ {r}
    BY <2>1, <2>2
  <2> QED
    BY <1>0, <2>1, <2>2, <2>5, <2>6, PollEnds DEF ActivationTypeOK, roc
<1>2. CASE ReadFails(r)
  <2>1. r \in sent \ finished
    BY <1>0, <1>2, PollIs DEF ReadFails, PollsNow, PollOK
  <2>2. /\ polled' = NoPoll /\ sweep' = sweep \ {r} /\ wentDown' = wentDown \cup {r}
        /\ UNCHANGED <<miv, ret, version, command, up, restarts, verBefore, toSend, sent, ended, time>>
    BY <1>2 DEF ReadFails, NoAnswer
  <2>3. /\ state' \in [Selected -> {"Verified", "Programmed", "Failed"}]
        /\ \A q \in Selected \ {r} : state'[q] = state[q]
        /\ finished' \in {finished, finished \cup {r}}
    BY <1>0, <1>2 DEF ReadFails, NoAnswer, FailRoc, ActivationTypeOK
  <2>4. resyncs' \in [Selected -> 0..LinkResyncTries]
    BY <1>0, <1>2, LimitAssumption DEF ReadFails, NoAnswer, ResyncsAllowed, ActivationTypeOK
  <2>5. stuck' \in [Selected -> BOOLEAN] /\ latched' \in [Selected -> BOOLEAN] /\ faults' \in Nat
    <3>1. faults' \in Nat
      BY <1>0, <1>2 DEF ReadFails, ActivationTypeOK
    <3>2. /\ stuck \in [Selected -> BOOLEAN] /\ latched \in [Selected -> BOOLEAN] /\ up \in [Selected -> BOOLEAN]
          /\ Resync(r) \/ UNCHANGED <<stuck, latched>>
      BY <1>0, <1>2 DEF ReadFails, NoAnswer, ActivationTypeOK
    <3>3. CASE Resync(r)
      BY <3>1, <3>2, <3>3 DEF Resync
    <3> QED
      BY <3>1, <3>2, <3>3
  <2> QED
    BY <2>1, <2>2, <2>3, <2>4, <2>5, PollEnds
<1> QED
  BY <1>1, <1>2

-----------------------------------------------------------------------------
(* The theorems                                                             *)

\* The invariant holds at first.
LEMMA InitInv == ActivationInit => Inv
<1> SUFFICES ASSUME ActivationInit PROVE Inv
  OBVIOUS
<1>1. ActivationTypeOK
  <2>1. /\ version \in [Selected -> {OldVersion, ImageVersion}]
        /\ restarts \in [Selected -> Nat] /\ verBefore \in [Selected -> {0, OldVersion}]
    BY VersionAssumption DEF ActivationInit
  <2>2. resyncs \in [Selected -> 0..LinkResyncTries] /\ time \in 0..MaxTime /\ faults \in Nat
    BY LimitAssumption DEF ActivationInit, MaxTime
  <2>3. state \in [Selected -> {"Verified", "Programmed", "Failed"}] /\ toSend \subseteq Selected
    BY DEF ActivationInit
  <2> QED
    BY <2>1, <2>2, <2>3 DEF ActivationInit, ActivationTypeOK
<1>2. PollOK
  BY DEF ActivationInit, PollOK
<1>3. ASSUME NEW r \in Selected PROVE OneRestart(r) /\ RefusalStays(r)
  BY DEF ActivationInit, OneRestart, RefusalStays
<1> QED
  BY <1>1, <1>2, <1>3 DEF Inv

\* Every step of the activation keeps the invariant.
LEMMA NextInv == Inv /\ [ActivationNext]_activationVars => Inv'
<1> SUFFICES ASSUME Inv, [ActivationNext]_activationVars PROVE Inv'
  OBVIOUS
<1>1. CASE UNCHANGED activationVars
  BY <1>1 DEF Inv, ActivationTypeOK, PollOK, PollOf, OneRestart, RefusalStays, activationVars, roc, sessionVars
<1> QED
  BY <1>1, RocKeepsInv, RequestsKeepInv, SweepKeepsInv, ReadsKeepInv, VerdictsKeepInv DEF ActivationNext, Session

\* The invariant of the activation (activate() and the ROCs it restarts) holds in every state.
THEOREM Invariance == ActivationSpec => []Inv
<1> QED
  BY InitInv, NextInv, PTL DEF ActivationSpec

\* Every variable keeps its type (activate() and the ROCs), for any ROCs and faults.
THEOREM ActivationTypeCorrect == ActivationSpec => []ActivationTypeOK
<1>1. Inv => ActivationTypeOK
  BY DEF Inv
<1> QED
  BY <1>1, Invariance, PTL

\* A ROC reported as programmed has restarted and runs the expected version (activate()), when
\* the caller gave one and it is not the version that ran before.
THEOREM ProgrammedIsTrue ==
  ASSUME Expected # 0, Expected # OldVersion
  PROVE  ActivationSpec => []ProgrammedRunsExpected
<1>1. ActivationInit => ProgrammedRunsExpected
  BY DEF ActivationInit, ProgrammedRunsExpected
<1>2. Inv /\ ProgrammedRunsExpected /\ [ActivationNext]_activationVars => ProgrammedRunsExpected'
  <2> SUFFICES ASSUME Inv, ProgrammedRunsExpected, [ActivationNext]_activationVars, NEW r \in Selected, state'[r] = "Programmed"
               PROVE  (restarts[r] > 0 /\ version[r] = Expected)'
    BY DEF ProgrammedRunsExpected
  <2>0. ActivationTypeOK /\ OneRestart(r)
    BY DEF Inv
  <2>1. CASE state[r] = "Programmed"
    <3>1. restarts[r] > 0 /\ version[r] = Expected
      BY <2>1 DEF ProgrammedRunsExpected
    <3>2. up[r] /\ miv[r] # "busy"
      BY <2>0, <3>1 DEF OneRestart, ActivationTypeOK
    <3>3. restarts'[r] = restarts[r] /\ version'[r] = version[r]
      BY <2>0, <3>2 DEF ActivationTypeOK, ActivationNext, Session, RocRuns, MivTakes, Refuses, GoesDown, ComesBack, Request,
                        RequestFails, StartSweep, TimePasses, ReadDone, ReadRet, ReadVersion, ReadFails,
                        NoAnswer, activationVars, roc
    <3> QED
      BY <3>1, <3>3
  <2>2. CASE state[r] # "Programmed"
    <3>1. PICK q \in Selected : ReadVersion(q)
      BY <2>0, <2>2 DEF ActivationTypeOK, ActivationNext, Session, RocRuns, MivTakes, Refuses, GoesDown, ComesBack, Request,
                        RequestFails, FailRoc, StartSweep, TimePasses, ReadDone, ReadRet, ReadFails,
                        NoAnswer, activationVars, sessionVars
    <3>2. r = q /\ Judge(q, polled.done, polled.ret, version[q]) = "Programmed"
      BY <2>0, <2>2, <3>1 DEF ReadVersion, Conclude, ActivationTypeOK
    <3>3. version[r] = Expected
      BY <3>2 DEF Judge
    <3>4. restarts[r] > 0
      BY <2>0, <3>3 DEF OneRestart, ActivationTypeOK
    <3>5. UNCHANGED <<restarts, version>>
      BY <3>1 DEF ReadVersion, roc
    <3> QED
      BY <3>3, <3>4, <3>5
  <2> QED
    BY <2>1, <2>2
<1> QED
  BY <1>1, <1>2, Invariance, PTL DEF ActivationSpec

\* A ROC that fails before any time-out has refused the image, or never got the request: it has
\* not restarted and will not any more (activate(), the first case of the verdict).
THEOREM EarlyFailureIsFinal == ActivationSpec => EarlyFailureIsRefusal
<1>1. Inv /\ [ActivationNext]_activationVars =>
        [\A r \in sent : state[r] = "Verified" /\ state'[r] = "Failed" /\ ~AuthOver(time) =>
           restarts[r] = 0 /\ up[r] /\ ~command[r] /\ miv[r] = "done"]_activationVars
  <2> SUFFICES ASSUME Inv, ActivationNext, NEW r \in sent, state[r] = "Verified", state'[r] = "Failed", ~AuthOver(time)
               PROVE  restarts[r] = 0 /\ up[r] /\ ~command[r] /\ miv[r] = "done"
    OBVIOUS
  <2>0. ActivationTypeOK /\ r \in Selected /\ OneRestart(r) /\ RefusalStays(r)
    <3>1. r \in Selected
      BY DEF Inv, PollOK, ActivationTypeOK
    <3> QED
      BY <3>1 DEF Inv
  <2>1. PICK q \in Selected : ReadVersion(q) \/ ReadFails(q)
    BY <2>0 DEF ActivationTypeOK, OneRestart, ActivationNext, Session, RocRuns, MivTakes, Refuses, GoesDown, ComesBack, Request,
                RequestFails, FailRoc, StartSweep, TimePasses, ReadDone, ReadRet, sessionVars
  <2>2. ~BackOver(time)
    BY <2>0 DEF AuthOver, BackOver, ActivationTypeOK, MaxTime
  <2>3. ReadVersion(q)
    BY <2>1, <2>2 DEF ReadFails, NoAnswer
  <2>4. q = r /\ Judge(q, polled.done, polled.ret, version[q]) = "Failed"
    BY <2>0, <2>2, <2>3 DEF ReadVersion, Conclude, TimedOut, ActivationTypeOK
  <2>5. polled.ret # 0 /\ Taken(time)
    BY <2>2, <2>4 DEF Judge
  <2>6. polled # NoPoll /\ polled.roc = r /\ polled.next = "version"
    BY <2>3, <2>4, PollIs DEF ReadVersion
  <2>7. ret[r] # 0 /\ ~command[r]
    BY <2>0, <2>5, <2>6 DEF RefusalStays, Taken, ActivationTypeOK, MaxTime
  <2> QED
    BY <2>0, <2>7 DEF OneRestart, RefusalStays
<1> QED
  BY <1>1, Invariance, PTL DEF ActivationSpec, EarlyFailureIsRefusal
=============================================================================
