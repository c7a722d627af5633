------------------------------- MODULE RunInfo -------------------------------
(***************************************************************************)
(* The run information plugin (DBRunInfo_runInfo.cc): every supervisor     *)
(* that runs a state machine has one, with its own connection to the run   *)
(* database.  A call is a row of statements, each its own transaction; a   *)
(* statement may be refused, the connection may be cut before it reaches   *)
(* the database or before the answer comes back, and the plugin reconnects *)
(* at the next call only.  A crash of the supervisor ends the call         *)
(* wherever it is.                                                         *)
(*                                                                         *)
(* External: the database, and the supervisor, which makes the calls in    *)
(* the order that DBRunInfo.h tells (claim before the start, the condition *)
(* at its end, an update for every transition) and gives a run up when a   *)
(* call throws.                                                            *)
(***************************************************************************)
EXTENDS Integers, Sequences, FiniteSets, SequencesExt

CONSTANTS
  Client,     \* plugins, each with its supervisor
  Subsystem,  \* subsystems in the condition of a run
  MaxNumber,  \* bound: run numbers that the database gives
  MaxPauses,  \* bound: pauses of a run
  NoNumber

ASSUME NumberAssumption == MaxNumber \in Nat /\ MaxPauses \in Nat /\ NoNumber \notin Nat
ASSUME SubsystemAssumption == IsFiniteSet(Subsystem)

Transition == {"START", "PAUSE", "RESUME", "STOP", "STOP_COMPLETE", "HALT", "HALT_COMPLETE", "ERROR"}

VARIABLES
  up,           \* the database accepts connections
  link,         \* connection of a client; "cut" is one whose end libpq has not noticed
  serial,       \* last number that the database gave
  runs,         \* table run: number -> the client that inserted the row
  transitions,  \* table run_transition: number -> its rows in order
  ends,         \* table run_end_info: number -> how many rows
  config,       \* table config: number -> subsystem -> how many rows
  state,        \* state machine of the supervisor
  run,          \* number of the run that the supervisor has in hand
  todo,         \* statements left of the call under way
  number        \* runNumber in that call

tables     == <<serial, runs, transitions, ends, config>>
supervisor == <<state, run>>
call       == <<todo, number>>
vars       == <<up, link, tables, supervisor, call>>

-----------------------------------------------------------------------------
(* Calls as rows of statements                                              *)

Do(s)            == [do |-> s, what |-> ""]
DoWith(s, w)     == [do |-> s, what |-> w]

\* Mutant: the end comment is written before the transition.
UpdateEndFirst(t) ==
  <<Do("connect")>> \o (IF t = "STOP" THEN <<Do("end")>> ELSE <<>>) \o <<DoWith("transition", t)>>

\* updateRunInfo
Update(t) ==
  <<Do("connect"), DoWith("transition", t)>> \o (IF t = "STOP" THEN <<Do("end")>> ELSE <<>>)

\* claimNextRunNumber
Claim == <<Do("connect"), Do("type"), Do("run")>> \o Update("START")

\* Mutant: the loop returns after the first subsystem.
ConditionOfFirst == <<Do("connect"), DoWith("config", SetToSeq(Subsystem)[1])>>

\* insertRunCondition: one row for every subsystem, in the order of the map.
Condition ==
  LET order == SetToSeq(Subsystem)
  IN  <<Do("connect")>> \o [i \in 1..Cardinality(Subsystem) |-> DoWith("config", order[i])]

\* State that a call leads to when it returns.
After(s) ==
  CASE s = "claiming"   -> "starting"
    [] s = "recording"  -> "running"
    [] s = "pausing"    -> "paused"
    [] s = "resuming"   -> "running"
    [] s = "stopping"   -> "stopped"
    [] s = "halting"    -> "halted"
    [] s \in {"finishing", "failing"} -> "configured"

InCall(c) == todo[c] # <<>>

-----------------------------------------------------------------------------
Init ==
  /\ up = TRUE
  /\ link = [c \in Client |-> "up"]
  /\ serial = 0
  /\ runs = <<>>
  /\ transitions = <<>>
  /\ ends = <<>>
  /\ config = <<>>
  /\ state = [c \in Client |-> "configured"]
  /\ run = [c \in Client |-> NoNumber]
  /\ todo = [c \in Client |-> <<>>]
  /\ number = [c \in Client |-> NoNumber]

Number == DOMAIN runs

-----------------------------------------------------------------------------
(* The supervisor                                                           *)

Calls(c, s, statements) ==
  /\ state' = [state EXCEPT ![c] = s]
  /\ todo' = [todo EXCEPT ![c] = statements]
  /\ UNCHANGED <<up, link, tables, run>>

\* A call other than a claim is told the number of the run in hand.
CallsAbout(c, s, statements) ==
  /\ Calls(c, s, statements)
  /\ number' = [number EXCEPT ![c] = run[c]]

Start(c) ==
  /\ state[c] = "configured"
  /\ serial < MaxNumber
  /\ Calls(c, "claiming", Claim)
  /\ number' = [number EXCEPT ![c] = NoNumber]

EndOfStart(c) == state[c] = "starting" /\ CallsAbout(c, "recording", Condition)

Pauses(n) == Cardinality({i \in DOMAIN transitions[n] : transitions[n][i] = "PAUSE"})

Pause(c) ==
  /\ state[c] = "running" /\ Pauses(run[c]) < MaxPauses
  /\ CallsAbout(c, "pausing", Update("PAUSE"))

Resume(c) == state[c] = "paused" /\ CallsAbout(c, "resuming", Update("RESUME"))

Stop(c) == state[c] \in {"running", "paused"} /\ CallsAbout(c, "stopping", Update("STOP"))

StopComplete(c) == state[c] = "stopped" /\ CallsAbout(c, "finishing", Update("STOP_COMPLETE"))

Halt(c) == state[c] \in {"running", "paused"} /\ CallsAbout(c, "halting", Update("HALT"))

HaltComplete(c) == state[c] = "halted" /\ CallsAbout(c, "finishing", Update("HALT_COMPLETE"))

\* A state machine that fails with a run in hand records it once.
Error(c) ==
  /\ state[c] \in {"starting", "running", "paused", "stopped", "halted", "failed"}
  /\ run[c] # NoNumber
  /\ CallsAbout(c, "failing", Update("ERROR"))

\* Without a run there is nothing to record.
Recover(c) ==
  /\ state[c] = "failed" /\ run[c] = NoNumber
  /\ state' = [state EXCEPT ![c] = "configured"]
  /\ UNCHANGED <<up, link, tables, run, call>>

\* The supervisor dies and is started again; its plugin connects or it does not come up.
Restart(c) ==
  /\ up
  /\ link' = [link EXCEPT ![c] = "up"]
  /\ state' = [state EXCEPT ![c] = "configured"]
  /\ run' = [run EXCEPT ![c] = NoNumber]
  /\ todo' = [todo EXCEPT ![c] = <<>>]
  /\ number' = [number EXCEPT ![c] = NoNumber]
  /\ UNCHANGED <<up, tables>>

-----------------------------------------------------------------------------
(* The database                                                             *)

DatabaseFails ==
  /\ up
  /\ up' = FALSE
  /\ link' = [c \in Client |-> IF link[c] = "up" THEN "cut" ELSE link[c]]
  /\ UNCHANGED <<tables, supervisor, call>>

DatabaseReturns ==
  /\ ~up
  /\ up' = TRUE
  /\ UNCHANGED <<link, tables, supervisor, call>>

LinkIsCut(c) ==
  /\ link[c] = "up"
  /\ link' = [link EXCEPT ![c] = "cut"]
  /\ UNCHANGED <<up, tables, supervisor, call>>

-----------------------------------------------------------------------------
(* A call under way                                                         *)

Statement(c) == Head(todo[c])

ClaimedNumber(c) == number'[c]

\* The call goes on, or returns: the supervisor takes the number of a claim over.
Proceeds(c) ==
  /\ todo' = [todo EXCEPT ![c] = Tail(@)]
  /\ IF Len(todo[c]) > 1
     THEN UNCHANGED supervisor
     ELSE /\ state' = [state EXCEPT ![c] = After(@)]
          /\ run' = [run EXCEPT ![c] = CASE state[c] = "claiming" -> ClaimedNumber(c)
                                         [] state[c] \in {"finishing", "failing"} -> NoNumber
                                         [] OTHER -> @]

\* The exception leaves the call.  An ERROR that cannot be recorded is given up.
Throws(c) ==
  /\ todo' = [todo EXCEPT ![c] = <<>>]
  /\ state' = [state EXCEPT ![c] = IF @ = "failing" THEN "configured" ELSE "failed"]
  /\ run' = [run EXCEPT ![c] = IF state[c] = "failing" THEN NoNumber ELSE @]
  /\ UNCHANGED number

\* checkAndReconnectDb: libpq knows of a connection that it has seen fail only.
Connect(c) ==
  /\ InCall(c) /\ Statement(c).do = "connect"
  /\ UNCHANGED <<up, tables, number>>
  /\ IF link[c] \in {"up", "cut"}
     THEN UNCHANGED link /\ Proceeds(c)
     ELSE IF up THEN link' = [link EXCEPT ![c] = "up"] /\ Proceeds(c)
                ELSE link' = [link EXCEPT ![c] = "none"] /\ Throws(c)

IsStatement(c) == InCall(c) /\ Statement(c).do # "connect"

\* Mutant: the transition goes to the last run of the table.
LastRun(c) == CHOOSE n \in Number : \A k \in Number : k <= n

RunOf(c) == number[c]

\* What a statement does to the tables; the row of a run brings its number with it.
Commits(c) ==
  LET s == Statement(c)
  IN  CASE s.do = "type" -> UNCHANGED tables
        [] s.do = "run" ->
             /\ serial' = serial + 1
             /\ runs' = [k \in Number \cup {serial + 1} |-> IF k \in Number THEN runs[k] ELSE c]
             /\ transitions' = [k \in Number \cup {serial + 1} |-> IF k \in Number THEN transitions[k] ELSE <<>>]
             /\ ends' = [k \in Number \cup {serial + 1} |-> IF k \in Number THEN ends[k] ELSE 0]
             /\ config' = [k \in Number \cup {serial + 1} |->
                             IF k \in Number THEN config[k] ELSE [x \in Subsystem |-> 0]]
        [] s.do = "transition" ->
             /\ transitions' = [transitions EXCEPT ![RunOf(c)] = Append(@, s.what)]
             /\ UNCHANGED <<serial, runs, ends, config>>
        [] s.do = "end" ->
             /\ ends' = [ends EXCEPT ![RunOf(c)] = @ + 1]
             /\ UNCHANGED <<serial, runs, transitions, config>>
        [] s.do = "config" ->
             /\ config' = [config EXCEPT ![RunOf(c)][s.what] = @ + 1]
             /\ UNCHANGED <<serial, runs, transitions, ends>>

\* Bound: a row of a run needs a number.
HasNumber(c) == Statement(c).do = "run" => serial < MaxNumber

Succeeds(c) ==
  /\ IsStatement(c) /\ link[c] = "up" /\ HasNumber(c)
  /\ Commits(c)
  /\ number' = [number EXCEPT ![c] = IF Statement(c).do = "run" THEN serial + 1 ELSE @]
  /\ Proceeds(c)
  /\ UNCHANGED <<up, link>>

\* The database refuses the statement, or the plugin does not get as far as sending it (an
\* unknown run type, a condition that is no JSON).  A refused row may have used its number up.
IsRefused(c) ==
  /\ IsStatement(c) /\ link[c] = "up"
  /\ Throws(c)
  /\ serial' \in {serial} \cup (IF Statement(c).do = "run" /\ HasNumber(c) THEN {serial + 1} ELSE {})
  /\ UNCHANGED <<up, link, runs, transitions, ends, config>>

\* The statement is committed and the answer is lost.
AnswerIsLost(c) ==
  /\ IsStatement(c) /\ link[c] = "up" /\ HasNumber(c)
  /\ Commits(c)
  /\ Throws(c)
  /\ link' = [link EXCEPT ![c] = "bad"]
  /\ UNCHANGED up

\* The statement never reaches the database.
IsNotSent(c) ==
  /\ IsStatement(c) /\ link[c] = "cut"
  /\ Throws(c)
  /\ link' = [link EXCEPT ![c] = "bad"]
  /\ UNCHANGED <<up, tables>>

-----------------------------------------------------------------------------
Supervises(c) ==
  Start(c) \/ EndOfStart(c) \/ Pause(c) \/ Resume(c) \/ Stop(c) \/ StopComplete(c)
  \/ Halt(c) \/ HaltComplete(c) \/ Error(c) \/ Recover(c) \/ Restart(c)

Executes(c) == Connect(c) \/ Succeeds(c) \/ IsRefused(c) \/ AnswerIsLost(c) \/ IsNotSent(c)

Next ==
  \/ DatabaseFails \/ DatabaseReturns
  \/ \E c \in Client : LinkIsCut(c) \/ Supervises(c) \/ Executes(c)

Spec == Init /\ [][Next]_vars

-----------------------------------------------------------------------------
(* What getRunRecords and getRunConfigSubsystemInfo read                    *)

RowsOf(t, n) == Cardinality({i \in DOMAIN transitions[n] : transitions[n][i] = t})

\* The rows of run n: a join of run with the START transitions and with the end comments.
Listed(n) == RowsOf("START", n) * (IF ends[n] = 0 THEN 1 ELSE ends[n])

\* latest_type
Latest(n) == transitions[n][Len(transitions[n])]

-----------------------------------------------------------------------------
(* Properties                                                               *)

State == {"configured", "claiming", "starting", "recording", "running", "pausing", "paused",
          "resuming", "stopping", "stopped", "halting", "halted", "finishing", "failing", "failed"}

Statements == [do : {"connect", "type", "run", "transition", "end", "config"},
               what : Transition \cup Subsystem \cup {""}]

\* Types of the variables.
TypeOK ==
  /\ up \in BOOLEAN
  /\ link \in [Client -> {"up", "cut", "bad", "none"}]
  /\ serial \in 0..MaxNumber
  /\ Number \subseteq 1..serial
  /\ runs \in [Number -> Client]
  /\ transitions \in [Number -> Seq(Transition)]
  /\ ends \in [Number -> Nat]
  /\ config \in [Number -> [Subsystem -> Nat]]
  /\ state \in [Client -> State]
  /\ run \in [Client -> Number \cup {NoNumber}]
  /\ todo \in [Client -> Seq(Statements)]
  /\ number \in [Client -> Number \cup {NoNumber}]

Book == INSTANCE RunBook WITH owner <- runs, page <- transitions

\* The tables are a book of runs, whatever is refused, cut, lost or ends in a crash, and in
\* whatever order the clients' statements come: no number is given twice, nobody writes to the
\* run of another, and the transitions of a run come in an order in which a run can go through
\* them (DBRunInfo_runInfo.cc:1040 "This should be a valid run number that was previously
\* created").
ImplementsBook == Book!Spec

\* Between two calls the list shows a run as its supervisor sees it, and a run has an end
\* comment only if it has been stopped, and then for certain once its stop is complete.
StatusIsTrue ==
  /\ \A c \in Client :
       /\ state[c] \in {"starting", "running"} => Latest(run[c]) \in {"START", "RESUME"}
       /\ state[c] = "paused" => Latest(run[c]) = "PAUSE"
       /\ state[c] = "stopped" => Latest(run[c]) = "STOP"
       /\ state[c] = "halted" => Latest(run[c]) = "HALT"
  /\ \A n \in Number :
       /\ ends[n] > 0 => RowsOf("STOP", n) > 0
       /\ RowsOf("STOP_COMPLETE", n) > 0 => ends[n] = 1

\* A run that runs has one row for every subsystem, and no run has two (DBRunInfo.h:88 "Returns
\* one row per subsystem").
ConditionIsWhole ==
  /\ \A n \in Number, s \in Subsystem : config[n][s] <= 1
  /\ \A c \in Client, s \in Subsystem :
       state[c] \in {"running", "paused", "stopped", "halted"} => config[run[c]][s] = 1
=============================================================================
