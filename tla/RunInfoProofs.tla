---------------------------- MODULE RunInfoProofs ----------------------------
(***************************************************************************)
(* Proofs about RunInfo for any clients, subsystems and bounds: the types, *)
(* that the tables behave as a book of runs (RunBook), that the rows of a  *)
(* run tell what became of it, and that its condition is whole.            *)
(*                                                                         *)
(* The invariant says of every client, apart from the others, what is left *)
(* of its call and what is on the page of its run.  A step of a client     *)
(* touches the rows of its own runs only, so that the others keep theirs.  *)
(***************************************************************************)
EXTENDS RunInfo, FiniteSetTheorems, SequenceTheorems, TLAPS

\* State between two calls.
Idle == {"configured", "starting", "running", "paused", "stopped", "halted", "failed"}

\* What is left of a call that has yet to write transition t.
Unwritten(t) ==
  IF t = "STOP"
  THEN {<<Do("connect"), DoWith("transition", t), Do("end")>>,
        <<DoWith("transition", t), Do("end")>>}
  ELSE {<<Do("connect"), DoWith("transition", t)>>, <<DoWith("transition", t)>>}

\* What is left of a claim that has no number yet.
Unclaimed ==
  {<<Do("connect"), Do("type"), Do("run"), Do("connect"), DoWith("transition", "START")>>,
   <<Do("type"), Do("run"), Do("connect"), DoWith("transition", "START")>>,
   <<Do("run"), Do("connect"), DoWith("transition", "START")>>}

\* n is the last run that c has opened.
Newest(c, n) ==
  /\ n \in Number /\ runs[n] = c
  /\ \A k \in Number : runs[k] = c => k <= n

\* The page of run n is at one of these transitions, and has no end comment.
IsAt(n, ts)  == Latest(n) \in ts
NotEnded(n)  == ends[n] = 0
Empty(n)     == transitions[n] = <<>>
HasRow(t, n) == \E i \in DOMAIN transitions[n] : transitions[n][i] = t

-----------------------------------------------------------------------------
(* The invariant                                                            *)

\* Which run a client has in hand, and that a call is about that run.
InHand(c) ==
  /\ state[c] \in Idle => todo[c] = <<>>
  /\ state[c] \in {"configured", "claiming"} => run[c] = NoNumber
  /\ state[c] \notin {"configured", "claiming", "failed"} => run[c] # NoNumber
  /\ state[c] \notin Idle \cup {"claiming"} => number[c] = run[c]
  /\ run[c] # NoNumber => /\ Newest(c, run[c])
                          /\ ~Empty(run[c])
                          /\ ~IsAt(run[c], {"ERROR"})

\* A claim has either not yet a number, or one with an empty page.
Claiming(c) ==
  state[c] = "claiming" =>
    \/ todo[c] \in Unclaimed
    \/ /\ todo[c] \in Unwritten("START")
       /\ Newest(c, number[c]) /\ Empty(number[c]) /\ NotEnded(number[c])

\* The page of the run in hand between the calls and while the condition is recorded.
Pages(c) ==
  /\ state[c] \in {"starting", "recording", "running"} =>
       IsAt(run[c], {"START", "RESUME"}) /\ NotEnded(run[c])
  /\ state[c] = "paused" => IsAt(run[c], {"PAUSE"}) /\ NotEnded(run[c])
  /\ state[c] = "stopped" => IsAt(run[c], {"STOP"}) /\ ends[run[c]] = 1
  /\ state[c] = "halted" => IsAt(run[c], {"HALT"})

\* The condition is a row of statements about the subsystems.
Recording(c) ==
  state[c] = "recording" =>
    /\ todo[c] # <<>>
    /\ todo[c] \in Seq({Do("connect")} \cup {DoWith("config", s) : s \in Subsystem})

\* A call that writes a transition has yet to write one that fits, or only the end comment
\* is left.
Writing(c) ==
  /\ state[c] = "pausing" =>
       /\ todo[c] \in Unwritten("PAUSE")
       /\ IsAt(run[c], {"START", "RESUME"}) /\ NotEnded(run[c])
  /\ state[c] = "resuming" =>
       /\ todo[c] \in Unwritten("RESUME")
       /\ IsAt(run[c], {"PAUSE"}) /\ NotEnded(run[c])
  /\ state[c] = "stopping" =>
       \/ /\ todo[c] \in Unwritten("STOP")
          /\ IsAt(run[c], {"START", "RESUME", "PAUSE"}) /\ NotEnded(run[c])
       \/ /\ todo[c] = <<Do("end")>>
          /\ IsAt(run[c], {"STOP"}) /\ NotEnded(run[c])
  /\ state[c] = "halting" =>
       todo[c] \in Unwritten("HALT") /\ IsAt(run[c], {"START", "RESUME", "PAUSE"})
  /\ state[c] = "finishing" =>
       \/ /\ todo[c] \in Unwritten("STOP_COMPLETE")
          /\ IsAt(run[c], {"STOP"}) /\ ends[run[c]] = 1
       \/ todo[c] \in Unwritten("HALT_COMPLETE") /\ IsAt(run[c], {"HALT"})
  /\ state[c] = "failing" => todo[c] \in Unwritten("ERROR")

ClientInv(c) == InHand(c) /\ Claiming(c) /\ Pages(c) /\ Recording(c) /\ Writing(c)

\* End comments go with stops.
EndsInv ==
  \A n \in Number :
    /\ ~NotEnded(n) => HasRow("STOP", n)
    /\ HasRow("STOP_COMPLETE", n) => ends[n] = 1

Inv == TypeOK /\ EndsInv /\ \A c \in Client : ClientInv(c)

\* The parts of the types: the tables, and the clients with their calls.
TablesOK ==
  /\ serial \in 0..MaxNumber
  /\ Number \subseteq 1..serial
  /\ runs \in [Number -> Client]
  /\ transitions \in [Number -> Seq(Transition)]
  /\ ends \in [Number -> Nat]
  /\ config \in [Number -> [Subsystem -> Nat]]

ClientsOK ==
  /\ state \in [Client -> State]
  /\ run \in [Client -> Number \cup {NoNumber}]
  /\ todo \in [Client -> Seq(Statements)]
  /\ number \in [Client -> Number \cup {NoNumber}]

LinksOK == up \in BOOLEAN /\ link \in [Client -> {"up", "cut", "bad", "none"}]

\* A step leaves client d alone; a step of client c leaves the rows of others' runs alone.
Same(d) ==
  state'[d] = state[d] /\ run'[d] = run[d] /\ todo'[d] = todo[d] /\ number'[d] = number[d]

KeepsOthers(c) ==
  /\ \A k \in Number : k \in Number' /\ runs'[k] = runs[k]
  /\ \A k \in Number' \ Number : runs'[k] = c
  /\ \A k \in Number : runs[k] # c => transitions'[k] = transitions[k] /\ ends'[k] = ends[k]

-----------------------------------------------------------------------------
(* Calls                                                                    *)

\* Fields of statements put together.
LEMMA TwoAndOne ==
  ASSUME NEW a, NEW b, NEW e
  PROVE  <<a, b>> \o <<e>> = <<a, b, e>>
<1> DEFINE S == {a, b, e}
<1>1. <<a, b>> \in Seq(S) /\ <<e>> \in Seq(S) /\ <<a, b, e>> \in Seq(S)
  OBVIOUS
<1>2. <<a, b>> \o <<e>> \in Seq(S) /\ Len(<<a, b>> \o <<e>>) = 3
  BY <1>1
<1>3. \A i \in 1..3 : (<<a, b>> \o <<e>>)[i] = <<a, b, e>>[i]
  BY <1>1
<1> QED
  BY <1>1, <1>2, <1>3, SeqEqual

LEMMA ThreeAndTwo ==
  ASSUME NEW a, NEW b, NEW c, NEW d, NEW e
  PROVE  <<a, b, c>> \o <<d, e>> = <<a, b, c, d, e>>
<1> DEFINE S == {a, b, c, d, e}
<1>1. <<a, b, c>> \in Seq(S) /\ <<d, e>> \in Seq(S) /\ <<a, b, c, d, e>> \in Seq(S)
  OBVIOUS
<1>2. <<a, b, c>> \o <<d, e>> \in Seq(S) /\ Len(<<a, b, c>> \o <<d, e>>) = 5
  BY <1>1
<1>3. \A i \in 1..5 : (<<a, b, c>> \o <<d, e>>)[i] = <<a, b, c, d, e>>[i]
  BY <1>1
<1> QED
  BY <1>1, <1>2, <1>3, SeqEqual

LEMMA OneAndOne ==
  ASSUME NEW a, NEW e
  PROVE  <<a>> \o <<e>> = <<a, e>>
<1> DEFINE S == {a, e}
<1>1. <<a>> \in Seq(S) /\ <<e>> \in Seq(S) /\ <<a, e>> \in Seq(S)
  OBVIOUS
<1>2. <<a>> \o <<e>> \in Seq(S) /\ Len(<<a>> \o <<e>>) = 2
  BY <1>1
<1>3. \A i \in 1..2 : (<<a>> \o <<e>>)[i] = <<a, e>>[i]
  BY <1>1
<1> QED
  BY <1>1, <1>2, <1>3, SeqEqual

\* The fields of a statement.
LEMMA Fields == \A x, w : Do(x).do = x /\ DoWith(x, w).do = x /\ DoWith(x, w).what = w
BY DEF Do, DoWith

\* A call that writes a transition has it to write, and nothing but that and the end comment.
LEMMA UpdateIs ==
  ASSUME NEW t \in Transition
  PROVE  Update(t) \in Unwritten(t)
<1>1. CASE t = "STOP"
  BY <1>1, TwoAndOne DEF Update, Unwritten
<1>2. CASE t # "STOP"
  <2>1. <<Do("connect"), DoWith("transition", t)>> \o <<>>
          = <<Do("connect"), DoWith("transition", t)>>
    OBVIOUS
  <2> QED
    BY <1>2, <2>1 DEF Update, Unwritten
<1> QED
  BY <1>1, <1>2

LEMMA ClaimIs == Claim \in Unclaimed
<1>1. Update("START") = <<Do("connect"), DoWith("transition", "START")>>
  BY DEF Update
<1>2. <<Do("connect"), Do("type"), Do("run")>> \o <<Do("connect"), DoWith("transition", "START")>>
        = <<Do("connect"), Do("type"), Do("run"), Do("connect"), DoWith("transition", "START")>>
  BY ThreeAndTwo
<1>3. Claim = <<Do("connect"), Do("type"), Do("run"), Do("connect"), DoWith("transition", "START")>>
  BY <1>1, <1>2 DEF Claim
<1> QED
  BY <1>3 DEF Unclaimed

\* The statements of a condition are about the subsystems.
LEMMA ConditionIs ==
  /\ Condition # <<>>
  /\ Condition \in Seq({Do("connect")} \cup {DoWith("config", s) : s \in Subsystem})
<1> DEFINE order == SetToSeq(Subsystem)
           N == Cardinality(Subsystem)
           rows == [i \in 1..N |-> DoWith("config", order[i])]
           S == {Do("connect")} \cup {DoWith("config", s) : s \in Subsystem}
<1>1. N \in Nat /\ ExistsBijection(1..N, Subsystem)
  BY SubsystemAssumption, FS_CardinalityType
<1>2. \E f \in [1..N -> Subsystem] : IsInjective(f)
  BY <1>1 DEF ExistsBijection, Bijection, Injection, IsInjective
<1>3. order \in [1..N -> Subsystem]
  BY <1>2 DEF SetToSeq
<1>4. rows \in Seq(S) /\ <<Do("connect")>> \in Seq(S)
  BY <1>1, <1>3
<1>5. Condition = <<Do("connect")>> \o rows
  BY DEF Condition
<1>6. Len(<<Do("connect")>> \o rows) = 1 + Len(rows) /\ <<Do("connect")>> \o rows \in Seq(S)
  BY <1>1, <1>4, ConcatProperties
<1>7. Len(rows) \in Nat
  BY <1>4, LenProperties
<1> QED
  BY <1>5, <1>6, <1>7, EmptySeq

LEMMA CallTypes ==
  /\ Claim \in Seq(Statements)
  /\ Condition \in Seq(Statements)
  /\ \A t \in Transition : Update(t) \in Seq(Statements)
<1>1. /\ Do("connect") \in Statements /\ Do("type") \in Statements /\ Do("run") \in Statements
      /\ Do("end") \in Statements
      /\ \A t \in Transition : DoWith("transition", t) \in Statements
      /\ \A s \in Subsystem : DoWith("config", s) \in Statements
  <2>1. \A d \in {"connect", "type", "run", "end"} : Do(d) \in Statements
    BY DEF Do, Statements
  <2>2. \A t \in Transition : DoWith("transition", t) \in Statements
    BY DEF DoWith, Statements
  <2>3. \A s \in Subsystem : DoWith("config", s) \in Statements
    BY DEF DoWith, Statements
  <2> QED
    BY <2>1, <2>2, <2>3
<1>2. Claim \in Seq(Statements)
  <2>1. "START" \in Transition
    BY DEF Transition
  <2>2. ASSUME NEW S, NEW a \in S, NEW b \in S, NEW d \in S, NEW e \in S
        PROVE  /\ <<a, b, d, a, e>> \in Seq(S)
               /\ <<b, d, a, e>> \in Seq(S)
               /\ <<d, a, e>> \in Seq(S)
    OBVIOUS
  <2>3. Unclaimed \subseteq Seq(Statements)
    BY <1>1, <2>1, <2>2 DEF Unclaimed
  <2> QED
    BY <2>3, ClaimIs
<1>3. Condition \in Seq(Statements)
  BY <1>1, ConditionIs, SeqMonotonic,
     {Do("connect")} \cup {DoWith("config", s) : s \in Subsystem} \subseteq Statements
<1>4. ASSUME NEW t \in Transition PROVE Update(t) \in Seq(Statements)
  <2>1. ASSUME NEW S, NEW a \in S, NEW b \in S, NEW d \in S
        PROVE  /\ <<a>> \in Seq(S) /\ <<a, b>> \in Seq(S) /\ <<a, b, d>> \in Seq(S)
    OBVIOUS
  <2>2. Unwritten(t) \subseteq Seq(Statements)
    BY <1>1, <2>1 DEF Unwritten
  <2> QED
    BY <2>2, UpdateIs
<1> QED
  BY <1>2, <1>3, <1>4

-----------------------------------------------------------------------------
(* A client on its own                                                      *)

\* A step of c does not disturb what is said of another client.
LEMMA Frame ==
  ASSUME TypeOK, NEW c \in Client, NEW d \in Client, c # d,
         ClientInv(d), KeepsOthers(c), Same(d)
  PROVE  ClientInv(d)'
<1>1. ASSUME NEW n, Newest(d, n)
      PROVE  /\ Newest(d, n)'
             /\ transitions'[n] = transitions[n]
             /\ ends'[n] = ends[n]
  BY <1>1 DEF Newest, KeepsOthers, Number
<1>2. InHand(d)'
  BY <1>1 DEF ClientInv, InHand, Same, Newest, Empty, IsAt, Latest
<1>3. Claiming(d)'
  BY <1>1 DEF ClientInv, Claiming, Same, Newest, Empty, NotEnded
<1>4. state[d] \notin {"configured", "claiming", "failed"} => Newest(d, run[d])
  BY DEF ClientInv, InHand
<1>5. Pages(d)'
  BY <1>1, <1>4 DEF ClientInv, Pages, Same, IsAt, Latest, NotEnded
<1>6. Recording(d)'
  BY DEF ClientInv, Recording, Same
<1>7. Writing(d)'
  BY <1>1, <1>4 DEF ClientInv, Writing, Same, IsAt, Latest, NotEnded
<1> QED
  BY <1>2, <1>3, <1>5, <1>6, <1>7 DEF ClientInv

\* So a step of c is to be looked at for c and for the tables only.
LEMMA OneClient ==
  ASSUME Inv, NEW c \in Client, KeepsOthers(c), \A d \in Client \ {c} : Same(d),
         TypeOK', EndsInv', ClientInv(c)'
  PROVE  Inv'
<1>1. ASSUME NEW d \in Client PROVE ClientInv(d)'
  <2>1. CASE d = c
    BY <2>1
  <2>2. CASE d # c
    BY <2>2, Frame DEF Inv
  <2> QED
    BY <2>1, <2>2
<1> QED
  BY <1>1 DEF Inv

\* A step that leaves the rows alone.
LEMMA RowsKept ==
  ASSUME Inv, NEW c \in Client, UNCHANGED <<runs, transitions, ends>>
  PROVE  KeepsOthers(c) /\ EndsInv'
BY DEF Inv, KeepsOthers, EndsInv, Number, NotEnded, HasRow

-----------------------------------------------------------------------------
(* The supervisor                                                           *)

LEMMA CallBegins ==
  ASSUME Inv, NEW c \in Client, NEW s \in State, NEW st \in Seq(Statements),
         NEW n \in Number \cup {NoNumber},
         Calls(c, s, st), number' = [number EXCEPT ![c] = n]
  PROVE  /\ TypeOK' /\ EndsInv' /\ KeepsOthers(c) /\ \A d \in Client \ {c} : Same(d)
         /\ state'[c] = s /\ todo'[c] = st /\ number'[c] = n /\ run' = run
         /\ UNCHANGED <<runs, transitions, ends>>
<1>1. UNCHANGED <<up, link, serial, runs, transitions, ends, config, run>>
  BY DEF Calls, tables
<1>2. EndsInv' /\ KeepsOthers(c)
  BY <1>1, RowsKept
<1>3. /\ state' = [state EXCEPT ![c] = s] /\ todo' = [todo EXCEPT ![c] = st]
      /\ state \in [Client -> State] /\ todo \in [Client -> Seq(Statements)]
      /\ number \in [Client -> Number \cup {NoNumber}]
  BY DEF Calls, Inv, TypeOK
<1>4. TypeOK'
  BY <1>1, <1>3 DEF Inv, TypeOK, Number
<1> QED
  BY <1>1, <1>2, <1>3, <1>4 DEF Same

\* The calls that write a transition fit the page of the run in hand.
LEMMA WritingCall ==
  ASSUME Inv, NEW c \in Client, run[c] # NoNumber,
         NEW t \in Transition, NEW s \in State, CallsAbout(c, s, Update(t)),
         \/ s = "pausing" /\ t = "PAUSE" /\ state[c] = "running"
         \/ s = "resuming" /\ t = "RESUME" /\ state[c] = "paused"
         \/ s = "stopping" /\ t = "STOP" /\ state[c] \in {"running", "paused"}
         \/ s = "halting" /\ t = "HALT" /\ state[c] \in {"running", "paused"}
         \/ s = "finishing" /\ t = "STOP_COMPLETE" /\ state[c] = "stopped"
         \/ s = "finishing" /\ t = "HALT_COMPLETE" /\ state[c] = "halted"
         \/ s = "failing" /\ t = "ERROR"
  PROVE  Inv'
<1>1. Update(t) \in Seq(Statements) /\ Update(t) \in Unwritten(t)
  BY CallTypes, UpdateIs
<1>2. run[c] \in Number \cup {NoNumber}
  BY DEF Inv, TypeOK
<1>3. /\ TypeOK' /\ EndsInv' /\ KeepsOthers(c) /\ \A d \in Client \ {c} : Same(d)
      /\ state'[c] = s /\ todo'[c] = Update(t) /\ number'[c] = run[c] /\ run' = run
      /\ UNCHANGED <<runs, transitions, ends>>
  BY <1>1, <1>2, CallBegins DEF CallsAbout
<1>4. ClientInv(c)
  BY DEF Inv
<1>5. InHand(c)'
  BY <1>3, <1>4 DEF ClientInv, InHand, Idle, Newest, Number, Empty, IsAt, Latest
<1>6. Claiming(c)' /\ Pages(c)' /\ Recording(c)'
  BY <1>3 DEF Claiming, Pages, Recording
<1>7. Writing(c)'
  BY <1>1, <1>3, <1>4 DEF ClientInv, Pages, Writing, IsAt, Latest, NotEnded
<1> QED
  BY <1>3, <1>5, <1>6, <1>7, OneClient DEF ClientInv

LEMMA SupervisorKeepsInv ==
  ASSUME Inv, NEW c \in Client, Supervises(c)
  PROVE  Inv'
<1>0. ClientInv(c)
  BY DEF Inv
<1>1. CASE Start(c)
  <2>1. Claim \in Seq(Statements) /\ Claim \in Unclaimed /\ "claiming" \in State
    BY CallTypes, ClaimIs DEF State
  <2>2. /\ TypeOK' /\ EndsInv' /\ KeepsOthers(c) /\ \A d \in Client \ {c} : Same(d)
        /\ state'[c] = "claiming" /\ todo'[c] = Claim /\ run' = run
    BY <1>1, <2>1, CallBegins DEF Start
  <2>3. ClientInv(c)'
    BY <1>0, <1>1, <2>1, <2>2
    DEF Start, ClientInv, InHand, Idle, Claiming, Pages, Recording, Writing
  <2> QED
    BY <2>2, <2>3, OneClient
<1>2. CASE EndOfStart(c)
  <2>1. Condition \in Seq(Statements) /\ "recording" \in State /\ run[c] \in Number \cup {NoNumber}
    BY CallTypes DEF State, Inv, TypeOK
  <2>2. /\ TypeOK' /\ EndsInv' /\ KeepsOthers(c) /\ \A d \in Client \ {c} : Same(d)
        /\ state'[c] = "recording" /\ todo'[c] = Condition /\ number'[c] = run[c] /\ run' = run
        /\ UNCHANGED <<runs, transitions, ends>>
    BY <1>2, <2>1, CallBegins DEF EndOfStart, CallsAbout
  <2>3. InHand(c)'
    BY <1>0, <1>2, <2>2 DEF EndOfStart, ClientInv, InHand, Idle, Newest, Number, Empty, IsAt, Latest
  <2>4. Pages(c)'
    BY <1>0, <1>2, <2>2 DEF EndOfStart, ClientInv, Pages, IsAt, Latest, NotEnded
  <2>5. Claiming(c)' /\ Recording(c)' /\ Writing(c)'
    BY <2>2, ConditionIs DEF Claiming, Recording, Writing
  <2> QED
    BY <2>2, <2>3, <2>4, <2>5, OneClient DEF ClientInv
<1>3. CASE Pause(c) \/ Resume(c) \/ Stop(c) \/ StopComplete(c) \/ Halt(c) \/ HaltComplete(c) \/ Error(c)
  <2>1. state[c] \in {"running", "paused", "stopped", "halted"} => run[c] # NoNumber
    BY <1>0 DEF ClientInv, InHand
  <2>2. \A t \in {"PAUSE", "RESUME", "STOP", "STOP_COMPLETE", "HALT", "HALT_COMPLETE", "ERROR"} :
          t \in Transition
    BY DEF Transition
  <2>3. \A s \in {"pausing", "resuming", "stopping", "halting", "finishing", "failing"} : s \in State
    BY DEF State
  <2> QED
    BY <1>3, <2>1, <2>2, <2>3, WritingCall
    DEF Pause, Resume, Stop, StopComplete, Halt, HaltComplete, Error
<1>4. CASE Recover(c)
  <2>1. UNCHANGED <<up, link, serial, runs, transitions, ends, config, run, todo, number>>
    BY <1>4 DEF Recover, tables, call
  <2>2. KeepsOthers(c) /\ EndsInv'
    BY <2>1, RowsKept
  <2>3. /\ state' = [state EXCEPT ![c] = "configured"] /\ state \in [Client -> State]
        /\ "configured" \in State
    BY <1>4 DEF Recover, Inv, TypeOK, State
  <2>4. TypeOK'
    BY <2>1, <2>3 DEF Inv, TypeOK, Number
  <2>5. ClientInv(c)'
    BY <1>0, <1>4, <2>1, <2>3
    DEF Recover, ClientInv, InHand, Idle, Claiming, Pages, Recording, Writing
  <2> QED
    BY <2>1, <2>2, <2>3, <2>4, <2>5, OneClient DEF Same
<1>5. CASE Restart(c)
  <2>1. UNCHANGED <<up, serial, runs, transitions, ends, config>>
    BY <1>5 DEF Restart, tables
  <2>2. KeepsOthers(c) /\ EndsInv'
    BY <2>1, RowsKept
  <2>3. TypeOK'
    BY <1>5, <2>1 DEF Restart, Inv, TypeOK, Number, State
  <2>4. /\ state'[c] = "configured" /\ run'[c] = NoNumber /\ todo'[c] = <<>>
        /\ \A d \in Client \ {c} : Same(d)
    BY <1>5 DEF Restart, Inv, TypeOK, Same
  <2>5. ClientInv(c)'
    BY <2>4 DEF ClientInv, InHand, Idle, Claiming, Pages, Recording, Writing
  <2> QED
    BY <2>2, <2>3, <2>4, <2>5, OneClient
<1> QED
  BY <1>1, <1>2, <1>3, <1>4, <1>5 DEF Supervises

-----------------------------------------------------------------------------
(* A call under way                                                         *)

\* What is left of a call once it has written transition t.
Rest(t) == IF t = "STOP" THEN <<Do("end")>> ELSE <<>>

\* Client c is about to write transition t, and its run is where t fits.
Writes(c, t) ==
  /\ todo[c] = <<DoWith("transition", t)>> \o Rest(t)
  /\ Newest(c, number[c])
  /\ \/ state[c] = "claiming" /\ t = "START" /\ Empty(number[c]) /\ NotEnded(number[c])
     \/ /\ number[c] = run[c] /\ run[c] # NoNumber
        /\ ~Empty(run[c]) /\ ~IsAt(run[c], {"ERROR"})
        /\ \/ /\ state[c] = "pausing" /\ t = "PAUSE"
              /\ IsAt(run[c], {"START", "RESUME"}) /\ NotEnded(run[c])
           \/ /\ state[c] = "resuming" /\ t = "RESUME"
              /\ IsAt(run[c], {"PAUSE"}) /\ NotEnded(run[c])
           \/ /\ state[c] = "stopping" /\ t = "STOP"
              /\ IsAt(run[c], {"START", "RESUME", "PAUSE"}) /\ NotEnded(run[c])
           \/ state[c] = "halting" /\ t = "HALT" /\ IsAt(run[c], {"START", "RESUME", "PAUSE"})
           \/ /\ state[c] = "finishing" /\ t = "STOP_COMPLETE"
              /\ IsAt(run[c], {"STOP"}) /\ ends[run[c]] = 1
           \/ state[c] = "finishing" /\ t = "HALT_COMPLETE" /\ IsAt(run[c], {"HALT"})
           \/ state[c] = "failing" /\ t = "ERROR"

\* What is left of a call that has yet to write t, by its next statement.
LEMMA UnwrittenIs ==
  ASSUME NEW t \in Transition, NEW st \in Unwritten(t)
  PROVE  \/ Head(st) = Do("connect") /\ Len(st) > 1 /\ Tail(st) = <<DoWith("transition", t)>> \o Rest(t)
         \/ Head(st) = DoWith("transition", t) /\ st = <<DoWith("transition", t)>> \o Rest(t)
<1>1. CASE t = "STOP"
  <2> DEFINE a == DoWith("transition", t)
             e == Do("end")
  <2>1. <<a>> \o Rest(t) = <<a, e>>
    BY <1>1, OneAndOne DEF Rest
  <2>2. st = <<Do("connect"), a, e>> \/ st = <<a, e>>
    BY <1>1 DEF Unwritten
  <2>3. CASE st = <<Do("connect"), a, e>>
    <3>1. Head(st) = Do("connect") /\ Len(st) > 1 /\ Tail(st) = <<a, e>>
      BY <2>3
    <3> QED
      BY <2>1, <3>1
  <2>4. CASE st = <<a, e>>
    <3>1. Head(st) = a
      BY <2>4
    <3> QED
      BY <2>1, <2>4, <3>1
  <2> QED
    BY <2>2, <2>3, <2>4
<1>2. CASE t # "STOP"
  <2>1. <<DoWith("transition", t)>> \o <<>> = <<DoWith("transition", t)>>
    OBVIOUS
  <2> QED
    BY <1>2, <2>1, Fields DEF Unwritten, Rest
<1> QED
  BY <1>1, <1>2

\* A call with only the end comment left has written its transition.
LEMMA EndIsNotUnwritten ==
  ASSUME NEW t \in Transition, NEW st, st = <<Do("end")>>
  PROVE  st \notin Unwritten(t)
<1> SUFFICES ASSUME st \in Unwritten(t) PROVE FALSE
  OBVIOUS
<1>1. Head(st).do = "end"
  BY Fields
<1>2. Head(st) = Do("connect") \/ Head(st) = DoWith("transition", t)
  BY UnwrittenIs
<1>3. Head(st).do = "connect" \/ Head(st).do = "transition"
  BY <1>2, Fields
<1> QED
  BY <1>1, <1>3

\* A call that is about to write a transition fits the page of its run.
LEMMA WritesFit ==
  ASSUME Inv, NEW c \in Client, InCall(c), Statement(c).do = "transition"
  PROVE  \E t \in Transition : Statement(c).what = t /\ Writes(c, t)
<1>0. ClientInv(c) /\ state[c] \in State
  BY DEF Inv, TypeOK
<1>1. \A t : DoWith("transition", t).what = t /\ Do("connect").do # "transition"
  BY DEF DoWith, Do
<1>2. \A t \in {"START", "PAUSE", "RESUME", "STOP", "STOP_COMPLETE", "HALT", "HALT_COMPLETE", "ERROR"} :
        t \in Transition
  BY DEF Transition
<1>3. ASSUME NEW t \in Transition, todo[c] \in Unwritten(t)
      PROVE  Statement(c).what = t /\ todo[c] = <<DoWith("transition", t)>> \o Rest(t)
  BY Fields, <1>1, <1>3, UnwrittenIs DEF Statement
<1>4. CASE state[c] = "claiming"
  <2>1. todo[c] \notin Unclaimed
    BY Fields DEF Unclaimed, Statement
  <2> QED
    BY <1>0, <1>2, <1>3, <1>4, <2>1 DEF ClientInv, Claiming, Writes
<1>5. CASE state[c] # "claiming"
  <2>1. state[c] \notin Idle
    BY <1>0 DEF ClientInv, InHand, InCall
  <2>2. state[c] # "recording"
    <3>1. ASSUME state[c] = "recording" PROVE FALSE
      <4>1. Head(todo[c]) \in {Do("connect")} \cup {DoWith("config", s) : s \in Subsystem}
        BY <1>0, <3>1, HeadTailProperties DEF ClientInv, Recording
      <4> QED
        BY Fields, <4>1 DEF Statement
    <3> QED
      BY <3>1
  <2>3. /\ number[c] = run[c] /\ run[c] # NoNumber /\ Newest(c, run[c])
        /\ ~Empty(run[c]) /\ ~IsAt(run[c], {"ERROR"})
    BY <1>0, <1>5, <2>1 DEF ClientInv, InHand, Idle
  <2>4. todo[c] # <<Do("end")>>
    BY Fields DEF Statement
  <2>5. state[c] \in {"pausing", "resuming", "stopping", "halting", "finishing", "failing"}
    BY <1>0, <1>5, <2>1, <2>2 DEF State, Idle
  <2> QED
    BY <1>0, <1>2, <1>3, <2>3, <2>4, <2>5 DEF ClientInv, Writing, Writes
<1> QED
  BY <1>4, <1>5

\* The other statements tell which call is under way and how far it is.
LEMMA Positions ==
  ASSUME Inv, NEW c \in Client, InCall(c)
  PROVE  /\ Statement(c).do \in {"connect", "type", "run", "transition", "end", "config"}
         /\ Statement(c).do = "type" =>
              /\ state[c] = "claiming"
              /\ todo[c] = <<Do("type"), Do("run"), Do("connect"), DoWith("transition", "START")>>
         /\ Statement(c).do = "run" =>
              /\ state[c] = "claiming"
              /\ todo[c] = <<Do("run"), Do("connect"), DoWith("transition", "START")>>
         /\ Statement(c).do = "end" => state[c] = "stopping" /\ todo[c] = <<Do("end")>>
         /\ Statement(c).do = "config" => state[c] = "recording" /\ Statement(c).what \in Subsystem
<1>0. ClientInv(c) /\ state[c] \in State /\ todo[c] \in Seq(Statements) /\ todo[c] # <<>>
  BY DEF Inv, TypeOK, InCall
<1>1. Statement(c) \in Statements
  BY <1>0, HeadTailProperties DEF Statement
<1>2. ASSUME NEW t \in Transition, todo[c] \in Unwritten(t)
      PROVE  Statement(c).do \in {"connect", "transition"}
  <2>1. Head(todo[c]) = Do("connect") \/ Head(todo[c]) = DoWith("transition", t)
    BY <1>2, UnwrittenIs
  <2> QED
    BY <2>1, Fields DEF Statement
<1>3. \A t \in {"START", "PAUSE", "RESUME", "STOP", "STOP_COMPLETE", "HALT", "HALT_COMPLETE", "ERROR"} :
        t \in Transition
  BY DEF Transition
<1>4. CASE state[c] = "claiming"
  <2>1. CASE todo[c] \in Unclaimed
    BY <1>4, <2>1, Fields DEF Unclaimed, Statement
  <2>2. CASE todo[c] \in Unwritten("START")
    BY <1>2, <1>3, <2>2
  <2> QED
    BY <1>0, <1>4, <2>1, <2>2 DEF ClientInv, Claiming
<1>5. CASE state[c] = "recording"
  <2>1. Head(todo[c]) \in {Do("connect")} \cup {DoWith("config", s) : s \in Subsystem}
    BY <1>0, <1>5, HeadTailProperties DEF ClientInv, Recording
  <2> QED
    BY Fields, <1>5, <2>1 DEF Statement
<1>6. CASE state[c] \in {"pausing", "resuming", "stopping", "halting", "finishing", "failing"}
  <2>1. CASE todo[c] = <<Do("end")>>
    <3>1. state[c] = "stopping"
      <4>1. ASSUME NEW t \in Transition PROVE <<Do("end")>> \notin Unwritten(t)
        BY EndIsNotUnwritten
      <4> QED
        BY <1>0, <1>3, <1>6, <2>1, <4>1 DEF ClientInv, Writing
    <3> QED
      BY <2>1, <3>1, Fields DEF Statement
  <2>2. CASE todo[c] # <<Do("end")>>
    <3>1. \E t \in Transition : todo[c] \in Unwritten(t)
      BY <1>0, <1>3, <1>6, <2>2 DEF ClientInv, Writing
    <3> QED
      BY <1>2, <3>1
  <2> QED
    BY <2>1, <2>2
<1> QED
  BY <1>0, <1>4, <1>5, <1>6 DEF ClientInv, InHand, State, Idle

-----------------------------------------------------------------------------
(* What a statement does to the tables                                      *)

LEMMA RunCommits ==
  ASSUME Inv, NEW c \in Client, Statement(c).do = "run", HasNumber(c), Commits(c),
         NEW m, m = serial + 1
  PROVE  /\ m \in Number' /\ TablesOK' /\ KeepsOthers(c) /\ EndsInv' /\ Book!Open(c)
         /\ Newest(c, m)' /\ Empty(m)' /\ NotEnded(m)'
<1>1. /\ serial \in 0..MaxNumber /\ serial < MaxNumber /\ MaxNumber \in Nat /\ Number \subseteq 1..serial
      /\ runs \in [Number -> Client] /\ transitions \in [Number -> Seq(Transition)]
      /\ ends \in [Number -> Nat] /\ config \in [Number -> [Subsystem -> Nat]]
  BY NumberAssumption DEF Inv, TypeOK, HasNumber
<1>2. /\ serial' = m
      /\ runs' = [k \in Number \cup {m} |-> IF k \in Number THEN runs[k] ELSE c]
      /\ transitions' = [k \in Number \cup {m} |-> IF k \in Number THEN transitions[k] ELSE <<>>]
      /\ ends' = [k \in Number \cup {m} |-> IF k \in Number THEN ends[k] ELSE 0]
      /\ config' = [k \in Number \cup {m} |->
                      IF k \in Number THEN config[k] ELSE [x \in Subsystem |-> 0]]
  BY DEF Commits
<1>3. m \in 1..MaxNumber /\ m \notin Number /\ \A k \in Number : k < m
  BY <1>1
<1>4. Number' = Number \cup {m}
  BY <1>2 DEF Number
<1>5. TablesOK'
  <2>1. serial' \in 0..MaxNumber /\ Number' \subseteq 1..serial'
    BY <1>1, <1>2, <1>3, <1>4
  <2>2. runs' \in [Number' -> Client]
    BY <1>1, <1>2, <1>4
  <2>3. transitions' \in [Number' -> Seq(Transition)]
    BY <1>1, <1>2, <1>4, EmptySeq
  <2>4. ends' \in [Number' -> Nat]
    BY <1>1, <1>2, <1>4
  <2>5. config' \in [Number' -> [Subsystem -> Nat]]
    BY <1>1, <1>2, <1>4
  <2> QED
    BY <2>1, <2>2, <2>3, <2>4, <2>5 DEF TablesOK
<1>6. KeepsOthers(c)
  BY <1>2, <1>3, <1>4 DEF KeepsOthers
<1>7. Empty(m)' /\ NotEnded(m)' /\ runs'[m] = c
  BY <1>2, <1>3 DEF Empty, NotEnded
<1>8. \A k \in Number : transitions'[k] = transitions[k] /\ ends'[k] = ends[k]
  BY <1>2
<1>9. EndsInv'
  <2>1. ASSUME NEW k \in Number, NEW t PROVE HasRow(t, k)' <=> HasRow(t, k)
    BY <1>8 DEF HasRow
  <2>2. ~HasRow("STOP_COMPLETE", m)'
    BY <1>7 DEF HasRow, Empty
  <2>3. ASSUME NEW k \in Number'
        PROVE  (~NotEnded(k) => HasRow("STOP", k))' /\ (HasRow("STOP_COMPLETE", k) => ends[k] = 1)'
    <3>1. CASE k = m
      BY <1>7, <2>2, <3>1
    <3>2. CASE k # m
      BY <1>4, <1>8, <2>1, <3>2 DEF Inv, EndsInv, NotEnded
    <3> QED
      BY <3>1, <3>2
  <2> QED
    BY <2>3 DEF EndsInv
<1>10. Newest(c, m)'
  BY <1>1, <1>3, <1>4, <1>7 DEF Newest
<1>11. Book!Open(c)
  <2>1. runs' = [k \in Number \cup {m} |-> IF k = m THEN c ELSE runs[k]]
    BY <1>2, <1>3
  <2>2. transitions' = [k \in Number \cup {m} |-> IF k = m THEN <<>> ELSE transitions[k]]
    BY <1>2, <1>3
  <2> QED
    BY <1>3, <2>1, <2>2 DEF Book!Open, Book!Number, Number
<1> QED
  BY <1>2, <1>3, <1>4, <1>5, <1>6, <1>7, <1>9, <1>10, <1>11

\* A transition is written to the page of the client's own last run, where it fits.
LEMMA TransitionCommits ==
  ASSUME Inv, NEW c \in Client, NEW t \in Transition, Writes(c, t),
         Statement(c).do = "transition", Statement(c).what = t, Commits(c),
         NEW n, n = number[c]
  PROVE  /\ UNCHANGED <<serial, runs, ends, config>>
         /\ TablesOK' /\ KeepsOthers(c) /\ EndsInv' /\ Book!Write(c)
         /\ ~Empty(n)' /\ Latest(n)' = t
<1>1. /\ n \in Number /\ runs[n] = c /\ \A k \in Number : runs[k] = c => k <= n
  BY DEF Writes, Newest
<1>2. /\ transitions' = [transitions EXCEPT ![n] = Append(@, t)]
      /\ UNCHANGED <<serial, runs, ends, config>>
  BY DEF Commits, RunOf
<1>3. transitions \in [Number -> Seq(Transition)]
  BY DEF Inv, TypeOK
<1>4. transitions' \in [Number -> Seq(Transition)] /\ Number' = Number
  <2>1. Append(transitions[n], t) \in Seq(Transition)
    BY <1>1, <1>3
  <2> QED
    BY <1>2, <1>3, <2>1 DEF Number
<1>5. TablesOK'
  BY <1>2, <1>4 DEF Inv, TypeOK, TablesOK
<1>6. transitions'[n] = Append(transitions[n], t) /\ \A k \in Number \ {n} : transitions'[k] = transitions[k]
  BY <1>1, <1>2, <1>3
<1>7. KeepsOthers(c)
  BY <1>1, <1>2, <1>4, <1>6 DEF KeepsOthers
<1>8. /\ transitions[n] \in Seq(Transition) /\ Len(transitions'[n]) = Len(transitions[n]) + 1
      /\ transitions'[n][Len(transitions[n]) + 1] = t
      /\ \A i \in 1..Len(transitions[n]) : transitions'[n][i] = transitions[n][i]
      /\ DOMAIN transitions'[n] = 1..(Len(transitions[n]) + 1) /\ Len(transitions[n]) \in Nat
  BY <1>1, <1>3, <1>6, LenProperties
<1>9. ~Empty(n)' /\ Latest(n)' = t
  BY <1>8 DEF Empty, Latest
<1>10. EndsInv'
  <2>1. ASSUME NEW x, HasRow(x, n) PROVE HasRow(x, n)'
    BY <1>8, <2>1 DEF HasRow
  <2>2. ASSUME NEW x, x # t, HasRow(x, n)' PROVE HasRow(x, n)
    <3>1. PICK i \in DOMAIN transitions'[n] : transitions'[n][i] = x
      BY <2>2 DEF HasRow
    <3>2. i \in 1..Len(transitions[n]) /\ transitions[n][i] = x
      BY <1>8, <2>2, <3>1
    <3>3. DOMAIN transitions[n] = 1..Len(transitions[n])
      BY <1>8
    <3> QED
      BY <3>2, <3>3 DEF HasRow
  <2>3. ASSUME NEW k \in Number, k # n, NEW x PROVE HasRow(x, k)' <=> HasRow(x, k)
    BY <1>6, <2>3 DEF HasRow
  <2>4. t = "STOP_COMPLETE" => ends[n] = 1
    BY DEF Writes
  <2> QED
    BY <1>1, <1>2, <1>4, <2>1, <2>2, <2>3, <2>4 DEF Inv, EndsInv, NotEnded
<1>11. Book!Fits(t, transitions[n])
  BY DEF Writes, Empty, IsAt, Latest, Book!Fits, Book!MayFollow
<1>12. Book!Write(c)
  BY <1>1, <1>2, <1>11 DEF Book!Write, Book!Number, Book!Transition, Transition, Number
<1> QED
  BY <1>2, <1>5, <1>7, <1>9, <1>10, <1>12

LEMMA EndCommits ==
  ASSUME Inv, NEW c \in Client, InCall(c), Statement(c).do = "end", Commits(c)
  PROVE  /\ UNCHANGED <<serial, runs, transitions, config>>
         /\ TablesOK' /\ KeepsOthers(c) /\ EndsInv'
         /\ state[c] = "stopping" /\ Newest(c, run[c]) /\ ends'[run[c]] = 1
<1>1. state[c] = "stopping" /\ todo[c] = <<Do("end")>>
  BY Positions
<1>2. ASSUME NEW t \in Transition PROVE <<Do("end")>> \notin Unwritten(t)
  BY EndIsNotUnwritten
<1>3. /\ number[c] = run[c] /\ Newest(c, run[c]) /\ run[c] \in Number /\ runs[run[c]] = c
      /\ ~Empty(run[c]) /\ IsAt(run[c], {"STOP"}) /\ NotEnded(run[c])
  BY <1>1, <1>2, "STOP" \in Transition
  DEF Inv, ClientInv, InHand, Idle, Writing, Newest, Transition
<1>4. /\ ends' = [ends EXCEPT ![run[c]] = @ + 1]
      /\ UNCHANGED <<serial, runs, transitions, config>>
  BY <1>3 DEF Commits, RunOf
<1>5. /\ ends \in [Number -> Nat] /\ ends'[run[c]] = 1
      /\ \A k \in Number \ {run[c]} : ends'[k] = ends[k]
  BY <1>3, <1>4 DEF Inv, TypeOK, NotEnded
<1>6. ends' \in [Number -> Nat]
  BY <1>3, <1>4, <1>5
<1>7. TablesOK'
  BY <1>4, <1>6 DEF Inv, TypeOK, TablesOK, Number
<1>8. KeepsOthers(c)
  BY <1>3, <1>4, <1>5 DEF KeepsOthers, Number
<1>9. HasRow("STOP", run[c])
  <2>1. transitions[run[c]] \in Seq(Transition) /\ transitions[run[c]] # <<>>
    BY <1>3 DEF Inv, TypeOK, Empty
  <2>2. /\ DOMAIN transitions[run[c]] = 1..Len(transitions[run[c]])
        /\ Len(transitions[run[c]]) \in Nat \ {0}
    BY <2>1, LenProperties, EmptySeq
  <2> QED
    BY <1>3, <2>2 DEF HasRow, IsAt, Latest
<1>10. EndsInv'
  BY <1>3, <1>4, <1>5, <1>9 DEF Inv, EndsInv, NotEnded, HasRow, Number
<1> QED
  BY <1>1, <1>3, <1>4, <1>5, <1>7, <1>8, <1>10

LEMMA ConfigCommits ==
  ASSUME Inv, NEW c \in Client, InCall(c), Statement(c).do = "config", Commits(c)
  PROVE  UNCHANGED <<serial, runs, transitions, ends>> /\ TablesOK'
<1>1. state[c] = "recording" /\ Statement(c).what \in Subsystem
  BY Positions
<1>2. number[c] \in Number
  BY <1>1 DEF Inv, ClientInv, InHand, Idle, Newest
<1>3. /\ config' = [config EXCEPT ![number[c]][Statement(c).what] = @ + 1]
      /\ UNCHANGED <<serial, runs, transitions, ends>>
  BY DEF Commits, RunOf
<1>4. config[number[c]] \in [Subsystem -> Nat] /\ config \in [Number -> [Subsystem -> Nat]]
  BY <1>2 DEF Inv, TypeOK
<1>5. [config[number[c]] EXCEPT ![Statement(c).what] = @ + 1] \in [Subsystem -> Nat]
  BY <1>1, <1>4
<1>6. config' \in [Number -> [Subsystem -> Nat]]
  BY <1>2, <1>3, <1>4, <1>5
<1> QED
  BY <1>3, <1>6 DEF Inv, TypeOK, TablesOK, Number

\* Whatever a statement commits keeps the tables in order and is a step of the book.
LEMMA CommitsKeepRows ==
  ASSUME Inv, NEW c \in Client, InCall(c), Statement(c).do # "connect", HasNumber(c), Commits(c)
  PROVE  TablesOK' /\ KeepsOthers(c) /\ EndsInv' /\ [Book!Next]_(Book!vars)
<1>1. CASE Statement(c).do = "type"
  <2>1. UNCHANGED <<serial, runs, transitions, ends, config>>
    BY <1>1 DEF Commits, tables
  <2>2. TablesOK'
    BY <2>1 DEF Inv, TypeOK, TablesOK, Number
  <2> QED
    BY <2>1, <2>2, RowsKept DEF Book!vars
<1>2. CASE Statement(c).do = "run"
  BY <1>2, RunCommits DEF Book!Next
<1>3. CASE Statement(c).do = "transition"
  BY <1>3, WritesFit, TransitionCommits DEF Book!Next
<1>4. CASE Statement(c).do = "end"
  BY <1>4, EndCommits DEF Book!vars
<1>5. CASE Statement(c).do = "config"
  BY <1>5, ConfigCommits, RowsKept DEF Book!vars
<1> QED
  BY <1>1, <1>2, <1>3, <1>4, <1>5, Positions

-----------------------------------------------------------------------------
(* What becomes of the call                                                 *)

\* A call that throws leaves its run at any transition but ERROR, or gives it up.
LEMMA ThrowsKeepsClient ==
  ASSUME Inv, NEW c \in Client, InCall(c), Throws(c), KeepsOthers(c),
         state[c] # "failing" /\ run[c] # NoNumber =>
           Newest(c, run[c])' /\ ~Empty(run[c])' /\ ~IsAt(run[c], {"ERROR"})'
  PROVE  ClientsOK' /\ ClientInv(c)' /\ \A d \in Client \ {c} : Same(d)
<1>1. /\ state \in [Client -> State] /\ run \in [Client -> Number \cup {NoNumber}]
      /\ todo \in [Client -> Seq(Statements)] /\ number \in [Client -> Number \cup {NoNumber}]
  BY DEF Inv, TypeOK
<1>2. Number \subseteq Number'
  BY DEF KeepsOthers
<1>3. /\ todo' = [todo EXCEPT ![c] = <<>>]
      /\ state' = [state EXCEPT ![c] = IF @ = "failing" THEN "configured" ELSE "failed"]
      /\ run' = [run EXCEPT ![c] = IF state[c] = "failing" THEN NoNumber ELSE @]
      /\ number' = number
  BY DEF Throws
<1>4. ClientsOK'
  <2>1. state' \in [Client -> State]
    BY <1>1, <1>3 DEF State
  <2>2. run' \in [Client -> Number' \cup {NoNumber}] /\ number' \in [Client -> Number' \cup {NoNumber}]
    BY <1>1, <1>2, <1>3
  <2>3. todo' \in [Client -> Seq(Statements)]
    BY <1>1, <1>3, EmptySeq
  <2> QED
    BY <2>1, <2>2, <2>3 DEF ClientsOK
<1>5. /\ todo'[c] = <<>>
      /\ state'[c] = IF state[c] = "failing" THEN "configured" ELSE "failed"
      /\ run'[c] = IF state[c] = "failing" THEN NoNumber ELSE run[c]
  BY <1>1, <1>3
<1>6. InHand(c)'
  BY <1>5 DEF InHand, Idle, Newest, Empty, IsAt, Latest
<1>7. Claiming(c)' /\ Pages(c)' /\ Recording(c)' /\ Writing(c)'
  BY <1>5 DEF Claiming, Pages, Recording, Writing
<1>8. \A d \in Client \ {c} : Same(d)
  BY <1>1, <1>3 DEF Same
<1> QED
  BY <1>4, <1>6, <1>7, <1>8 DEF ClientInv

\* The call of client c goes on, or returns.
GoesOn(c) ==
  /\ todo'[c] = Tail(todo[c])
  /\ Len(todo[c]) > 1 => state'[c] = state[c] /\ run'[c] = run[c]
  /\ ~(Len(todo[c]) > 1) =>
       /\ state'[c] = After(state[c])
       /\ state[c] = "claiming" => run'[c] = number'[c]
       /\ state[c] \in {"finishing", "failing"} => run'[c] = NoNumber
       /\ state[c] \notin {"claiming", "finishing", "failing"} => run'[c] = run[c]

\* The types of the clients after a statement that lets the call go on.
LEMMA ProceedsTypes ==
  ASSUME Inv, NEW c \in Client, InCall(c), Proceeds(c), Number \subseteq Number',
         number' \in [Client -> Number' \cup {NoNumber}],
         \A d \in Client \ {c} : number'[d] = number[d]
  PROVE  ClientsOK' /\ (\A d \in Client \ {c} : Same(d)) /\ GoesOn(c)
<1>1. /\ state \in [Client -> State] /\ run \in [Client -> Number \cup {NoNumber}]
      /\ todo \in [Client -> Seq(Statements)]
  BY DEF Inv, TypeOK
<1>2. Tail(todo[c]) \in Seq(Statements)
  BY <1>1, HeadTailProperties DEF InCall
<1>3. todo' \in [Client -> Seq(Statements)] /\ todo'[c] = Tail(todo[c])
      /\ \A d \in Client \ {c} : todo'[d] = todo[d]
  BY <1>1, <1>2 DEF Proceeds
<1>4. CASE Len(todo[c]) > 1
  <2>1. state' = state /\ run' = run
    BY <1>4 DEF Proceeds, supervisor
  <2>2. ClientsOK'
    BY <1>1, <1>3, <2>1 DEF ClientsOK
  <2>3. \A d \in Client \ {c} : Same(d)
    BY <1>3, <2>1 DEF Same
  <2> QED
    BY <1>3, <1>4, <2>1, <2>2, <2>3 DEF GoesOn
<1>5. CASE ~(Len(todo[c]) > 1)
  <2> DEFINE m == CASE state[c] = "claiming" -> ClaimedNumber(c)
                    [] state[c] \in {"finishing", "failing"} -> NoNumber
                    [] OTHER -> run[c]
  <2>1. state' = [state EXCEPT ![c] = After(@)] /\ run' = [run EXCEPT ![c] = m]
    BY <1>1, <1>5 DEF Proceeds
  <2>2. /\ state[c] = "claiming" => m = number'[c]
        /\ state[c] \in {"finishing", "failing"} => m = NoNumber
        /\ state[c] \notin {"claiming", "finishing", "failing"} => m = run[c]
    BY DEF ClaimedNumber
  <2>3. After(state[c]) \in State
    BY <1>1 DEF Inv, ClientInv, InHand, InCall, Idle, State, After
  <2>4. state' \in [Client -> State] /\ state'[c] = After(state[c])
        /\ \A d \in Client \ {c} : state'[d] = state[d]
    BY <1>1, <2>1, <2>3
  <2> HIDE DEF m
  <2>5. m \in Number' \cup {NoNumber}
    BY <1>1, <2>2
  <2>6. run' \in [Client -> Number' \cup {NoNumber}] /\ run'[c] = m
        /\ \A d \in Client \ {c} : run'[d] = run[d]
    BY <1>1, <2>1, <2>5
  <2>7. ClientsOK'
    BY <1>3, <2>4, <2>6 DEF ClientsOK
  <2>8. \A d \in Client \ {c} : Same(d)
    BY <1>3, <2>4, <2>6 DEF Same
  <2> QED
    BY <1>3, <1>5, <2>2, <2>4, <2>6, <2>7, <2>8 DEF GoesOn
<1> QED
  BY <1>4, <1>5

\* What is left of a row of statements when its first is done.
LEMMA TailOfRow ==
  ASSUME NEW T, NEW s \in Seq(T), s # <<>>
  PROVE  /\ Tail(s) \in Seq(T)
         /\ Len(s) > 1 => Tail(s) # <<>>
         /\ ~(Len(s) > 1) => Tail(s) = <<>>
<1>1. Tail(s) \in Seq(T) /\ Len(Tail(s)) = Len(s) - 1
  BY HeadTailProperties
<1>2. Len(s) \in Nat /\ Len(s) # 0
  BY EmptySeq, LenProperties
<1>3. Tail(s) = <<>> <=> Len(Tail(s)) = 0
  BY <1>1, EmptySeq
<1> QED
  BY <1>1, <1>2, <1>3

\* A call that goes on without a change of the rows, or that returns when no subsystem is left.
LEMMA QuietProceeds ==
  ASSUME Inv, NEW c \in Client, InCall(c), Statement(c).do \in {"connect", "type", "config"}, Proceeds(c),
         UNCHANGED <<runs, transitions, ends, number>>
  PROVE  ClientsOK' /\ ClientInv(c)' /\ \A d \in Client \ {c} : Same(d)
<1>0. ClientInv(c) /\ state[c] \in State /\ todo[c] \in Seq(Statements) /\ todo[c] # <<>>
  BY DEF Inv, TypeOK, InCall
<1>1. /\ number' \in [Client -> Number' \cup {NoNumber}] /\ Number' = Number
      /\ \A d \in Client : number'[d] = number[d]
  BY DEF Inv, TypeOK, Number
<1>2. /\ ClientsOK' /\ \A d \in Client \ {c} : Same(d)
      /\ todo'[c] = Tail(todo[c]) /\ number'[c] = number[c]
      /\ Len(todo[c]) > 1 => state'[c] = state[c] /\ run'[c] = run[c]
      /\ ~(Len(todo[c]) > 1) /\ state[c] = "recording" => state'[c] = "running" /\ run'[c] = run[c]
  BY <1>1, ProceedsTypes DEF After, GoesOn
<1>3. ASSUME NEW t \in Transition, todo[c] \in Unwritten(t)
      PROVE  Len(todo[c]) > 1 /\ todo'[c] \in Unwritten(t) /\ todo'[c] # <<>>
  <2>1. Head(todo[c]) # DoWith("transition", t)
    BY DEF Statement, DoWith
  <2>2. CASE t = "STOP"
    <3>1. todo[c] = <<Do("connect"), DoWith("transition", t), Do("end")>>
      BY <1>3, <2>1, <2>2 DEF Unwritten
    <3>2. Len(todo[c]) = 3 /\ Tail(todo[c]) = <<DoWith("transition", t), Do("end")>>
      BY <3>1
    <3>3. <<DoWith("transition", t), Do("end")>> # <<>>
      OBVIOUS
    <3>4. <<DoWith("transition", t), Do("end")>> \in Unwritten(t)
      BY <2>2 DEF Unwritten
    <3>5. todo'[c] = <<DoWith("transition", t), Do("end")>>
      BY <1>2, <3>2
    <3>6. Len(todo[c]) > 1
      BY <3>2
    <3> QED
      BY <3>3, <3>4, <3>5, <3>6 DEF DoWith, Do
  <2>3. CASE t # "STOP"
    <3>1. todo[c] = <<Do("connect"), DoWith("transition", t)>>
      BY <1>3, <2>1, <2>3 DEF Unwritten
    <3>2. Len(todo[c]) = 2 /\ Tail(todo[c]) = <<DoWith("transition", t)>>
      BY <3>1
    <3>3. <<DoWith("transition", t)>> # <<>>
      OBVIOUS
    <3>4. <<DoWith("transition", t)>> \in Unwritten(t)
      BY <2>3 DEF Unwritten
    <3>5. todo'[c] = <<DoWith("transition", t)>>
      BY <1>2, <3>2
    <3> QED
      BY <3>2, <3>3, <3>4, <3>5
  <2> QED
    BY <2>2, <2>3
<1>4. \A t \in {"START", "PAUSE", "RESUME", "STOP", "STOP_COMPLETE", "HALT", "HALT_COMPLETE", "ERROR"} :
        t \in Transition
  BY DEF Transition
<1>5. /\ \A n : (Newest(c, n)' <=> Newest(c, n)) /\ (Empty(n)' <=> Empty(n)) /\ (NotEnded(n)' <=> NotEnded(n))
      /\ ends' = ends /\ \A n : Latest(n)' = Latest(n)
  BY DEF Newest, Empty, NotEnded, Latest, Number
<1>6. CASE state[c] = "claiming"
  <2>1. CASE todo[c] \in Unclaimed
    <3>1. Len(todo[c]) > 1 /\ todo'[c] \in Unclaimed
      <4> DEFINE r == Do("run")
                 a == Do("connect")
                 e == DoWith("transition", "START")
      <4>1. todo[c] = <<a, Do("type"), r, a, e>> \/ todo[c] = <<Do("type"), r, a, e>>
        <5>1. todo[c] # <<r, a, e>>
          BY Fields DEF Statement
        <5> QED
          BY <2>1, <5>1 DEF Unclaimed
      <4>2. CASE todo[c] = <<a, Do("type"), r, a, e>>
        <5>1. Len(todo[c]) = 5 /\ Tail(todo[c]) = <<Do("type"), r, a, e>>
          BY <4>2
        <5> QED
          BY <1>2, <5>1 DEF Unclaimed
      <4>3. CASE todo[c] = <<Do("type"), r, a, e>>
        <5>1. Len(todo[c]) = 4 /\ Tail(todo[c]) = <<r, a, e>>
          BY <4>3
        <5> QED
          BY <1>2, <5>1 DEF Unclaimed
      <4> QED
        BY <4>1, <4>2, <4>3
    <3> QED
      BY <1>0, <1>2, <1>6, <3>1
      DEF ClientInv, InHand, Idle, Claiming, Pages, Recording, Writing
  <2>2. CASE todo[c] \in Unwritten("START") /\ Newest(c, number[c]) /\ Empty(number[c]) /\ NotEnded(number[c])
    <3>1. Len(todo[c]) > 1 /\ todo'[c] \in Unwritten("START")
      BY <1>3, <1>4, <2>2
    <3>2. Newest(c, number[c])' /\ Empty(number[c])' /\ NotEnded(number[c])'
      BY <1>2, <2>2 DEF Newest, Empty, NotEnded, Number
    <3> QED
      BY <1>0, <1>2, <1>6, <3>1, <3>2
      DEF ClientInv, InHand, Idle, Claiming, Pages, Recording, Writing, Newest, Empty, NotEnded
  <2> QED
    BY <1>0, <1>6, <2>1, <2>2 DEF ClientInv, Claiming
<1>7. CASE state[c] = "recording"
  <2>1. todo[c] \in Seq({Do("connect")} \cup {DoWith("config", s) : s \in Subsystem})
    BY <1>0, <1>7 DEF ClientInv, Recording
  <2>2. /\ Tail(todo[c]) \in Seq({Do("connect")} \cup {DoWith("config", s) : s \in Subsystem})
        /\ Len(todo[c]) > 1 => Tail(todo[c]) # <<>>
        /\ ~(Len(todo[c]) > 1) => Tail(todo[c]) = <<>>
    BY <1>0, <2>1, TailOfRow
  <2>3. CASE Len(todo[c]) > 1
    BY <1>0, <1>2, <1>5, <1>7, <2>2, <2>3
    DEF ClientInv, InHand, Idle, Claiming, Pages, Recording, Writing, Newest, Empty, NotEnded,
        IsAt, Latest, Number
  <2>4. CASE ~(Len(todo[c]) > 1)
    BY <1>0, <1>2, <1>5, <1>7, <2>2, <2>4
    DEF ClientInv, InHand, Idle, Claiming, Pages, Recording, Writing, Newest, Empty, NotEnded,
        IsAt, Latest, Number
  <2> QED
    BY <2>3, <2>4
<1>8. CASE state[c] \in {"pausing", "resuming", "stopping", "halting", "finishing", "failing"}
  <2>1. todo[c] # <<Do("end")>>
    BY Fields DEF Statement
  <2>2. \E t \in Transition : todo[c] \in Unwritten(t)
    BY <1>0, <1>4, <1>8, <2>1 DEF ClientInv, Writing
  <2>3. Len(todo[c]) > 1 /\ todo'[c] # <<>>
    BY <1>3, <2>2
  <2>4. InHand(c)'
    BY <1>0, <1>2, <1>8, <2>3 DEF ClientInv, InHand, Idle, Newest, Empty, IsAt, Latest, Number
  <2>5. Claiming(c)' /\ Pages(c)' /\ Recording(c)'
    BY <1>2, <1>8, <2>3 DEF Claiming, Pages, Recording
  <2>6. Writing(c)'
    BY <1>0, <1>2, <1>3, <1>4, <1>8, <2>1, <2>3 DEF ClientInv, Writing, IsAt, Latest, NotEnded
  <2> QED
    BY <1>2, <2>4, <2>5, <2>6 DEF ClientInv
<1> QED
  BY <1>0, <1>6, <1>7, <1>8 DEF ClientInv, InHand, State, Idle

\* The row of the run is there: START is written to its empty page next.
LEMMA RunProceeds ==
  ASSUME Inv, NEW c \in Client, InCall(c), Statement(c).do = "run", HasNumber(c), Commits(c),
         Proceeds(c), NEW m, m = serial + 1, number' = [number EXCEPT ![c] = m]
  PROVE  ClientsOK' /\ ClientInv(c)' /\ \A d \in Client \ {c} : Same(d)
<1>1. /\ state[c] = "claiming"
      /\ todo[c] = <<Do("run"), Do("connect"), DoWith("transition", "START")>>
  BY Positions
<1>2. /\ m \in Number' /\ KeepsOthers(c)
      /\ Newest(c, m)' /\ Empty(m)' /\ NotEnded(m)'
  BY RunCommits
<1>3. Number \subseteq Number'
  BY <1>2 DEF KeepsOthers
<1>4. Len(todo[c]) = 3 /\ Tail(todo[c]) = <<Do("connect"), DoWith("transition", "START")>>
  BY <1>1, Fields
<1>5. /\ ClientsOK' /\ \A d \in Client \ {c} : Same(d)
      /\ todo'[c] = <<Do("connect"), DoWith("transition", "START")>> /\ number'[c] = m
      /\ state'[c] = "claiming" /\ run'[c] = run[c]
  <2>1. number \in [Client -> Number \cup {NoNumber}]
    BY DEF Inv, TypeOK
  <2>2. /\ number' \in [Client -> Number' \cup {NoNumber}] /\ number'[c] = m
        /\ \A d \in Client \ {c} : number'[d] = number[d]
    BY <1>2, <1>3, <2>1
  <2>3. ClientsOK' /\ (\A d \in Client \ {c} : Same(d)) /\ GoesOn(c)
    BY <1>3, <2>2, ProceedsTypes
  <2> QED
    BY <1>1, <1>3, <1>4, <2>2, <2>3 DEF GoesOn
<1>6. run'[c] = NoNumber
  BY <1>1, <1>5 DEF Inv, ClientInv, InHand
<1>7. Claiming(c)'
  BY <1>2, <1>5 DEF Claiming, Unwritten, Newest, Empty, NotEnded
<1>8. InHand(c)' /\ Pages(c)' /\ Recording(c)' /\ Writing(c)'
  BY <1>5, <1>6 DEF InHand, Idle, Pages, Recording, Writing
<1> QED
  BY <1>5, <1>7, <1>8 DEF ClientInv

\* The transition is written: the call returns, or the end comment is left.
LEMMA TransitionProceeds ==
  ASSUME Inv, NEW c \in Client, NEW t \in Transition, Writes(c, t), InCall(c),
         Statement(c).do = "transition", Statement(c).what = t, Commits(c),
         Proceeds(c), number' = number, NEW n, n = number[c]
  PROVE  ClientsOK' /\ ClientInv(c)' /\ \A d \in Client \ {c} : Same(d)
<1>1. /\ UNCHANGED <<runs, ends>> /\ Number' = Number /\ ~Empty(n)' /\ Latest(n)' = t
  BY TransitionCommits DEF Number
<1>2. number' \in [Client -> Number' \cup {NoNumber}]
  BY <1>1 DEF Inv, TypeOK
<1>3. /\ Len(todo[c]) = IF t = "STOP" THEN 2 ELSE 1
      /\ Tail(todo[c]) = Rest(t)
  <2>1. todo[c] = <<DoWith("transition", t)>> \o Rest(t)
    BY DEF Writes
  <2>2. CASE t = "STOP"
    <3>1. todo[c] = <<DoWith("transition", t), Do("end")>>
      BY <2>1, <2>2, OneAndOne DEF Rest
    <3> QED
      BY <2>2, <3>1, Fields DEF Rest
  <2>3. CASE t # "STOP"
    <3>1. <<DoWith("transition", t)>> \o <<>> = <<DoWith("transition", t)>>
      OBVIOUS
    <3> QED
      BY <2>1, <2>3, <3>1, Fields DEF Rest
  <2> QED
    BY <2>2, <2>3
<1>4. Newest(c, n)'
  BY <1>1 DEF Writes, Newest
<1>10. ClientsOK' /\ (\A d \in Client \ {c} : Same(d)) /\ GoesOn(c)
  BY <1>1, <1>2, ProceedsTypes
<1>5. /\ todo'[c] = Rest(t) /\ number'[c] = n
      /\ t = "STOP" => state'[c] = state[c] /\ run'[c] = run[c]
      /\ t # "STOP" =>
           /\ state'[c] = After(state[c])
           /\ state[c] = "claiming" => run'[c] = n
           /\ state[c] \in {"finishing", "failing"} => run'[c] = NoNumber
           /\ state[c] \notin {"claiming", "finishing", "failing"} => run'[c] = run[c]
  BY <1>3, <1>10 DEF GoesOn
<1>6. /\ Latest(number[c])' = t /\ Newest(c, number[c])' /\ ~Empty(number[c])'
  BY <1>1, <1>4, <1>5 DEF Newest, Empty, Latest
<1>7. CASE t = "STOP"
  <2>0. state[c] = "stopping" /\ number[c] = run[c] /\ run[c] # NoNumber /\ NotEnded(run[c])
    BY <1>7 DEF Writes
  <2>1. state'[c] = "stopping" /\ run'[c] = number'[c] /\ run[c] # NoNumber /\ ends'[run'[c]] = 0
        /\ todo'[c] = <<Do("end")>>
    BY <1>1, <1>5, <1>7, <2>0 DEF NotEnded, Rest
  <2>2. InHand(c)'
    BY <1>5, <1>6, <1>7, <2>1 DEF InHand, Idle, IsAt, Newest, Empty, Latest
  <2>3. Writing(c)' /\ Claiming(c)' /\ Pages(c)' /\ Recording(c)'
    BY <1>6, <1>7, <2>1 DEF Writing, Claiming, Pages, Recording, IsAt, Latest, NotEnded
  <2> QED
    BY <1>10, <2>2, <2>3 DEF ClientInv
<1>8. CASE t # "STOP" /\ state[c] \in {"finishing", "failing"}
  <2>1. state'[c] = "configured" /\ run'[c] = NoNumber /\ todo'[c] = <<>>
    BY <1>5, <1>8 DEF After, Rest
  <2> QED
    BY <1>10, <2>1 DEF ClientInv, InHand, Idle, Claiming, Pages, Recording, Writing
<1>9. CASE t # "STOP" /\ state[c] \notin {"finishing", "failing"}
  <2>1. \/ state'[c] = "starting" /\ t = "START" /\ ends[n] = 0
        \/ state'[c] = "paused" /\ t = "PAUSE" /\ ends[n] = 0
        \/ state'[c] = "running" /\ t = "RESUME" /\ ends[n] = 0
        \/ state'[c] = "halted" /\ t = "HALT"
    BY <1>5, <1>9 DEF Writes, After, NotEnded
  <2>2. run'[c] = number'[c] /\ todo'[c] = <<>>
    BY <1>5, <1>9 DEF Writes, Rest
  <2>6. t # "ERROR" /\ state'[c] \in {"starting", "paused", "running", "halted"}
    BY <2>1
  <2>7. run'[c] # NoNumber
    <3>1. n \in Number /\ Number \subseteq 1..serial /\ serial \in Nat
      BY NumberAssumption DEF Writes, Newest, Inv, TypeOK
    <3>2. n # NoNumber
      BY <3>1, NumberAssumption
    <3> QED
      BY <1>5, <2>2, <3>2
  <2>3. InHand(c)'
    BY <1>6, <2>2, <2>6, <2>7 DEF InHand, Idle, IsAt, Newest, Empty, Latest
  <2>4. Pages(c)'
    BY <1>1, <1>5, <1>6, <2>1, <2>2 DEF Pages, IsAt, Latest, NotEnded
  <2>5. Writing(c)' /\ Claiming(c)' /\ Recording(c)'
    BY <2>1 DEF Writing, Claiming, Recording
  <2> QED
    BY <1>10, <2>3, <2>4, <2>5 DEF ClientInv
<1> QED
  BY <1>7, <1>8, <1>9

\* The end comment is written: the run is stopped.
LEMMA EndProceeds ==
  ASSUME Inv, NEW c \in Client, InCall(c), Statement(c).do = "end", Commits(c), Proceeds(c),
         number' = number
  PROVE  ClientsOK' /\ ClientInv(c)' /\ \A d \in Client \ {c} : Same(d)
<1>1. /\ UNCHANGED <<runs, transitions>> /\ Number' = Number
      /\ state[c] = "stopping" /\ Newest(c, run[c]) /\ ends'[run[c]] = 1
  BY EndCommits DEF Number
<1>2. todo[c] = <<Do("end")>>
  BY Positions
<1>3. /\ number' \in [Client -> Number' \cup {NoNumber}] /\ Len(todo[c]) = 1 /\ Tail(todo[c]) = <<>>
  BY <1>1, <1>2 DEF Inv, TypeOK
<1>4. /\ ClientsOK' /\ \A d \in Client \ {c} : Same(d)
      /\ todo'[c] = <<>> /\ state'[c] = "stopped" /\ run'[c] = run[c]
  <2>1. ClientsOK' /\ (\A d \in Client \ {c} : Same(d)) /\ GoesOn(c)
    BY <1>1, <1>3, ProceedsTypes
  <2> QED
    BY <1>1, <1>3, <2>1 DEF After, GoesOn
<1>5. ASSUME NEW t \in Transition PROVE <<Do("end")>> \notin Unwritten(t)
  BY EndIsNotUnwritten
<1>6. run[c] # NoNumber /\ ~Empty(run[c]) /\ ~IsAt(run[c], {"ERROR"}) /\ IsAt(run[c], {"STOP"})
  BY <1>1, <1>2, <1>5, "STOP" \in Transition DEF Inv, ClientInv, InHand, Idle, Writing, Transition
<1>7. InHand(c)'
  BY <1>1, <1>4, <1>6 DEF InHand, Idle, Newest, Empty, IsAt, Latest
<1>8. Pages(c)'
  BY <1>1, <1>4, <1>6 DEF Pages, IsAt, Latest
<1>9. Claiming(c)' /\ Recording(c)' /\ Writing(c)'
  BY <1>4 DEF Claiming, Recording, Writing
<1> QED
  BY <1>4, <1>7, <1>8, <1>9 DEF ClientInv

\* Where a call throws after a commit, its run is at any transition but ERROR.
LEMMA CommitsThenThrows ==
  ASSUME Inv, NEW c \in Client, InCall(c), Statement(c).do # "connect", HasNumber(c), Commits(c),
         Throws(c), state[c] # "failing", run[c] # NoNumber
  PROVE  Newest(c, run[c])' /\ ~Empty(run[c])' /\ ~IsAt(run[c], {"ERROR"})'
<1>1. Newest(c, run[c]) /\ ~Empty(run[c]) /\ ~IsAt(run[c], {"ERROR"}) /\ state[c] # "claiming"
  BY DEF Inv, ClientInv, InHand
<1>2. run'[c] = run[c]
  BY DEF Throws, Inv, TypeOK
<1>3. CASE Statement(c).do = "transition"
  <2>1. PICK t \in Transition : Statement(c).what = t /\ Writes(c, t)
    BY <1>3, WritesFit
  <2>2. number[c] = run[c] /\ t # "ERROR"
    BY <1>1, <2>1 DEF Writes
  <2> PICK n : n = number[c]
    OBVIOUS
  <2>3. runs' = runs /\ ~Empty(n)' /\ Latest(n)' = t
    BY <1>3, <2>1, TransitionCommits
  <2> QED
    BY <1>1, <1>2, <2>2, <2>3 DEF Newest, Number, Empty, IsAt, Latest
<1>4. CASE Statement(c).do \in {"type", "end", "config"}
  <2>1. UNCHANGED <<runs, transitions>>
    <3>1. CASE Statement(c).do = "type"
      BY <3>1 DEF Commits, tables
    <3>2. CASE Statement(c).do = "end"
      BY <3>2, EndCommits
    <3>3. CASE Statement(c).do = "config"
      BY <3>3, ConfigCommits
    <3> QED
      BY <1>4, <3>1, <3>2, <3>3
  <2> QED
    BY <1>1, <1>2, <2>1 DEF Newest, Number, Empty, IsAt, Latest
<1> QED
  BY <1>1, <1>3, <1>4, Positions

\* A call that throws without a commit.
LEMMA ThrowsAlone ==
  ASSUME Inv, NEW c \in Client, InCall(c), Throws(c), UNCHANGED <<runs, transitions, ends>>
  PROVE  ClientsOK' /\ ClientInv(c)' /\ \A d \in Client \ {c} : Same(d)
<1>1. KeepsOthers(c)
  BY RowsKept
<1>2. ASSUME state[c] # "failing", run[c] # NoNumber
      PROVE  Newest(c, run[c])' /\ ~Empty(run[c])' /\ ~IsAt(run[c], {"ERROR"})'
  <2>1. Newest(c, run[c]) /\ ~Empty(run[c]) /\ ~IsAt(run[c], {"ERROR"})
    BY <1>2 DEF Inv, ClientInv, InHand
  <2>2. run'[c] = run[c]
    BY <1>2 DEF Throws, Inv, TypeOK
  <2> QED
    BY <2>1, <2>2 DEF Newest, Number, Empty, IsAt, Latest
<1> QED
  BY <1>1, <1>2, ThrowsKeepsClient

LEMMA CallKeepsInv ==
  ASSUME Inv, NEW c \in Client, Executes(c)
  PROVE  Inv'
<1>0. /\ up \in BOOLEAN /\ link \in [Client -> {"up", "cut", "bad", "none"}] /\ TablesOK
  BY DEF Inv, TypeOK, TablesOK
<1>1. ASSUME LinksOK', TablesOK', ClientsOK' PROVE TypeOK'
  BY <1>1 DEF LinksOK, TablesOK, ClientsOK, TypeOK
<1>2. CASE Connect(c)
  <2>1. InCall(c) /\ Statement(c).do = "connect" /\ UNCHANGED <<up, serial, runs, transitions, ends, config, number>>
    BY <1>2 DEF Connect, tables
  <2>2. LinksOK' /\ (Proceeds(c) \/ Throws(c))
    BY <1>0, <1>2 DEF Connect, LinksOK
  <2>3. TablesOK'
    BY <1>0, <2>1 DEF TablesOK, Number
  <2>4. ClientsOK' /\ ClientInv(c)' /\ \A d \in Client \ {c} : Same(d)
    BY <2>1, <2>2, QuietProceeds, ThrowsAlone
  <2> QED
    BY <1>1, <2>1, <2>2, <2>3, <2>4, RowsKept, OneClient
<1>3. CASE Succeeds(c)
  <2>1. /\ InCall(c) /\ Statement(c).do # "connect" /\ HasNumber(c) /\ Commits(c) /\ Proceeds(c)
        /\ UNCHANGED <<up, link>>
        /\ number' = [number EXCEPT ![c] = IF Statement(c).do = "run" THEN serial + 1 ELSE @]
    BY <1>3 DEF Succeeds, IsStatement
  <2>2. TablesOK' /\ KeepsOthers(c) /\ EndsInv'
    BY <2>1, CommitsKeepRows
  <2>3. number \in [Client -> Number \cup {NoNumber}]
    BY DEF Inv, TypeOK
  <2>4. ClientsOK' /\ ClientInv(c)' /\ \A d \in Client \ {c} : Same(d)
    <3>1. CASE Statement(c).do = "run"
      BY <2>1, <3>1, RunProceeds
    <3>2. CASE Statement(c).do # "run"
      <4>1. number' = number
        BY <2>1, <2>3, <3>2
      <4>2. CASE Statement(c).do = "transition"
        BY <2>1, <4>1, <4>2, WritesFit, TransitionProceeds
      <4>3. CASE Statement(c).do = "end"
        BY <2>1, <4>1, <4>3, EndProceeds
      <4>4. CASE Statement(c).do \in {"type", "config"}
        <5>1. UNCHANGED <<runs, transitions, ends>>
          BY <2>1, <4>4, ConfigCommits DEF Commits, tables
        <5> QED
          BY <2>1, <4>1, <4>4, <5>1, QuietProceeds
      <4> QED
        BY <2>1, <3>2, <4>2, <4>3, <4>4, Positions
    <3> QED
      BY <3>1, <3>2
  <2>5. LinksOK'
    BY <1>0, <2>1 DEF LinksOK
  <2> QED
    BY <1>1, <2>2, <2>4, <2>5, OneClient
<1>4. CASE IsRefused(c)
  <2>1. /\ InCall(c) /\ Throws(c) /\ UNCHANGED <<up, link, runs, transitions, ends, config>>
        /\ serial' = serial \/ (serial' = serial + 1 /\ serial < MaxNumber)
    <3>1. serial' \in {serial} \cup (IF Statement(c).do = "run" /\ HasNumber(c) THEN {serial + 1} ELSE {})
      BY <1>4 DEF IsRefused
    <3>2. Statement(c).do = "run" /\ HasNumber(c) => serial < MaxNumber
      BY DEF HasNumber
    <3>3. serial' = serial \/ (serial' = serial + 1 /\ serial < MaxNumber)
      BY <3>1, <3>2
    <3> QED
      BY <1>4, <3>3 DEF IsRefused, IsStatement
  <2>2. LinksOK' /\ TablesOK'
    BY <1>0, <2>1, NumberAssumption DEF LinksOK, TablesOK, Number
  <2> QED
    BY <1>1, <2>1, <2>2, ThrowsAlone, RowsKept, OneClient
<1>5. CASE AnswerIsLost(c)
  <2>1. /\ InCall(c) /\ Statement(c).do # "connect" /\ HasNumber(c) /\ Commits(c) /\ Throws(c)
        /\ link' = [link EXCEPT ![c] = "bad"] /\ UNCHANGED up
    BY <1>5 DEF AnswerIsLost, IsStatement
  <2>2. LinksOK'
    BY <1>0, <2>1 DEF LinksOK
  <2>3. TablesOK' /\ KeepsOthers(c) /\ EndsInv'
    BY <2>1, CommitsKeepRows
  <2>4. ClientsOK' /\ ClientInv(c)' /\ \A d \in Client \ {c} : Same(d)
    BY <2>1, <2>3, CommitsThenThrows, ThrowsKeepsClient
  <2> QED
    BY <1>1, <2>2, <2>3, <2>4, OneClient
<1>6. CASE IsNotSent(c)
  <2>1. /\ InCall(c) /\ Throws(c) /\ link' = [link EXCEPT ![c] = "bad"]
        /\ UNCHANGED <<up, serial, runs, transitions, ends, config>>
    BY <1>6 DEF IsNotSent, IsStatement, tables
  <2>2. LinksOK' /\ TablesOK'
    BY <1>0, <2>1 DEF LinksOK, TablesOK, Number
  <2> QED
    BY <1>1, <2>1, <2>2, ThrowsAlone, RowsKept, OneClient
<1> QED
  BY <1>2, <1>3, <1>4, <1>5, <1>6 DEF Executes

-----------------------------------------------------------------------------
(* The theorems                                                             *)

LEMMA InitInv == Init => Inv
<1> SUFFICES ASSUME Init PROVE Inv
  OBVIOUS
<1>1. DOMAIN runs = {} /\ runs = <<>> /\ transitions = <<>> /\ ends = <<>> /\ config = <<>>
  BY DEF Init
<1>2. runs \in [{} -> Client] /\ transitions \in [{} -> Seq(Transition)] /\ ends \in [{} -> Nat]
      /\ config \in [{} -> [Subsystem -> Nat]]
  BY <1>1
<1>3. TypeOK
  BY <1>1, <1>2, NumberAssumption, EmptySeq DEF Init, TypeOK, Number, State
<1>4. EndsInv
  BY <1>1 DEF EndsInv, Number
<1>5. \A c \in Client : ClientInv(c)
  BY DEF Init, ClientInv, InHand, Idle, Claiming, Pages, Recording, Writing
<1> QED
  BY <1>3, <1>4, <1>5 DEF Inv

\* A step of the database, or none.
LEMMA OthersKeepInv ==
  ASSUME Inv,
         DatabaseFails \/ DatabaseReturns \/ (\E c \in Client : LinkIsCut(c)) \/ UNCHANGED vars
  PROVE  Inv' /\ UNCHANGED <<runs, transitions>>
<1>1. UNCHANGED <<serial, runs, transitions, ends, config, state, run, todo, number>>
  BY DEF DatabaseFails, DatabaseReturns, LinkIsCut, vars, tables, supervisor, call
<1>2. LinksOK'
  BY DEF Inv, TypeOK, LinksOK, DatabaseFails, DatabaseReturns, LinkIsCut, vars
<1>3. TypeOK'
  BY <1>1, <1>2 DEF Inv, TypeOK, LinksOK, Number
<1>4. EndsInv'
  BY <1>1 DEF Inv, EndsInv, Number, NotEnded, HasRow
<1>5. ASSUME NEW c \in Client PROVE ClientInv(c)'
  BY <1>1 DEF Inv, ClientInv, InHand, Claiming, Pages, Recording, Writing, Newest, Number, Empty,
              IsAt, Latest, NotEnded
<1> QED
  BY <1>1, <1>3, <1>4, <1>5 DEF Inv

LEMMA NextInv == Inv /\ [Next]_vars => Inv'
BY SupervisorKeepsInv, CallKeepsInv, OthersKeepInv DEF Next

THEOREM Invariance == Spec => []Inv
<1> QED
  BY InitInv, NextInv, PTL DEF Spec

\* Every variable keeps its type (DBRunInfo_runInfo.cc, all calls), for any clients.
THEOREM TypeCorrect == Spec => []TypeOK
<1>1. Inv => TypeOK
  BY DEF Inv
<1> QED
  BY <1>1, Invariance, PTL

\* A step of the plugins and of the database is a step of the book, or none.
LEMMA StepIsOfBook == Inv /\ [Next]_vars => [Book!Next]_(Book!vars)
<1> SUFFICES ASSUME Inv, [Next]_vars PROVE [Book!Next]_(Book!vars)
  OBVIOUS
<1>1. CASE DatabaseFails \/ DatabaseReturns \/ (\E c \in Client : LinkIsCut(c)) \/ UNCHANGED vars
  BY <1>1, OthersKeepInv DEF Book!vars
<1>2. ASSUME NEW c \in Client, Supervises(c) PROVE [Book!Next]_(Book!vars)
  <2>1. UNCHANGED <<runs, transitions>>
    BY <1>2 DEF Supervises, Start, EndOfStart, Pause, Resume, Stop, StopComplete, Halt, HaltComplete,
                Error, Recover, Restart, CallsAbout, Calls, tables
  <2> QED
    BY <2>1 DEF Book!vars
<1>3. ASSUME NEW c \in Client, Executes(c) PROVE [Book!Next]_(Book!vars)
  <2>1. CASE Succeeds(c) \/ AnswerIsLost(c)
    BY <2>1, CommitsKeepRows DEF Succeeds, AnswerIsLost, IsStatement
  <2>2. CASE Connect(c) \/ IsRefused(c) \/ IsNotSent(c)
    BY <2>2 DEF Connect, IsRefused, IsNotSent, tables, Book!vars
  <2> QED
    BY <1>3, <2>1, <2>2 DEF Executes
<1> QED
  BY <1>1, <1>2, <1>3 DEF Next

\* The tables are a book of runs (claimNextRunNumber, updateRunInfo): a number is given once,
\* nobody writes to the run of another, and the transitions of a run fit each other, for any
\* clients and whatever fails.
THEOREM RefinesBook == Spec => ImplementsBook
<1>1. Init => Book!Init
  BY DEF Init, Book!Init
<1> QED
  BY <1>1, StepIsOfBook, Invariance, PTL DEF Spec, ImplementsBook, Book!Spec

\* Between two calls the list shows a run as its supervisor sees it, and end comments go with
\* stops (updateRunInfo, getRunRecords).
THEOREM RecordsAreTrue == Spec => []StatusIsTrue
<1>1. Inv => StatusIsTrue
  <2> SUFFICES ASSUME Inv PROVE StatusIsTrue
    OBVIOUS
  <2>1. ASSUME NEW c \in Client
        PROVE  /\ state[c] \in {"starting", "running"} => Latest(run[c]) \in {"START", "RESUME"}
               /\ state[c] = "paused" => Latest(run[c]) = "PAUSE"
               /\ state[c] = "stopped" => Latest(run[c]) = "STOP"
               /\ state[c] = "halted" => Latest(run[c]) = "HALT"
    BY DEF Inv, ClientInv, Pages, IsAt
  <2>2. ASSUME NEW n \in Number, NEW t PROVE RowsOf(t, n) > 0 <=> HasRow(t, n)
    <3> DEFINE S == {i \in DOMAIN transitions[n] : transitions[n][i] = t}
    <3>1. transitions[n] \in Seq(Transition)
      BY DEF Inv, TypeOK
    <3>2. DOMAIN transitions[n] = 1..Len(transitions[n]) /\ Len(transitions[n]) \in Nat
      BY <3>1, LenProperties
    <3>3. IsFiniteSet(S)
      <4>1. IsFiniteSet(1..Len(transitions[n])) /\ S \subseteq 1..Len(transitions[n])
        BY <3>2, FS_Interval
      <4> QED
        BY <4>1, FS_Subset
    <3>4. Cardinality(S) \in Nat /\ (Cardinality(S) = 0 <=> S = {})
      BY <3>3, FS_CardinalityType, FS_EmptySet
    <3> QED
      BY <3>4 DEF RowsOf, HasRow
  <2>3. ASSUME NEW n \in Number
        PROVE  /\ ends[n] > 0 => RowsOf("STOP", n) > 0
               /\ RowsOf("STOP_COMPLETE", n) > 0 => ends[n] = 1
    BY <2>2 DEF Inv, EndsInv, NotEnded, TypeOK
  <2> QED
    BY <2>1, <2>3 DEF StatusIsTrue
<1> QED
  BY <1>1, Invariance, PTL

-----------------------------------------------------------------------------
(* The condition of a run (insertRunCondition): a call that may break off   *)
(* between any two of its rows leaves no run that runs without a row for    *)
(* every subsystem, and never two for one.  The argument follows the rows   *)
(* of the run in hand: none until its condition is recorded, then one for   *)
(* every subsystem that is not among the statements left, and one for each  *)
(* from then on.  That nobody else writes to the run is the invariant Inv.  *)

\* The subsystem s is among the statements left.
InRow(q, e)   == \E i \in DOMAIN q : q[i] = e
Left(c, s)    == InRow(todo[c], DoWith("config", s))
Distinct(q)   == \A i, j \in DOMAIN q : q[i] = q[j] => i = j

Unrecorded(n) == \A s \in Subsystem : config[n][s] = 0
Recorded(n)   == \A s \in Subsystem : config[n][s] = 1

\* States of a supervisor whose run has its condition.
Taken == {"running", "pausing", "paused", "resuming", "stopping", "stopped", "halting", "halted"}

ConfigOf(c) ==
  /\ state[c] = "claiming" /\ todo[c] \in Unwritten("START") => Unrecorded(number[c])
  /\ state[c] = "starting" => Unrecorded(run[c])
  /\ state[c] = "recording" =>
       /\ Distinct(todo[c])
       /\ \A s \in Subsystem : config[run[c]][s] = IF Left(c, s) THEN 0 ELSE 1
  /\ state[c] \in Taken => Recorded(run[c])

RowsInv == \A n \in Number, s \in Subsystem : config[n][s] <= 1

ConfigInv == RowsInv /\ \A c \in Client : ConfigOf(c)

\* A step of c leaves the conditions of others' runs alone.
KeepsConfig(c) == \A k \in Number : runs[k] # c => config'[k] = config[k]

-----------------------------------------------------------------------------
(* Rows of statements                                                       *)

\* What the rest of a row has, and that it does not repeat its head.
LEMMA RestOfRow ==
  ASSUME NEW T, NEW q \in Seq(T), q # <<>>
  PROVE  /\ \A e : InRow(q, e) <=> e = Head(q) \/ InRow(Tail(q), e)
         /\ Distinct(q) => Distinct(Tail(q)) /\ ~InRow(Tail(q), Head(q))
<1> DEFINE r == Tail(q)
           n == Len(q)
<1>1. n \in Nat \ {0} /\ DOMAIN q = 1..n /\ Head(q) = q[1]
  BY EmptySeq, LenProperties
<1>2. r \in Seq(T) /\ Len(r) = n - 1 /\ \A i \in 1..(n - 1) : r[i] = q[i + 1]
  BY HeadTailProperties
<1>3. DOMAIN r = 1..(n - 1)
  BY <1>2, LenProperties
<1> HIDE DEF r, n
<1>4. ASSUME NEW e PROVE InRow(q, e) <=> e = q[1] \/ InRow(r, e)
  <2>1. ASSUME NEW i \in 1..n, q[i] = e PROVE e = q[1] \/ InRow(r, e)
    <3>1. i = 1 \/ i - 1 \in 1..(n - 1)
      BY <1>1
    <3>2. i - 1 \in 1..(n - 1) => r[i - 1] = q[i]
      BY <1>2
    <3> QED
      BY <1>3, <2>1, <3>1, <3>2 DEF InRow
  <2>2. ASSUME NEW i \in 1..(n - 1), r[i] = e PROVE InRow(q, e)
    <3>1. i + 1 \in 1..n /\ q[i + 1] = e
      BY <1>1, <1>2, <2>2
    <3> QED
      BY <1>1, <3>1 DEF InRow
  <2>3. e = q[1] => InRow(q, e)
    BY <1>1 DEF InRow
  <2> QED
    BY <1>1, <1>3, <2>1, <2>2, <2>3 DEF InRow
<1>5. ASSUME Distinct(q) PROVE Distinct(r) /\ ~InRow(r, q[1])
  <2>1. \A i, j \in 1..(n - 1) : r[i] = r[j] => i = j
    <3> SUFFICES ASSUME NEW i \in 1..(n - 1), NEW j \in 1..(n - 1), r[i] = r[j] PROVE i = j
      OBVIOUS
    <3>1. i + 1 \in 1..n /\ j + 1 \in 1..n /\ q[i + 1] = q[j + 1]
      BY <1>1, <1>2
    <3>2. i + 1 = j + 1
      BY <1>1, <1>5, <3>1 DEF Distinct
    <3> QED
      BY <3>2
  <2>2. ASSUME NEW i \in 1..(n - 1), r[i] = q[1] PROVE FALSE
    <3>1. i + 1 \in 1..n /\ q[i + 1] = q[1] /\ 1 \in 1..n
      BY <1>1, <1>2, <2>2
    <3>2. i + 1 = 1
      BY <1>1, <1>5, <3>1 DEF Distinct
    <3> QED
      BY <3>2
  <2> QED
    BY <1>3, <2>1, <2>2 DEF Distinct, InRow
<1> QED
  BY <1>1, <1>4, <1>5 DEF r

\* A condition has one statement for every subsystem.
LEMMA ConditionHasAll ==
  Distinct(Condition) /\ \A s \in Subsystem : InRow(Condition, DoWith("config", s))
<1> DEFINE order == SetToSeq(Subsystem)
           N == Cardinality(Subsystem)
           rows == [i \in 1..N |-> DoWith("config", order[i])]
           S == {Do("connect")} \cup {DoWith("config", s) : s \in Subsystem}
<1>1. N \in Nat /\ ExistsBijection(1..N, Subsystem)
  BY SubsystemAssumption, FS_CardinalityType
<1>2. \E f \in [1..N -> Subsystem] : IsInjective(f)
  BY <1>1 DEF ExistsBijection, Bijection, Injection, IsInjective
<1>3. order \in [1..N -> Subsystem] /\ IsInjective(order)
  BY <1>2 DEF SetToSeq
<1>4. IsFiniteSet(1..N) /\ Cardinality(1..N) = N
  BY <1>1, FS_Interval
<1>5. order \in Surjection(1..N, Subsystem)
  <2>1. order \in Injection(1..N, Subsystem)
    BY <1>3 DEF Injection, IsInjective
  <2> QED
    BY <1>4, <2>1, SubsystemAssumption, FS_Injection
<1>6. \A s \in Subsystem : \E i \in 1..N : order[i] = s
  BY <1>5 DEF Surjection
<1>7. rows \in Seq(S) /\ <<Do("connect")>> \in Seq(S) /\ Len(rows) = N
  BY <1>1, <1>3
<1>8. Condition = <<Do("connect")>> \o rows
  BY DEF Condition
<1>9. /\ Condition \in Seq(S) /\ DOMAIN Condition = 1..(N + 1) /\ Condition[1] = Do("connect")
      /\ \A i \in 1..N : Condition[i + 1] = DoWith("config", order[i])
  <2>1. Len(Condition) = N + 1 /\ Condition \in Seq(S)
    BY <1>1, <1>7, <1>8, ConcatProperties
  <2>2. Condition[1] = Do("connect")
    BY <1>1, <1>7, <1>8, ConcatProperties
  <2>3. ASSUME NEW i \in 1..N PROVE Condition[i + 1] = rows[i]
    BY <1>1, <1>7, <1>8, ConcatProperties
  <2> QED
    BY <1>1, <2>1, <2>2, <2>3, LenProperties
<1> HIDE DEF order, N, rows, S
<1>10. \A s \in Subsystem : InRow(Condition, DoWith("config", s))
  <2> SUFFICES ASSUME NEW s \in Subsystem PROVE InRow(Condition, DoWith("config", s))
    OBVIOUS
  <2>1. PICK i \in 1..N : order[i] = s
    BY <1>6
  <2>2. i + 1 \in 1..(N + 1)
    BY <1>1
  <2> QED
    BY <1>9, <2>1, <2>2 DEF InRow
<1>11. Distinct(Condition)
  <2> SUFFICES ASSUME NEW i \in 1..(N + 1), NEW j \in 1..(N + 1), Condition[i] = Condition[j]
               PROVE  i = j
    BY <1>9 DEF Distinct
  <2>1. \A k \in 1..(N + 1) : k = 1 \/ k - 1 \in 1..N
    BY <1>1
  <2>2. ASSUME NEW k \in 1..(N + 1), k # 1
        PROVE  Condition[k] = DoWith("config", order[k - 1]) /\ Condition[k] # Do("connect")
    <3>1. k - 1 \in 1..N /\ (k - 1) + 1 = k
      BY <1>1, <2>2
    <3>2. Condition[k] = DoWith("config", order[k - 1])
      BY <1>9, <3>1
    <3> QED
      BY <3>2, Fields
  <2>3. CASE i = 1 \/ j = 1
    BY <1>9, <2>2, <2>3
  <2>4. CASE i # 1 /\ j # 1
    <3>1. order[i - 1] = order[j - 1]
      BY <2>2, <2>4, Fields
    <3>2. i - 1 = j - 1
      BY <1>3, <2>1, <2>4, <3>1 DEF IsInjective
    <3> QED
      BY <3>2
  <2> QED
    BY <2>3, <2>4
<1> QED
  BY <1>10, <1>11

-----------------------------------------------------------------------------
(* The steps                                                                *)

\* A step of c does not disturb what is said of another client's run.
LEMMA OthersConfig ==
  ASSUME Inv, NEW c \in Client, NEW d \in Client, c # d, ConfigOf(d), KeepsConfig(c), Same(d)
  PROVE  ConfigOf(d)'
<1>0. ClientInv(d)
  BY DEF Inv
<1>1. ASSUME NEW n, Newest(d, n) PROVE config'[n] = config[n]
  BY <1>1 DEF Newest, KeepsConfig
<1>2. state[d] \in Taken \cup {"starting", "recording"} => config'[run[d]] = config[run[d]]
  BY <1>0, <1>1 DEF ClientInv, InHand, Taken
<1>3. state[d] = "claiming" /\ todo[d] \in Unwritten("START") => config'[number[d]] = config[number[d]]
  <2> SUFFICES ASSUME state[d] = "claiming", todo[d] \in Unwritten("START")
               PROVE  Newest(d, number[d])
    BY <1>1
  <2>1. "START" \in Transition
    BY DEF Transition
  <2>2. todo[d] \notin Unclaimed
    <3>1. Len(todo[d]) \in {1, 2}
      BY DEF Unwritten
    <3>2. \A st \in Unclaimed : Len(st) \in {3, 4, 5}
      BY DEF Unclaimed
    <3> QED
      BY <3>1, <3>2
  <2> QED
    BY <1>0, <2>2 DEF ClientInv, Claiming
<1> QED
  BY <1>2, <1>3 DEF ConfigOf, Same, Unrecorded, Recorded, Left, Taken

\* So a step of c is to be looked at for c and for the table only.
LEMMA OneConfig ==
  ASSUME Inv, ConfigInv, NEW c \in Client, KeepsConfig(c), \A d \in Client \ {c} : Same(d),
         RowsInv', ConfigOf(c)'
  PROVE  ConfigInv'
<1>1. ASSUME NEW d \in Client PROVE ConfigOf(d)'
  BY OthersConfig DEF ConfigInv
<1> QED
  BY <1>1 DEF ConfigInv

\* A step that leaves the conditions alone.
LEMMA ConfigKept ==
  ASSUME Inv, ConfigInv, NEW c \in Client, UNCHANGED <<runs, config>>
  PROVE  KeepsConfig(c) /\ RowsInv'
BY DEF Inv, ConfigInv, KeepsConfig, RowsInv, Number

LEMMA SupervisorKeepsConfig ==
  ASSUME Inv, ConfigInv, NEW c \in Client, Supervises(c)
  PROVE  ConfigInv'
<1>0. /\ state \in [Client -> State] /\ todo \in [Client -> Seq(Statements)]
      /\ run \in [Client -> Number \cup {NoNumber}] /\ number \in [Client -> Number \cup {NoNumber}]
      /\ ConfigOf(c)
  BY DEF Inv, TypeOK, ConfigInv
<1>1. UNCHANGED <<runs, config>>
  BY DEF Supervises, Start, EndOfStart, Pause, Resume, Stop, StopComplete, Halt, HaltComplete,
         Error, Recover, Restart, CallsAbout, Calls, tables
<1>2. \A d \in Client \ {c} : Same(d)
  BY <1>0 DEF Supervises, Start, EndOfStart, Pause, Resume, Stop, StopComplete, Halt, HaltComplete,
         Error, Recover, Restart, CallsAbout, Calls, Same, call
<1>3. ConfigOf(c)'
  <2>1. CASE Start(c)
    <3>1. state'[c] = "claiming" /\ todo'[c] = Claim
      BY <1>0, <2>1 DEF Start, Calls
    <3>2. Claim \notin Unwritten("START")
      <4>1. \A st \in Unwritten("START") : Len(st) \in {1, 2}
        BY DEF Unwritten
      <4>2. \A st \in Unclaimed : Len(st) \in {3, 4, 5}
        BY DEF Unclaimed
      <4> QED
        BY <4>1, <4>2, ClaimIs
    <3> QED
      BY <3>1, <3>2 DEF ConfigOf, Taken
  <2>2. CASE EndOfStart(c)
    <3>1. state[c] = "starting" /\ state'[c] = "recording" /\ todo'[c] = Condition /\ run' = run
      BY <1>0, <2>2 DEF EndOfStart, CallsAbout, Calls
    <3>2. Unrecorded(run[c])
      BY <1>0, <3>1 DEF ConfigOf
    <3>3. Distinct(todo'[c]) /\ \A s \in Subsystem : Left(c, s)'
      BY <3>1, ConditionHasAll DEF Left
    <3> QED
      BY <1>1, <3>1, <3>2, <3>3 DEF ConfigOf, Unrecorded, Taken
  <2>3. CASE Pause(c) \/ Resume(c) \/ Stop(c) \/ Halt(c)
    <3>1. state[c] \in Taken /\ state'[c] \in Taken /\ run' = run
      BY <1>0, <2>3 DEF Pause, Resume, Stop, Halt, CallsAbout, Calls, Taken
    <3> QED
      BY <1>0, <1>1, <3>1 DEF ConfigOf, Recorded, Taken
  <2>4. CASE StopComplete(c) \/ HaltComplete(c) \/ Error(c) \/ Recover(c) \/ Restart(c)
    <3>1. state'[c] \in {"finishing", "failing", "configured"}
      BY <1>0, <2>4 DEF StopComplete, HaltComplete, Error, Recover, Restart, CallsAbout, Calls
    <3> QED
      BY <3>1 DEF ConfigOf, Taken
  <2> QED
    BY <2>1, <2>2, <2>3, <2>4 DEF Supervises
<1> QED
  BY <1>1, <1>2, <1>3, ConfigKept, OneConfig

\* What a statement does to the conditions.
LEMMA CommitsKeepConfig ==
  ASSUME Inv, ConfigInv, NEW c \in Client, InCall(c), Statement(c).do # "connect", HasNumber(c), Commits(c)
  PROVE  /\ KeepsConfig(c) /\ RowsInv'
         /\ Statement(c).do \notin {"run", "config"} => config' = config
         /\ Statement(c).do = "run" => \A s \in Subsystem : config'[serial + 1][s] = 0
         /\ Statement(c).do = "config" =>
              \A s \in Subsystem : config'[run[c]][s] = IF s = Statement(c).what THEN 1 ELSE config[run[c]][s]
<1>0. /\ runs \in [Number -> Client] /\ config \in [Number -> [Subsystem -> Nat]]
      /\ number \in [Client -> Number \cup {NoNumber}] /\ ClientInv(c) /\ ConfigOf(c) /\ RowsInv
  BY DEF Inv, TypeOK, ConfigInv
<1>1. CASE Statement(c).do \notin {"run", "config"}
  <2>1. Statement(c).do \in {"type", "transition", "end"}
    BY <1>1, Positions
  <2>2. UNCHANGED <<runs, config>>
    BY <2>1 DEF Commits, tables
  <2> QED
    BY <1>1, <2>2, ConfigKept
<1>2. CASE Statement(c).do = "run"
  <2> DEFINE m == serial + 1
  <2>1. /\ runs' = [k \in Number \cup {m} |-> IF k \in Number THEN runs[k] ELSE c]
        /\ config' = [k \in Number \cup {m} |->
                        IF k \in Number THEN config[k] ELSE [x \in Subsystem |-> 0]]
    BY <1>2 DEF Commits
  <2>2. m \notin Number
    BY NumberAssumption DEF Inv, TypeOK
  <2> HIDE DEF m
  <2>3. Number' = Number \cup {m}
    BY <2>1 DEF Number
  <2>4. KeepsConfig(c) /\ \A s \in Subsystem : config'[m][s] = 0
    BY <2>1, <2>2 DEF KeepsConfig
  <2>5. RowsInv'
    BY <1>0, <2>1, <2>2, <2>3, <2>4 DEF RowsInv
  <2> QED
    BY <1>2, <2>4, <2>5 DEF m
<1>3. CASE Statement(c).do = "config"
  <2> DEFINE n == run[c]
             w == Statement(c).what
  <2>1. state[c] = "recording" /\ w \in Subsystem
    BY <1>3, Positions
  <2>2. number[c] = n /\ n \in Number /\ runs[n] = c
    BY <1>0, <2>1 DEF ClientInv, InHand, Idle, Newest, Inv, TypeOK
  <2>3. config' = [config EXCEPT ![n][w] = @ + 1] /\ runs' = runs
    BY <1>3, <2>2 DEF Commits, RunOf
  <2>4. config[n][w] = 0
    <3>1. todo[c] \in Seq(Statements) /\ todo[c] # <<>>
      BY DEF Inv, TypeOK, InCall
    <3>2. Head(todo[c]) = DoWith("config", w)
      <4>1. Head(todo[c]) \in {Do("connect")} \cup {DoWith("config", s) : s \in Subsystem}
        BY <1>0, <2>1, HeadTailProperties DEF ClientInv, Recording
      <4> QED
        BY <1>3, <4>1, Fields DEF Statement
    <3>3. Left(c, w)
      BY <3>1, <3>2, RestOfRow DEF Left
    <3> QED
      BY <1>0, <2>1, <3>3 DEF ConfigOf
  <2> HIDE DEF n, w
  <2>5. \A s \in Subsystem : config'[n][s] = IF s = w THEN 1 ELSE config[n][s]
    BY <1>0, <2>1, <2>2, <2>3, <2>4
  <2>6. \A k \in Number : k # n => config'[k] = config[k]
    BY <1>0, <2>3
  <2>7. RowsInv'
    BY <1>0, <2>3, <2>5, <2>6 DEF RowsInv, Number
  <2>8. KeepsConfig(c)
    BY <2>2, <2>6 DEF KeepsConfig
  <2> QED
    BY <1>3, <2>5, <2>7, <2>8 DEF n, w
<1> QED
  BY <1>1, <1>2, <1>3

\* A call that breaks off says nothing of the condition any more.
LEMMA ThrowsKeepsConfig ==
  ASSUME Inv, NEW c \in Client, InCall(c), Throws(c)
  PROVE  ConfigOf(c)' /\ \A d \in Client \ {c} : Same(d)
<1>1. /\ state \in [Client -> State] /\ todo \in [Client -> Seq(Statements)]
      /\ run \in [Client -> Number \cup {NoNumber}]
  BY DEF Inv, TypeOK
<1>2. state'[c] \in {"configured", "failed"}
  BY <1>1 DEF Throws
<1>3. \A d \in Client \ {c} : Same(d)
  BY <1>1 DEF Throws, Same
<1> QED
  BY <1>2, <1>3 DEF ConfigOf, Taken

\* What is left of a claim once its next statement is done.
LEMMA ClaimGoesOn ==
  ASSUME Inv, NEW c \in Client, InCall(c), state[c] = "claiming"
  PROVE  \/ Statement(c).do \in {"connect", "type"} /\ Len(todo[c]) > 1 /\ Tail(todo[c]) \notin Unwritten("START")
         \/ Statement(c).do = "run" /\ Len(todo[c]) > 1
         \/ Statement(c).do = "connect" /\ Len(todo[c]) > 1 /\ todo[c] \in Unwritten("START")
         \/ Statement(c).do = "transition" /\ Len(todo[c]) = 1 /\ todo[c] \in Unwritten("START")
<1> DEFINE a == Do("connect")
           b == Do("type")
           r == Do("run")
           e == DoWith("transition", "START")
<1>0. /\ a.do = "connect" /\ b.do = "type" /\ r.do = "run" /\ e.do = "transition"
  BY Fields
<1>1. ClientInv(c)
  BY DEF Inv
<1>2. ASSUME NEW x, NEW y, NEW z, NEW w
      PROVE  <<x, y, z, w>> \notin Unwritten("START") /\ <<x, y, z>> \notin Unwritten("START")
  BY DEF Unwritten
<1>3. CASE todo[c] \in Unclaimed
  <2>1. CASE todo[c] = <<a, b, r, a, e>>
    <3>1. Tail(todo[c]) = <<b, r, a, e>> /\ Len(todo[c]) = 5 /\ Head(todo[c]) = a
      BY <2>1
    <3>2. Tail(todo[c]) \notin Unwritten("START")
      BY <1>2, <3>1
    <3> QED
      <4>1. Len(todo[c]) > 1
        BY <3>1
      <4>2. Statement(c).do \in {"connect", "type"}
        BY <1>0, <3>1 DEF Statement
      <4> QED
        BY <3>2, <4>1, <4>2
  <2>2. CASE todo[c] = <<b, r, a, e>>
    <3>1. Tail(todo[c]) = <<r, a, e>> /\ Len(todo[c]) = 4 /\ Head(todo[c]) = b
      BY <2>2
    <3>2. Tail(todo[c]) \notin Unwritten("START")
      BY <1>2, <3>1
    <3> QED
      <4>1. Len(todo[c]) > 1
        BY <3>1
      <4>2. Statement(c).do \in {"connect", "type"}
        BY <1>0, <3>1 DEF Statement
      <4> QED
        BY <3>2, <4>1, <4>2
  <2>3. CASE todo[c] = <<r, a, e>>
    <3>1. Len(todo[c]) = 3 /\ Head(todo[c]) = r
      BY <2>3
    <3> QED
      BY <1>0, <3>1 DEF Statement
  <2> QED
    BY <1>3, <2>1, <2>2, <2>3 DEF Unclaimed
<1>4. CASE todo[c] \in Unwritten("START")
  <2>1. CASE todo[c] = <<a, e>>
    <3>1. Len(todo[c]) = 2 /\ Head(todo[c]) = a
      BY <2>1
    <3> QED
      BY <1>0, <1>4, <3>1 DEF Statement
  <2>2. CASE todo[c] = <<e>>
    <3>1. Len(todo[c]) = 1 /\ Head(todo[c]) = e
      BY <2>2
    <3> QED
      BY <1>0, <1>4, <3>1 DEF Statement
  <2> QED
    BY <1>4, <2>1, <2>2 DEF Unwritten
<1> QED
  BY <1>1, <1>3, <1>4 DEF ClientInv, Claiming

\* A statement that lets the call of c go on.
LEMMA ProceedsKeepsConfig ==
  ASSUME Inv, ConfigInv, NEW c \in Client, InCall(c), GoesOn(c),
         Statement(c).do \notin {"run", "config"} => config' = config,
         Statement(c).do # "run" => number'[c] = number[c],
         Statement(c).do = "run" =>
           number'[c] = serial + 1 /\ \A s \in Subsystem : config'[serial + 1][s] = 0,
         Statement(c).do = "config" =>
           \A s \in Subsystem : config'[run[c]][s] = IF s = Statement(c).what THEN 1 ELSE config[run[c]][s]
  PROVE  ConfigOf(c)'
<1>0. ClientInv(c) /\ ConfigOf(c) /\ state[c] \in State /\ todo[c] \in Seq(Statements) /\ todo[c] # <<>>
  BY DEF Inv, TypeOK, ConfigInv, InCall
<1>1. /\ todo'[c] = Tail(todo[c])
      /\ Len(todo[c]) > 1 => state'[c] = state[c] /\ run'[c] = run[c]
      /\ ~(Len(todo[c]) > 1) =>
           /\ state'[c] = After(state[c])
           /\ state[c] = "claiming" => run'[c] = number'[c]
           /\ state[c] \notin {"claiming", "finishing", "failing"} => run'[c] = run[c]
  BY DEF GoesOn
<1>2. CASE state[c] = "claiming"
  <2>1. CASE Statement(c).do \in {"connect", "type"} /\ Len(todo[c]) > 1 /\ Tail(todo[c]) \notin Unwritten("START")
    BY <1>1, <1>2, <2>1 DEF ConfigOf, Taken
  <2>2. CASE Statement(c).do = "run" /\ Len(todo[c]) > 1
    BY <1>1, <1>2, <2>2 DEF ConfigOf, Unrecorded, Taken
  <2>3. CASE Statement(c).do = "connect" /\ Len(todo[c]) > 1 /\ todo[c] \in Unwritten("START")
    <3>1. Unrecorded(number[c]) /\ config' = config /\ number'[c] = number[c]
      BY <1>0, <1>2, <2>3 DEF ConfigOf
    <3> QED
      BY <1>1, <1>2, <2>3, <3>1 DEF ConfigOf, Unrecorded, Taken
  <2>4. CASE Statement(c).do = "transition" /\ Len(todo[c]) = 1 /\ todo[c] \in Unwritten("START")
    <3>1. Unrecorded(number[c]) /\ config' = config /\ number'[c] = number[c]
      BY <1>0, <1>2, <2>4 DEF ConfigOf
    <3>2. state'[c] = "starting" /\ run'[c] = number'[c]
      BY <1>1, <1>2, <2>4 DEF After
    <3> QED
      BY <3>1, <3>2 DEF ConfigOf, Unrecorded, Taken
  <2> QED
    BY <1>2, <2>1, <2>2, <2>3, <2>4, ClaimGoesOn
<1>3. CASE state[c] = "recording"
  <2>1. Head(todo[c]) \in {Do("connect")} \cup {DoWith("config", s) : s \in Subsystem}
    BY <1>0, <1>3, HeadTailProperties DEF ClientInv, Recording
  <2>2. /\ Distinct(Tail(todo[c])) /\ ~InRow(Tail(todo[c]), Head(todo[c]))
        /\ \A e : InRow(todo[c], e) <=> e = Head(todo[c]) \/ InRow(Tail(todo[c]), e)
    BY <1>0, <1>3, RestOfRow DEF ConfigOf
  <2>3. run'[c] = run[c]
    BY <1>1, <1>3
  <2>4. \A s \in Subsystem : config'[run[c]][s] = IF Left(c, s)' THEN 0 ELSE 1
    <3> SUFFICES ASSUME NEW s \in Subsystem PROVE config'[run[c]][s] = IF Left(c, s)' THEN 0 ELSE 1
      OBVIOUS
    <3>1. Left(c, s)' <=> InRow(Tail(todo[c]), DoWith("config", s))
      BY <1>1 DEF Left
    <3>2. config[run[c]][s] = IF InRow(todo[c], DoWith("config", s)) THEN 0 ELSE 1
      BY <1>0, <1>3 DEF ConfigOf, Left
    <3>3. CASE Head(todo[c]) = Do("connect")
      <4>1. DoWith("config", s) # Head(todo[c]) /\ config' = config
        BY <3>3, Fields DEF Statement
      <4> QED
        BY <2>2, <3>1, <3>2, <4>1
    <3>4. ASSUME NEW w \in Subsystem, Head(todo[c]) = DoWith("config", w)
          PROVE  config'[run[c]][s] = IF Left(c, s)' THEN 0 ELSE 1
      <4>1. config'[run[c]][s] = IF s = w THEN 1 ELSE config[run[c]][s]
        BY <3>4, Fields DEF Statement
      <4>2. s # w => DoWith("config", s) # Head(todo[c])
        BY <3>4, Fields
      <4> QED
        BY <2>2, <3>1, <3>2, <3>4, <4>1, <4>2
    <3> QED
      BY <2>1, <3>3, <3>4
  <2>5. CASE Len(todo[c]) > 1
    BY <1>1, <1>3, <2>2, <2>3, <2>4, <2>5 DEF ConfigOf, Taken
  <2>6. CASE ~(Len(todo[c]) > 1)
    <3>1. todo'[c] = <<>> /\ state'[c] = "running"
      BY <1>0, <1>1, <1>3, <2>6, TailOfRow DEF After
    <3>2. \A s \in Subsystem : ~Left(c, s)'
      BY <3>1 DEF Left, InRow
    <3> QED
      BY <2>3, <2>4, <3>1, <3>2 DEF ConfigOf, Recorded, Taken
  <2> QED
    BY <2>5, <2>6
<1>4. CASE state[c] \in {"pausing", "resuming", "stopping", "halting"}
  <2>1. Statement(c).do \notin {"run", "config"}
    BY <1>4, Positions
  <2>2. Recorded(run[c]) /\ config' = config /\ run'[c] = run[c]
    BY <1>0, <1>1, <1>4, <2>1 DEF ConfigOf, Taken
  <2>3. state'[c] \in Taken
    BY <1>1, <1>4 DEF Taken, After
  <2> QED
    BY <2>2, <2>3 DEF ConfigOf, Recorded, Taken
<1>5. CASE state[c] \in {"finishing", "failing"}
  <2>1. state'[c] \in {"finishing", "failing", "configured"}
    BY <1>1, <1>5 DEF After
  <2> QED
    BY <2>1 DEF ConfigOf, Taken
<1> QED
  BY <1>0, <1>2, <1>3, <1>4, <1>5 DEF ClientInv, InHand, Idle, State

LEMMA CallKeepsConfig ==
  ASSUME Inv, ConfigInv, NEW c \in Client, Executes(c)
  PROVE  ConfigInv'
<1>0. number \in [Client -> Number \cup {NoNumber}]
  BY DEF Inv, TypeOK
<1>1. CASE Connect(c)
  <2>1. InCall(c) /\ Statement(c).do = "connect" /\ UNCHANGED <<runs, config, number>>
    BY <1>1 DEF Connect, tables
  <2>2. CASE Proceeds(c)
    <3>1. (\A d \in Client \ {c} : Same(d)) /\ GoesOn(c)
      BY <1>0, <2>1, <2>2, ProceedsTypes DEF Number
    <3>2. ConfigOf(c)'
      BY <2>1, <3>1, ProceedsKeepsConfig
    <3> QED
      BY <2>1, <3>1, <3>2, ConfigKept, OneConfig
  <2>3. CASE Throws(c)
    BY <2>1, <2>3, ThrowsKeepsConfig, ConfigKept, OneConfig
  <2> QED
    BY <1>1, <2>2, <2>3 DEF Connect
<1>2. CASE Succeeds(c)
  <2>1. /\ InCall(c) /\ Statement(c).do # "connect" /\ HasNumber(c) /\ Commits(c) /\ Proceeds(c)
        /\ number' = [number EXCEPT ![c] = IF Statement(c).do = "run" THEN serial + 1 ELSE @]
    BY <1>2 DEF Succeeds, IsStatement
  <2>2. TablesOK' /\ Number \subseteq Number'
    BY <2>1, CommitsKeepRows DEF KeepsOthers
  <2>3. /\ number'[c] = IF Statement(c).do = "run" THEN serial + 1 ELSE number[c]
        /\ \A d \in Client \ {c} : number'[d] = number[d]
    BY <1>0, <2>1
  <2>4. number' \in [Client -> Number' \cup {NoNumber}]
    <3>1. Statement(c).do = "run" => serial + 1 \in Number'
      BY <2>1, RunCommits
    <3> QED
      BY <1>0, <2>1, <2>2, <3>1
  <2>5. (\A d \in Client \ {c} : Same(d)) /\ GoesOn(c)
    BY <2>1, <2>2, <2>3, <2>4, ProceedsTypes
  <2>6. ConfigOf(c)'
    BY <2>1, <2>3, <2>5, CommitsKeepConfig, ProceedsKeepsConfig
  <2> QED
    BY <2>1, <2>5, <2>6, CommitsKeepConfig, OneConfig
<1>3. CASE IsRefused(c) \/ IsNotSent(c)
  <2>1. InCall(c) /\ Throws(c) /\ UNCHANGED <<runs, config>>
    BY <1>3 DEF IsRefused, IsNotSent, IsStatement, tables
  <2> QED
    BY <2>1, ThrowsKeepsConfig, ConfigKept, OneConfig
<1>4. CASE AnswerIsLost(c)
  <2>1. InCall(c) /\ Statement(c).do # "connect" /\ HasNumber(c) /\ Commits(c) /\ Throws(c)
    BY <1>4 DEF AnswerIsLost, IsStatement
  <2> QED
    BY <2>1, ThrowsKeepsConfig, CommitsKeepConfig, OneConfig
<1> QED
  BY <1>1, <1>2, <1>3, <1>4 DEF Executes

-----------------------------------------------------------------------------
(* The theorem                                                              *)

LEMMA InitConfig == Init => ConfigInv
<1> SUFFICES ASSUME Init PROVE ConfigInv
  OBVIOUS
<1>1. Number = {}
  BY DEF Init, Number
<1> QED
  BY <1>1 DEF Init, ConfigInv, RowsInv, ConfigOf, Taken

LEMMA NextConfig == Inv /\ ConfigInv /\ [Next]_vars => ConfigInv'
<1> SUFFICES ASSUME Inv, ConfigInv, [Next]_vars PROVE ConfigInv'
  OBVIOUS
<1>1. CASE DatabaseFails \/ DatabaseReturns \/ (\E c \in Client : LinkIsCut(c)) \/ UNCHANGED vars
  <2>1. UNCHANGED <<runs, config, state, run, todo, number>>
    BY <1>1 DEF DatabaseFails, DatabaseReturns, LinkIsCut, vars, tables, supervisor, call
  <2> QED
    BY <2>1 DEF ConfigInv, RowsInv, Number, ConfigOf, Unrecorded, Recorded, Left
<1> QED
  BY <1>1, SupervisorKeepsConfig, CallKeepsConfig DEF Next

\* A run that runs has one row for every subsystem and no run has two (insertRunCondition), for
\* any subsystems and clients, wherever the call breaks off.
THEOREM ConditionsAreWhole == Spec => []ConditionIsWhole
<1>1. Inv /\ ConfigInv => ConditionIsWhole
  BY DEF Inv, ConfigInv, RowsInv, ConfigOf, Recorded, Taken, ConditionIsWhole
<1> QED
  BY <1>1, Invariance, InitConfig, NextConfig, PTL DEF Spec
=============================================================================
