------------------------ MODULE BufferTestThreadProofs ------------------------
(***************************************************************************)
(* Proofs about BufferTestThread, for any set of nodes, any number of      *)
(* threads that overlap and any interleaving of the macros with them.      *)
(*                                                                         *)
(* OneThreadRuns is inductive only with what a macro may rely on between   *)
(* its check and its assignments: nobody else launches, and a thread that  *)
(* runs can only stop.  FileAccounted needs to know which places of the    *)
(* loop come after the opening of the own file, and HaltLeavesNothing who  *)
(* can still close a file that is open.                                    *)
(***************************************************************************)
EXTENDS BufferTestThread, FiniteSetTheorems, TLAPS

\* A thread that reads: it is between its launch and the clearing of running_.
Alive(f, s) == pc[f][s] \notin Gone

ThreadOK(f) ==
  /\ \A s, t \in Slot : Alive(f, s) /\ Alive(f, t) => s = t
  /\ running[f] <=> \E s \in Slot : Alive(f, s)

\* Past its opening a thread finds its own file or none, and a file has somebody who closes it.
FileOK(f) ==
  /\ \A s \in Slot : pc[f][s] \notin Gone \cup {"start", "catch"} => fp[f] \in {s, NoFile}
  /\ f \in Dtc /\ fp[f] # NoFile =>
       \E s \in Slot : pc[f][s] \notin {"none", "start", "exit", "caughtOther", "caughtReading"}

HaltOK(f) == halted[f] => ~running[f] /\ ~Borrows(f)

\* What the checks of a macro have found still holds when it assigns.
MacroOK ==
  /\ \/ macro = Idle
     \/ /\ macro.fe \in Fe
        /\ macro.name \in {"start", "halt", "haltClosing", "haltClosed", "halted", "init", "inited", "wait"}
  /\ macro.name = "start" =>
       macro.merge \in BOOLEAN /\ ~running[macro.fe] /\ (macro.merge => macro.fe = 0)
  /\ macro.name = "init" => macro.restart \in BOOLEAN /\ (~macro.restart => ~running[macro.fe])

Inv == TypeOK /\ MacroOK /\ \A f \in Fe : ThreadOK(f) /\ FileOK(f) /\ HaltOK(f)

-----------------------------------------------------------------------------
(* Steps of a thread                                                        *)

\* What a thread never touches.
Untouched == UNCHANGED <<node, exitThread, doNotResetCounters, saveBinaryData, merging, otherDTC, macro, halted>>

\* A step of the thread in slot s of f that takes it to p, and leaves the files of others.
Takes(f, s, p) ==
  /\ pc' = [pc EXCEPT ![f][s] = p]
  /\ resetStartEventTag' \in [Fe -> BOOLEAN] /\ releaseAllComplete' \in [Fe -> BOOLEAN]
  /\ fp' \in [Fe -> Slot \cup {NoFile}] /\ open' \in [Fe -> SUBSET Slot] /\ crossed' \in [Fe -> BOOLEAN]
  /\ \A g \in Fe \ {f} : fp'[g] = fp[g]

LEMMA Types ==
  ASSUME TypeOK
  PROVE  /\ running \in [Fe -> BOOLEAN] /\ exitThread \in [Fe -> BOOLEAN]
         /\ resetStartEventTag \in [Fe -> BOOLEAN] /\ releaseAllComplete \in [Fe -> BOOLEAN]
         /\ doNotResetCounters \in [Fe -> BOOLEAN] /\ saveBinaryData \in [Fe -> BOOLEAN]
         /\ merging \in [Fe -> BOOLEAN] /\ otherDTC \in [Fe -> BOOLEAN]
         /\ fp \in [Fe -> Slot \cup {NoFile}] /\ open \in [Fe -> SUBSET Slot] /\ crossed \in [Fe -> BOOLEAN]
         /\ pc \in [Fe -> [Slot -> Places]] /\ halted \in [Fe -> BOOLEAN]
BY DEF TypeOK

LEMMA TypesNext ==
  ASSUME TypeOK,
         running' \in [Fe -> BOOLEAN], resetStartEventTag' \in [Fe -> BOOLEAN],
         releaseAllComplete' \in [Fe -> BOOLEAN], pc' \in [Fe -> [Slot -> Places]],
         fp' \in [Fe -> Slot \cup {NoFile}], open' \in [Fe -> SUBSET Slot], crossed' \in [Fe -> BOOLEAN],
         Untouched
  PROVE  TypeOK'
BY DEF TypeOK, Untouched, Idle

\* Where the threads are after such a step.
LEMMA TakesPc ==
  ASSUME Inv, NEW f \in Fe, NEW s \in Slot, NEW p \in Places, Takes(f, s, p)
  PROVE  /\ pc' \in [Fe -> [Slot -> Places]]
         /\ pc'[f][s] = p
         /\ \A t \in Slot \ {s} : pc'[f][t] = pc[f][t]
         /\ \A g \in Fe \ {f}, t \in Slot : pc'[g][t] = pc[g][t]
BY Types DEF Inv, Takes

\* A thread that goes on.
LEMMA GoesOn ==
  ASSUME Inv, NEW f \in Fe, NEW s \in Slot, NEW p \in Places \ Gone, Takes(f, s, p),
         Alive(f, s), UNCHANGED running, Untouched,
         p # "catch" => fp'[f] \in {s, NoFile},
         p \in {"start", "exit"} => fp'[f] = NoFile
  PROVE  Inv'
<1>1. /\ pc' \in [Fe -> [Slot -> Places]] /\ pc'[f][s] = p
      /\ \A t \in Slot \ {s} : pc'[f][t] = pc[f][t]
      /\ \A g \in Fe \ {f}, t \in Slot : pc'[g][t] = pc[g][t]
  BY TakesPc
<1>2. TypeOK'
  BY <1>1, Types, TypesNext DEF Inv, Takes
<1>3. MacroOK'
  BY DEF Inv, MacroOK, Untouched
<1>4. ASSUME NEW g \in Fe
      PROVE  ThreadOK(g)' /\ FileOK(g)' /\ HaltOK(g)'
  <2>1. ThreadOK(g) /\ FileOK(g) /\ HaltOK(g) /\ ThreadOK(f)
    BY DEF Inv
  <2>2. ThreadOK(g)'
    BY <1>1, <2>1 DEF ThreadOK, Alive
  <2>3. HaltOK(g)'
    BY <2>1 DEF HaltOK, Untouched, Borrows
  <2>4. FileOK(g)'
    <3>1. CASE g = f
      <4>1. \A t \in Slot : pc'[f][t] \notin Gone \cup {"start", "catch"} => fp'[f] \in {t, NoFile}
        BY <1>1, <2>1 DEF ThreadOK, Alive
      <4>2. f \in Dtc /\ fp'[f] # NoFile =>
              \E t \in Slot : pc'[f][t] \notin {"none", "start", "exit", "caughtOther", "caughtReading"}
        BY <1>1 DEF Gone
      <4> QED
        BY <3>1, <4>1, <4>2 DEF FileOK
    <3>2. CASE g # f
      BY <1>1, <2>1, <3>2 DEF FileOK, Takes
    <3> QED
      BY <3>1, <3>2
  <2> QED
    BY <2>2, <2>3, <2>4
<1> QED
  BY <1>2, <1>3, <1>4 DEF Inv

\* A thread that clears running_.
LEMMA Leaves ==
  ASSUME Inv, NEW f \in Fe, NEW s \in Slot, NEW p \in {"none", "caught"}, Takes(f, s, p),
         Alive(f, s), running' = [running EXCEPT ![f] = FALSE], Untouched, fp'[f] = fp[f],
         f \in Dtc /\ p = "none" => pc[f][s] = "exit"
  PROVE  Inv'
<1>0. p \in Places /\ p \in Gone
  BY DEF Places, Gone, Handling
<1>1. /\ pc' \in [Fe -> [Slot -> Places]] /\ pc'[f][s] = p
      /\ \A t \in Slot \ {s} : pc'[f][t] = pc[f][t]
      /\ \A g \in Fe \ {f}, t \in Slot : pc'[g][t] = pc[g][t]
  BY <1>0, TakesPc
<1>5. /\ running' \in [Fe -> BOOLEAN] /\ ~running'[f]
      /\ \A g \in Fe \ {f} : running'[g] = running[g]
  BY Types DEF Inv
<1>2. TypeOK'
  BY <1>1, <1>5, TypesNext DEF Inv, Takes
<1>3. MacroOK'
  BY <1>5 DEF Inv, MacroOK, Untouched, Idle
<1>4. ASSUME NEW g \in Fe
      PROVE  ThreadOK(g)' /\ FileOK(g)' /\ HaltOK(g)'
  <2>1. ThreadOK(g) /\ FileOK(g) /\ HaltOK(g) /\ ThreadOK(f)
    BY DEF Inv
  <2>2. ThreadOK(g)'
    <3>1. CASE g = f
      <4>1. \A t \in Slot : ~Alive(f, t)'
        BY <1>0, <1>1, <2>1 DEF ThreadOK, Alive
      <4> QED
        BY <1>5, <3>1, <4>1 DEF ThreadOK
    <3>2. CASE g # f
      <4>1. running'[g] = running[g] /\ \A t \in Slot : Alive(g, t)' <=> Alive(g, t)
        BY <1>1, <1>5, <3>2 DEF Alive
      <4> QED
        BY <2>1, <4>1 DEF ThreadOK
    <3> QED
      BY <3>1, <3>2
  <2>3. HaltOK(g)'
    BY <1>5, <2>1 DEF HaltOK, Untouched, Borrows
  <2>4. FileOK(g)'
    <3>1. CASE g = f
      <4>1. \A t \in Slot : pc'[f][t] \notin Gone \cup {"start", "catch"} => fp'[f] \in {t, NoFile}
        BY <1>0, <1>1, <2>1 DEF ThreadOK, Alive
      <4>2. f \in Dtc /\ fp'[f] # NoFile =>
              \E t \in Slot : pc'[f][t] \notin {"none", "start", "exit", "caughtOther", "caughtReading"}
        BY <1>1, <2>1, <3>1 DEF FileOK
      <4> QED
        BY <3>1, <4>1, <4>2 DEF FileOK
    <3>2. CASE g # f
      BY <1>1, <2>1, <3>2 DEF FileOK, Takes
    <3> QED
      BY <3>1, <3>2
  <2> QED
    BY <2>2, <2>3, <2>4
<1> QED
  BY <1>2, <1>3, <1>4 DEF Inv

\* The handler of a thread that has cleared running_.
LEMMA Finishes ==
  ASSUME Inv, NEW f \in Fe, NEW s \in Slot, NEW p \in Gone, Takes(f, s, p),
         pc[f][s] \in Gone, UNCHANGED running, Untouched, fp'[f] \in {fp[f], NoFile},
         p \in Handling \/ pc[f][s] \in {"caughtOther", "caughtReading"} \/ fp'[f] = NoFile
  PROVE  Inv'
<1>0. p \in Places
  BY DEF Places, Gone, Handling
<1>1. /\ pc' \in [Fe -> [Slot -> Places]] /\ pc'[f][s] = p
      /\ \A t \in Slot \ {s} : pc'[f][t] = pc[f][t]
      /\ \A g \in Fe \ {f}, t \in Slot : pc'[g][t] = pc[g][t]
  BY <1>0, TakesPc
<1>2. TypeOK'
  BY <1>1, Types, TypesNext DEF Inv, Takes
<1>3. MacroOK'
  BY DEF Inv, MacroOK, Untouched
<1>4. ASSUME NEW g \in Fe
      PROVE  ThreadOK(g)' /\ FileOK(g)' /\ HaltOK(g)'
  <2>1. ThreadOK(g) /\ FileOK(g) /\ HaltOK(g)
    BY DEF Inv
  <2>2. \A t \in Slot : Alive(g, t)' <=> Alive(g, t)
    <3>1. CASE g = f
      BY <1>1, <3>1 DEF Alive
    <3>2. CASE g # f
      BY <1>1, <3>2 DEF Alive
    <3> QED
      BY <3>1, <3>2
  <2>3. ThreadOK(g)'
    BY <2>1, <2>2 DEF ThreadOK
  <2>4. HaltOK(g)'
    BY <2>1 DEF HaltOK, Untouched, Borrows
  <2>5. FileOK(g)'
    <3>1. CASE g = f
      <4>1. \A t \in Slot : pc'[f][t] \notin Gone \cup {"start", "catch"} => fp'[f] \in {t, NoFile}
        BY <1>1, <2>1, <3>1 DEF FileOK
      <4>2. f \in Dtc /\ fp'[f] # NoFile =>
              \E t \in Slot : pc'[f][t] \notin {"none", "start", "exit", "caughtOther", "caughtReading"}
        <5>1. CASE p \in Handling
          BY <1>1, <5>1 DEF Handling
        <5>2. CASE pc[f][s] \in {"caughtOther", "caughtReading"}
          BY <1>1, <2>1, <3>1, <5>2 DEF FileOK
        <5> QED
          BY <5>1, <5>2
      <4> QED
        BY <3>1, <4>1, <4>2 DEF FileOK
    <3>2. CASE g # f
      BY <1>1, <2>1, <3>2 DEF FileOK, Takes
    <3> QED
      BY <3>1, <3>2
  <2> QED
    BY <2>3, <2>4, <2>5
<1> QED
  BY <1>2, <1>3, <1>4 DEF Inv

\* What the invariant says of the thread that takes a step.
LEMMA OwnFile ==
  ASSUME Inv, NEW f \in Fe, NEW s \in Slot
  PROVE  /\ fp[f] \in Slot \cup {NoFile}
         /\ pc[f][s] \notin Gone \cup {"start", "catch"} => fp[f] \in {s, NoFile}
BY Types DEF Inv, FileOK

\* A step that leaves the file alone, that has only looked at it, or that calls fclose.
LEMMA KeepsFile ==
  ASSUME Inv, NEW f \in Fe, NEW s \in Slot, NEW p \in Places, GoTo(f, s, p),
         UNCHANGED file \/ Fclose(f) \/ (\E b \in BOOLEAN : Meets(f, b)),
         resetStartEventTag' \in [Fe -> BOOLEAN], releaseAllComplete' \in [Fe -> BOOLEAN]
  PROVE  Takes(f, s, p) /\ fp'[f] = fp[f]
<1>1. fp' = fp
  BY DEF file, Fclose, Meets
<1>2. open' \in [Fe -> SUBSET Slot] /\ crossed' \in [Fe -> BOOLEAN]
  <2>1. CASE UNCHANGED file
    BY <2>1, Types DEF Inv, file
  <2>2. CASE Fclose(f)
    BY <2>2, Types DEF Inv, Fclose
  <2>3. ASSUME NEW b \in BOOLEAN, Meets(f, b)
        PROVE  open' \in [Fe -> SUBSET Slot] /\ crossed' \in [Fe -> BOOLEAN]
    <3>1. (crossed[f] \/ (fp[f] # NoFile /\ b)) \in BOOLEAN
      OBVIOUS
    <3> QED
      BY <2>3, <3>1, Types DEF Inv, Meets
  <2> QED
    BY <2>1, <2>2, <2>3
<1> QED
  BY <1>1, <1>2, Types DEF Inv, Takes, GoTo

\* A step that clears fp_.
LEMMA ClearsOwn ==
  ASSUME Inv, NEW f \in Fe, NEW s \in Slot, NEW p \in Places, GoTo(f, s, p), Clears(f),
         resetStartEventTag' \in [Fe -> BOOLEAN], releaseAllComplete' \in [Fe -> BOOLEAN]
  PROVE  Takes(f, s, p) /\ fp'[f] = NoFile
BY Types DEF Inv, Takes, GoTo, Clears

\* A step that opens a file, which may fail.
LEMMA OpensOwn ==
  ASSUME Inv, NEW f \in Fe, NEW s \in Slot, NEW p \in Places, OpenFile(f, s, p),
         resetStartEventTag' \in [Fe -> BOOLEAN], releaseAllComplete' \in [Fe -> BOOLEAN]
  PROVE  \E q \in {p, "catch"} : Takes(f, s, q) /\ fp'[f] \in {s, NoFile}
<1>1. /\ fp' \in [Fe -> Slot \cup {NoFile}] /\ fp'[f] \in {s, NoFile}
      /\ \A g \in Fe \ {f} : fp'[g] = fp[g]
  BY Types DEF Inv, OpenFile
<1>2. open' \in [Fe -> SUBSET Slot] /\ crossed' \in [Fe -> BOOLEAN]
  BY Types DEF Inv, OpenFile
<1>3. PICK q \in {p, "catch"} : GoTo(f, s, q)
  BY DEF OpenFile
<1> QED
  BY <1>1, <1>2, <1>3 DEF Takes, GoTo

\* A step inside the loop that changes where the thread is and no field.
LEMMA Moves ==
  ASSUME Inv, NEW f \in Fe, NEW s \in Slot,
         NEW p \in Places \ (Gone \cup {"start", "exit"}), GoTo(f, s, p),
         pc[f][s] # "start" \/ p = "catch",
         Alive(f, s), pc[f][s] # "catch", UNCHANGED <<node, fields, macro, halted>>,
         UNCHANGED file \/ Fclose(f)
  PROVE  Inv'
<1>1. Takes(f, s, p) /\ fp'[f] = fp[f]
  BY KeepsFile, Types DEF Inv, fields
<1>2. Untouched /\ UNCHANGED running
  BY DEF fields, Untouched
<1>3. p # "catch" => fp'[f] \in {s, NoFile}
  BY <1>1, OwnFile DEF Alive
<1> QED
  BY <1>1, <1>2, <1>3, GoesOn

\* The start of a thread.
LEMMA OpensKeeps ==
  ASSUME Inv, NEW f \in Fe, NEW s \in Slot, FindsFile(f, s) \/ OpensFile(f, s), UNCHANGED node
  PROVE  Inv'
<1> USE DEF Places, Gone, Handling
<1>0. resetStartEventTag \in [Fe -> BOOLEAN] /\ releaseAllComplete \in [Fe -> BOOLEAN]
  BY Types DEF Inv
<1>1. CASE FindsFile(f, s)
  BY <1>1, Moves DEF FindsFile, At, Alive
<1>2. CASE OpensFile(f, s)
  <2>1. Alive(f, s) /\ Untouched /\ UNCHANGED running
    BY <1>2 DEF OpensFile, At, Alive, Untouched, fields
  <2>2. CASE OpenFile(f, s, "release")
    <3>1. PICK q \in {"release", "catch"} : Takes(f, s, q) /\ fp'[f] \in {s, NoFile}
      BY <1>0, <1>2, <2>2, OpensOwn DEF OpensFile, fields
    <3> QED
      BY <2>1, <3>1, GoesOn
  <2>3. CASE GoTo(f, s, "release") /\ UNCHANGED file
    <3>1. Takes(f, s, "release") /\ fp'[f] = NoFile
      BY <1>0, <1>2, <2>3, KeepsFile DEF OpensFile, fields
    <3> QED
      BY <2>1, <3>1, GoesOn
  <2> QED
    BY <1>2, <2>2, <2>3 DEF OpensFile
<1> QED
  BY <1>1, <1>2

\* The restart of a thread.
LEMMA RestartKeeps ==
  ASSUME Inv, NEW f \in Fe, NEW s \in Slot, Restart(f, s), UNCHANGED node
  PROVE  Inv'
<1> USE DEF Places, Gone, Handling
<1>0. resetStartEventTag \in [Fe -> BOOLEAN] /\ releaseAllComplete \in [Fe -> BOOLEAN]
  BY Types DEF Inv
<1>1. CASE RestartTests(f, s) \/ ClosesFile(f, s, "restartClosing", "restartClosed")
  <2>1. /\ Alive(f, s) /\ pc[f][s] \notin {"start", "catch"}
        /\ UNCHANGED <<node, fields, macro, halted>> /\ (UNCHANGED file \/ Fclose(f))
    BY <1>1 DEF RestartTests, ClosesFile, At, Alive
  <2>2. PICK p \in {"restartClosing", "restartClosed", "restartOpens"} : GoTo(f, s, p)
    BY <1>1 DEF RestartTests, ClosesFile
  <2> QED
    BY <2>1, <2>2, Moves
<1>2. CASE ClearsFile(f, s, "restartClosed", "restartOpens")
  <2>1. Takes(f, s, "restartOpens") /\ fp'[f] = NoFile
    BY <1>0, <1>2, ClearsOwn DEF ClearsFile, fields
  <2> QED
    BY <1>2, <2>1, GoesOn DEF ClearsFile, At, Alive, Untouched, fields
<1>3. CASE RestartOpens(f, s)
  <2>1. /\ Alive(f, s) /\ Untouched /\ UNCHANGED running /\ fp[f] \in {s, NoFile}
        /\ resetStartEventTag' \in [Fe -> BOOLEAN] /\ releaseAllComplete' \in [Fe -> BOOLEAN]
    BY <1>0, <1>3, OwnFile DEF RestartOpens, MailboxRead, At, Alive, Untouched, fields
  <2>2. CASE OpenFile(f, s, "releaseAgain")
    <3>1. PICK q \in {"releaseAgain", "catch"} : Takes(f, s, q) /\ fp'[f] \in {s, NoFile}
      BY <2>1, <2>2, OpensOwn
    <3> QED
      BY <2>1, <3>1, GoesOn
  <2>3. CASE GoTo(f, s, "releaseAgain") /\ UNCHANGED file
    <3>1. Takes(f, s, "releaseAgain") /\ fp'[f] = fp[f]
      BY <2>1, <2>3, KeepsFile
    <3> QED
      BY <2>1, <3>1, GoesOn
  <2> QED
    BY <1>3, <2>2, <2>3 DEF RestartOpens
<1> QED
  BY <1>1, <1>2, <1>3 DEF Restart

\* The end of the loop.
LEMMA EndKeeps ==
  ASSUME Inv, NEW f \in Fe, NEW s \in Slot, Closes(f, s) \/ Exits(f, s), UNCHANGED node
  PROVE  Inv'
<1> USE DEF Places, Gone, Handling
<1>0. resetStartEventTag \in [Fe -> BOOLEAN] /\ releaseAllComplete \in [Fe -> BOOLEAN]
  BY Types DEF Inv
<1>1. CASE TestsFile(f, s, "close", "closing", "exit") /\ UNCHANGED file
  <2>1. Alive(f, s) /\ pc[f][s] = "close" /\ UNCHANGED <<node, fields, macro, halted>>
    BY <1>1 DEF TestsFile, At, Alive
  <2>2. CASE fp[f] = NoFile /\ GoTo(f, s, "exit")
    <3>1. Takes(f, s, "exit") /\ fp'[f] = NoFile
      BY <1>0, <1>1, <2>1, <2>2, KeepsFile DEF fields
    <3> QED
      BY <2>1, <3>1, GoesOn DEF Untouched, fields
  <2>3. CASE GoTo(f, s, "closing")
    BY <1>1, <2>1, <2>3, Moves
  <2> QED
    BY <1>1, <2>2, <2>3 DEF TestsFile
<1>2. CASE ClosesFile(f, s, "closing", "closed")
  BY <1>2, Moves DEF ClosesFile, At, Alive
<1>3. CASE ClearsFile(f, s, "closed", "exit")
  <2>1. Takes(f, s, "exit") /\ fp'[f] = NoFile
    BY <1>0, <1>3, ClearsOwn DEF ClearsFile, fields
  <2> QED
    BY <1>3, <2>1, GoesOn DEF ClearsFile, At, Alive, Untouched, fields
<1>4. CASE Exits(f, s)
  <2>1. /\ Alive(f, s) /\ Untouched /\ running' = [running EXCEPT ![f] = FALSE] /\ pc[f][s] = "exit"
        /\ UNCHANGED <<file, resetStartEventTag, releaseAllComplete>> /\ GoTo(f, s, "none")
    BY <1>4 DEF Exits, StopsRunning, At, Alive, Untouched
  <2>2. Takes(f, s, "none") /\ fp'[f] = fp[f]
    BY <1>0, <2>1, KeepsFile
  <2> QED
    BY <2>1, <2>2, Leaves
<1> QED
  BY <1>1, <1>2, <1>3, <1>4 DEF Closes

\* Every step of the thread of a DTC.
LEMMA DtcThreadKeeps ==
  ASSUME Inv, NEW f \in Fe, NEW s \in Slot, DtcThread(f, s), f \in Dtc, UNCHANGED node
  PROVE  Inv'
<1> USE DEF Places, Gone, Handling
<1>0. resetStartEventTag \in [Fe -> BOOLEAN] /\ releaseAllComplete \in [Fe -> BOOLEAN]
  BY Types DEF Inv
<1>1. CASE FindsFile(f, s) \/ OpensFile(f, s)
  BY <1>1, OpensKeeps
<1>2. CASE Restart(f, s)
  BY <1>2, RestartKeeps
<1>3. CASE Release(f, s) \/ Released(f, s)
  <2>1. /\ Alive(f, s) /\ Untouched /\ UNCHANGED <<running, file>>
        /\ pc[f][s] \notin {"start", "catch"}
    BY <1>3 DEF Release, Released, Alive, Untouched
  <2>2. PICK p \in {"releasing", "releasingAgain", "top", "check"} : GoTo(f, s, p)
    BY <1>3 DEF Release, Released
  <2>3. resetStartEventTag' \in [Fe -> BOOLEAN] /\ releaseAllComplete' \in [Fe -> BOOLEAN]
    <3>1. (node \in Emulating) \in BOOLEAN
      OBVIOUS
    <3> QED
      BY <1>0, <1>3, <3>1 DEF Release, Released
  <2>4. Takes(f, s, p) /\ fp'[f] = fp[f]
    BY <2>1, <2>2, <2>3, KeepsFile
  <2>5. fp'[f] \in {s, NoFile}
    BY <2>1, <2>4, OwnFile DEF Alive
  <2> QED
    BY <2>1, <2>2, <2>4, <2>5, GoesOn
<1>4. CASE ReleaseOther(f, s) \/ Top(f, s) \/ NoMail(f, s) \/ Check(f, s) \/ DrainOther(f, s)
           \/ Handle(f, s) \/ Throws(f, s)
  <2>1. /\ Alive(f, s) /\ pc[f][s] \notin {"start", "catch"}
        /\ UNCHANGED <<node, fields, file, macro, halted>>
    BY <1>4 DEF ReleaseOther, Top, NoMail, Check, DrainOther, Handle, Throws, At, Alive
  <2>2. PICK p \in Places \ (Gone \cup {"start", "exit"}) : GoTo(f, s, p)
    BY <1>4 DEF ReleaseOther, Top, NoMail, Check, DrainOther, Handle, Throws
  <2> QED
    BY <2>1, <2>2, Moves
<1>5. CASE Closes(f, s) \/ Exits(f, s)
  BY <1>5, EndKeeps
<1>6. CASE Catches(f, s)
  <2>1. /\ Alive(f, s) /\ Untouched /\ running' = [running EXCEPT ![f] = FALSE]
        /\ UNCHANGED <<file, resetStartEventTag, releaseAllComplete>> /\ GoTo(f, s, "caught")
    BY <1>6 DEF Catches, StopsRunning, At, Alive, Untouched
  <2>2. Takes(f, s, "caught") /\ fp'[f] = fp[f]
    BY <1>0, <2>1, KeepsFile
  <2> QED
    BY <2>1, <2>2, Leaves
<1>7. CASE CatchCloses(f, s)
  <2>1. Untouched /\ UNCHANGED <<running, resetStartEventTag, releaseAllComplete>> /\ pc[f][s] \in Handling
    BY <1>7 DEF CatchCloses, TestsFile, ClosesFile, ClearsFile, Untouched, fields, At
  <2>2. CASE TestsFile(f, s, "caught", "caughtClosing", "caughtOther")
    <3>1. PICK p \in {"caughtClosing", "caughtOther"} : GoTo(f, s, p) /\ (p = "caughtOther" => fp[f] = NoFile)
      BY <2>2 DEF TestsFile
    <3>2. \E b \in BOOLEAN : Meets(f, b)
      <4>1. running[f] \/ (\E r \in Slot \ {s} : pc[f][r] \in Handling) \in BOOLEAN
        BY Types DEF Inv
      <4>2. Meets(f, running[f] \/ \E r \in Slot \ {s} : pc[f][r] \in Handling)
        BY <1>7, <2>2 DEF CatchCloses, TestsFile, ClosesFile, ClearsFile, At
      <4> QED
        BY <4>1, <4>2
    <3>3. Takes(f, s, p) /\ fp'[f] = fp[f]
      BY <1>0, <2>1, <3>1, <3>2, KeepsFile
    <3> QED
      BY <2>1, <3>1, <3>3, Finishes
  <2>3. CASE ClosesFile(f, s, "caughtClosing", "caughtClosed")
    <3>1. Takes(f, s, "caughtClosed") /\ fp'[f] = fp[f]
      BY <1>0, <2>1, <2>3, KeepsFile DEF ClosesFile
    <3> QED
      BY <2>1, <3>1, Finishes
  <2>4. CASE ClearsFile(f, s, "caughtClosed", "caughtOther")
    <3>1. Takes(f, s, "caughtOther") /\ fp'[f] = NoFile
      BY <1>0, <2>1, <2>4, ClearsOwn DEF ClearsFile
    <3> QED
      BY <2>1, <3>1, Finishes
  <2> QED
    BY <1>7, <2>2, <2>3, <2>4 DEF CatchCloses
<1>8. CASE CatchLooks(f, s) \/ CatchReads(f, s)
  <2>1. /\ pc[f][s] \in {"caughtOther", "caughtReading"} /\ UNCHANGED <<fields, file>> /\ Untouched
    BY <1>8 DEF CatchLooks, CatchReads, Untouched, fields, At
  <2>2. PICK p \in {"caughtReading", "none"} : GoTo(f, s, p)
    BY <1>8 DEF CatchLooks, CatchReads
  <2>3. Takes(f, s, p) /\ fp'[f] = fp[f]
    BY <1>0, <2>1, <2>2, KeepsFile DEF fields
  <2> QED
    BY <2>1, <2>2, <2>3, Finishes DEF fields
<1> QED
  BY <1>1, <1>2, <1>3, <1>4, <1>5, <1>6, <1>7, <1>8 DEF DtcThread

\* Every step of the thread of the CFO: most are those of a DTC.
LEMMA CfoThreadKeeps ==
  ASSUME Inv, NEW s \in Slot, CfoThread(s), UNCHANGED node
  PROVE  Inv'
<1> USE DEF Places, Gone, Handling
<1>0. /\ resetStartEventTag \in [Fe -> BOOLEAN] /\ releaseAllComplete \in [Fe -> BOOLEAN]
      /\ Cfo \in Fe /\ Cfo \notin Dtc
  BY Types DEF Inv, Fe, Cfo, Dtc
<1>1. CASE CfoOpens(s)
  BY <1>0, <1>1, OpensKeeps DEF CfoOpens
<1>2. CASE CfoRestarts(s)
  BY <1>0, <1>2, RestartKeeps DEF CfoRestarts
<1>3. CASE CfoReleases(s) \/ CfoLoops(s) \/ CfoReads(s) \/ CfoHandles(s)
  <2>1. /\ Alive(Cfo, s) /\ pc[Cfo][s] \notin {"start", "catch"}
        /\ UNCHANGED <<node, fields, file, macro, halted>>
    BY <1>3 DEF CfoReleases, CfoLoops, Top, NoMail, CfoReads, CfoHandles, At, Alive
  <2>2. PICK p \in Places \ (Gone \cup {"start", "exit"}) : GoTo(Cfo, s, p)
    BY <1>3 DEF CfoReleases, CfoLoops, Top, NoMail, CfoReads, CfoHandles
  <2> QED
    BY <1>0, <2>1, <2>2, Moves
<1>4. CASE CfoEnds(s)
  BY <1>0, <1>4, EndKeeps DEF CfoEnds
<1>5. CASE CfoCatches(s)
  <2>1. /\ Alive(Cfo, s) /\ Untouched /\ running' = [running EXCEPT ![Cfo] = FALSE]
        /\ UNCHANGED <<file, resetStartEventTag, releaseAllComplete>> /\ GoTo(Cfo, s, "none")
    BY <1>5 DEF CfoCatches, StopsRunning, At, Alive, Untouched
  <2>2. Takes(Cfo, s, "none") /\ fp'[Cfo] = fp[Cfo]
    BY <1>0, <2>1, KeepsFile
  <2> QED
    BY <1>0, <2>1, <2>2, Leaves
<1> QED
  BY <1>1, <1>2, <1>3, <1>4, <1>5 DEF CfoThread

-----------------------------------------------------------------------------
(* Steps of the operator                                                    *)

\* A macro that has ended relies on nothing.
LEMMA MacroEnds == ASSUME macro' = Idle PROVE MacroOK'
<1>1. Idle.name = "idle"
  BY DEF Idle
<1>2. macro'.name # "start" /\ macro'.name # "init"
  BY <1>1
<1> QED
  BY <1>2, Zenon DEF MacroOK

LEMMA FieldTypes ==
  ASSUME TypeOK, UNCHANGED node,
         running' \in [Fe -> BOOLEAN], exitThread' \in [Fe -> BOOLEAN],
         resetStartEventTag' \in [Fe -> BOOLEAN], releaseAllComplete' \in [Fe -> BOOLEAN],
         doNotResetCounters' \in [Fe -> BOOLEAN], saveBinaryData' \in [Fe -> BOOLEAN],
         merging' \in [Fe -> BOOLEAN], otherDTC' \in [Fe -> BOOLEAN],
         \A f \in Fe \ {0} : ~merging'[f],
         fp' \in [Fe -> Slot \cup {NoFile}], open' \in [Fe -> SUBSET Slot], crossed' \in [Fe -> BOOLEAN],
         pc' \in [Fe -> [Slot -> Places]], MacroOK', halted' \in [Fe -> BOOLEAN]
  PROVE  TypeOK'
BY DEF TypeOK, MacroOK, Idle

\* A step that neither launches nor stops a thread and leaves the files alone.
LEMMA OnlyAsks ==
  ASSUME Inv, MacroOK', exitThread' \in [Fe -> BOOLEAN],
         UNCHANGED <<node, running, resetStartEventTag, releaseAllComplete, doNotResetCounters,
                     saveBinaryData, merging, otherDTC, file, pc, halted>>
  PROVE  Inv'
<1>1. TypeOK'
  BY FieldTypes, Types DEF Inv, file, TypeOK
<1>2. ASSUME NEW f \in Fe
      PROVE  ThreadOK(f)' /\ FileOK(f)' /\ HaltOK(f)'
  BY DEF Inv, ThreadOK, FileOK, HaltOK, Alive, Borrows, file
<1> QED
  BY <1>1, <1>2 DEF Inv

\* The slot that is chosen is free.
LEMMA SpawnsOne ==
  ASSUME NEW f, Spawn(f)
  PROVE  \E s \in Slot : At(f, s, "none") /\ GoTo(f, s, "start")
BY DEF Spawn

\* A launch: the fields of f are set, and a thread starts in a free slot.
LEMMA Launches ==
  ASSUME Inv, NEW f \in Fe, ~running[f], MacroOK', Spawn(f), UNCHANGED <<node, file>>,
         running' = [running EXCEPT ![f] = TRUE], halted' = [halted EXCEPT ![f] = FALSE],
         exitThread' \in [Fe -> BOOLEAN], resetStartEventTag' \in [Fe -> BOOLEAN],
         releaseAllComplete' \in [Fe -> BOOLEAN], doNotResetCounters' \in [Fe -> BOOLEAN],
         saveBinaryData' \in [Fe -> BOOLEAN], merging' \in [Fe -> BOOLEAN], otherDTC' \in [Fe -> BOOLEAN],
         f # 0 => ~merging'[f],
         \A g \in Fe \ {f} : merging'[g] = merging[g] /\ otherDTC'[g] = otherDTC[g]
  PROVE  Inv'
<1>1. PICK s \in Slot : At(f, s, "none") /\ GoTo(f, s, "start")
  BY SpawnsOne
<1>2. /\ pc' \in [Fe -> [Slot -> Places]] /\ pc'[f][s] = "start" /\ pc[f][s] = "none"
      /\ \A t \in Slot \ {s} : pc'[f][t] = pc[f][t]
      /\ \A g \in Fe \ {f}, t \in Slot : pc'[g][t] = pc[g][t]
  BY <1>1, Types DEF Inv, At, GoTo, Places
<1>3. /\ running' \in [Fe -> BOOLEAN] /\ running'[f] /\ ~halted'[f]
      /\ halted' \in [Fe -> BOOLEAN]
      /\ \A g \in Fe \ {f} : running'[g] = running[g] /\ halted'[g] = halted[g]
  BY Types DEF Inv
<1>4. TypeOK'
  BY <1>2, <1>3, FieldTypes, Types DEF Inv, file, TypeOK
<1>5. ASSUME NEW g \in Fe
      PROVE  ThreadOK(g)' /\ FileOK(g)' /\ HaltOK(g)'
  <2>1. ThreadOK(g) /\ FileOK(g) /\ HaltOK(g)
    BY DEF Inv
  <2>2. ThreadOK(g)'
    <3>1. CASE g = f
      <4>1. \A t \in Slot : ~Alive(f, t)
        BY <2>1, <3>1 DEF ThreadOK
      <4>2. \A t \in Slot : Alive(f, t)' <=> t = s
        BY <1>2, <4>1 DEF Alive, Gone, Handling
      <4> QED
        BY <1>3, <3>1, <4>2 DEF ThreadOK
    <3>2. CASE g # f
      <4>1. running'[g] = running[g] /\ \A t \in Slot : Alive(g, t)' <=> Alive(g, t)
        BY <1>2, <1>3, <3>2 DEF Alive
      <4> QED
        BY <2>1, <4>1 DEF ThreadOK
    <3> QED
      BY <3>1, <3>2
  <2>3. FileOK(g)'
    <3>1. fp'[g] = fp[g]
      BY DEF file
    <3>2. \A t \in Slot : pc'[g][t] = pc[g][t] \/ (pc[g][t] = "none" /\ pc'[g][t] = "start")
      <4>1. CASE g = f
        BY <1>2, <4>1
      <4>2. CASE g # f
        BY <1>2, <4>2
      <4> QED
        BY <4>1, <4>2
    <3>3. \A t \in Slot : pc'[g][t] \notin Gone \cup {"start", "catch"} => fp'[g] \in {t, NoFile}
      BY <2>1, <3>1, <3>2 DEF FileOK
    <3>4. g \in Dtc /\ fp'[g] # NoFile =>
            \E t \in Slot : pc'[g][t] \notin {"none", "start", "exit", "caughtOther", "caughtReading"}
      BY <2>1, <3>1, <3>2 DEF FileOK
    <3> QED
      BY <2>1, <3>1, <3>3, <3>4 DEF FileOK
  <2>4. HaltOK(g)'
    BY <1>3, <2>1 DEF HaltOK, Borrows
  <2> QED
    BY <2>2, <2>3, <2>4
<1> QED
  BY <1>4, <1>5 DEF Inv

LEMMA StartKeeps ==
  ASSUME Inv, NEW f \in Fe, StartChecks(f), UNCHANGED node
  PROVE  Inv'
<1>1. PICK m \in BOOLEAN : (m => MergeAllowed(f)) /\ macro' = [name |-> "start", fe |-> f, merge |-> m]
  BY DEF StartChecks
<1>2. MacroOK'
  BY <1>1 DEF StartChecks, MacroOK, MergeAllowed, fields
<1> QED
  BY <1>2, OnlyAsks, Types DEF StartChecks, fields, Inv

LEMMA StartLaunchKeeps ==
  ASSUME Inv, NEW f \in Fe, StartLaunches(f), UNCHANGED node
  PROVE  Inv'
<1>1. /\ macro.merge \in BOOLEAN /\ ~running[f] /\ (macro.merge => f = 0)
  BY DEF StartLaunches, Inv, MacroOK
<1>2. /\ exitThread' \in [Fe -> BOOLEAN] /\ resetStartEventTag' \in [Fe -> BOOLEAN]
      /\ releaseAllComplete' \in [Fe -> BOOLEAN] /\ doNotResetCounters' \in [Fe -> BOOLEAN]
      /\ saveBinaryData' \in [Fe -> BOOLEAN] /\ merging' \in [Fe -> BOOLEAN] /\ otherDTC' \in [Fe -> BOOLEAN]
      /\ f # 0 => ~merging'[f]
      /\ \A g \in Fe \ {f} : merging'[g] = merging[g] /\ otherDTC'[g] = otherDTC[g]
  BY <1>1, Types DEF Inv, StartLaunches, Saves
<1>3. MacroOK'
  BY MacroEnds DEF StartLaunches
<1> QED
  BY <1>1, <1>2, <1>3, Launches DEF StartLaunches

LEMMA CfoLaunchKeeps ==
  ASSUME Inv, CfoStarts, UNCHANGED node
  PROVE  Inv'
<1>0. Cfo \in Fe /\ Cfo # 0
  BY DEF Fe, Cfo
<1>1. CASE StartChecks(Cfo)
  BY <1>0, <1>1, StartKeeps
<1>2. CASE ~StartChecks(Cfo)
  <2>1. macro.name = "start" /\ macro.fe = Cfo /\ ~running[Cfo]
    BY <1>2 DEF CfoStarts, Inv, MacroOK
  <2>2. /\ exitThread' \in [Fe -> BOOLEAN] /\ resetStartEventTag' \in [Fe -> BOOLEAN]
        /\ releaseAllComplete' \in [Fe -> BOOLEAN] /\ doNotResetCounters' \in [Fe -> BOOLEAN]
        /\ saveBinaryData' \in [Fe -> BOOLEAN] /\ merging' = merging /\ otherDTC' = otherDTC
    <3>1. /\ exitThread' = [exitThread EXCEPT ![Cfo] = FALSE]
          /\ resetStartEventTag' = [resetStartEventTag EXCEPT ![Cfo] = FALSE]
          /\ doNotResetCounters' = [doNotResetCounters EXCEPT ![Cfo] = FALSE]
          /\ \E b \in BOOLEAN : saveBinaryData' = [saveBinaryData EXCEPT ![Cfo] = b]
          /\ UNCHANGED <<releaseAllComplete, merging, otherDTC>>
      BY <1>2 DEF CfoStarts, Saves
    <3> QED
      BY <3>1, Types DEF Inv
  <2>3. ~merging[Cfo]
    BY <1>0 DEF Inv, TypeOK
  <2>4. MacroOK'
    BY <1>2, MacroEnds DEF CfoStarts
  <2>5. /\ Spawn(Cfo) /\ UNCHANGED file /\ running' = [running EXCEPT ![Cfo] = TRUE]
        /\ halted' = [halted EXCEPT ![Cfo] = FALSE]
    BY <1>2 DEF CfoStarts
  <2> QED
    BY <1>0, <2>1, <2>2, <2>3, <2>4, <2>5, Launches, Types DEF Inv
<1> QED
  BY <1>1, <1>2

\* The file that Halt closes is the one of a thread that goes on, or of a handler.
LEMMA HaltKeeps ==
  ASSUME Inv, NEW f \in Fe, HaltAsks(f) \/ HaltCloses(f) \/ HaltReports(f), UNCHANGED node
  PROVE  Inv'
<1>1. CASE HaltAsks(f)
  <2>1. MacroOK' /\ exitThread' \in [Fe -> BOOLEAN]
    BY <1>1, Types DEF HaltAsks, MacroOK, Inv
  <2> QED
    BY <1>1, <2>1, OnlyAsks DEF HaltAsks
<1>2. CASE HaltCloses(f)
  <2>1. /\ fp' \in [Fe -> Slot \cup {NoFile}] /\ open' \in [Fe -> SUBSET Slot] /\ crossed' \in [Fe -> BOOLEAN]
        /\ \A g \in Fe : fp'[g] \in {fp[g], NoFile}
    <3>1. CASE HaltTests(f)
      <4>1. (crossed[f] \/ (fp[f] # NoFile /\ (running[f] \/ HandlerLeft(f)))) \in BOOLEAN
        OBVIOUS
      <4> QED
        BY <3>1, <4>1, Types DEF Inv, HaltTests, Meets
    <3>2. CASE Fclose(f)
      BY <3>2, Types DEF Inv, Fclose
    <3>3. CASE Clears(f)
      BY <3>3, Types DEF Inv, Clears
    <3> QED
      BY <1>2, <3>1, <3>2, <3>3 DEF HaltCloses
  <2>3. MacroOK' /\ UNCHANGED <<fields, pc, halted>>
    BY <1>2 DEF HaltCloses, HaltTests, MacroOK
  <2>4. TypeOK'
    BY <2>1, <2>3, FieldTypes, Types DEF Inv, fields, TypeOK
  <2>5. ASSUME NEW g \in Fe
        PROVE  ThreadOK(g)' /\ FileOK(g)' /\ HaltOK(g)'
    <3>1. ThreadOK(g) /\ FileOK(g) /\ HaltOK(g)
      BY DEF Inv
    <3>2. ThreadOK(g)' /\ HaltOK(g)'
      BY <2>3, <3>1 DEF ThreadOK, HaltOK, Alive, Borrows, fields
    <3>3. FileOK(g)'
      BY <2>1, <2>3, <3>1 DEF FileOK
    <3> QED
      BY <3>2, <3>3
  <2> QED
    BY <2>3, <2>4, <2>5 DEF Inv
<1>3. CASE HaltReports(f)
  <2>1. /\ otherDTC' \in [Fe -> BOOLEAN] /\ otherDTC'[f] = (otherDTC[f] /\ (running[f] \/ ~merging[f]))
        /\ \A g \in Fe \ {f} : otherDTC'[g] = otherDTC[g]
    BY <1>3, Types DEF Inv, HaltReports
  <2>2. /\ halted' \in [Fe -> BOOLEAN] /\ halted'[f] = ~running[f]
        /\ \A g \in Fe \ {f} : halted'[g] = halted[g]
    BY <1>3, Types DEF Inv, HaltReports
  <2>3. MacroOK' /\ UNCHANGED <<running, exitThread, resetStartEventTag, releaseAllComplete, doNotResetCounters,
                                saveBinaryData, merging, file, pc>>
    BY <1>3, MacroEnds DEF HaltReports
  <2>4. TypeOK'
    BY <2>1, <2>2, <2>3, FieldTypes, Types DEF Inv, file, TypeOK
  <2>5. ASSUME NEW g \in Fe
        PROVE  ThreadOK(g)' /\ FileOK(g)' /\ HaltOK(g)'
    <3>1. ThreadOK(g) /\ FileOK(g) /\ HaltOK(g)
      BY DEF Inv
    <3>2. ThreadOK(g)' /\ FileOK(g)'
      BY <2>3, <3>1 DEF ThreadOK, FileOK, Alive, file
    <3>3. HaltOK(g)'
      BY <2>1, <2>2, <2>3, <3>1 DEF HaltOK, Borrows
    <3> QED
      BY <3>2, <3>3
  <2> QED
    BY <2>3, <2>4, <2>5 DEF Inv
<1> QED
  BY <1>1, <1>2, <1>3

LEMMA InitKeeps ==
  ASSUME Inv, NEW f \in Fe, InitChecks(f) \/ InitAssigns(f), UNCHANGED node
  PROVE  Inv'
<1>1. CASE InitChecks(f)
  <2>1. running[f] \in BOOLEAN /\ running'[f] = running[f]
    BY <1>1, Types DEF Inv, InitChecks, fields
  <2>2. MacroOK'
    BY <1>1, <2>1 DEF InitChecks, MacroOK
  <2> QED
    BY <1>1, <2>2, OnlyAsks, Types DEF InitChecks, fields, Inv
<1>2. CASE InitAssigns(f)
  <2>1. macro.restart \in BOOLEAN /\ (~macro.restart => ~running[f])
    BY <1>2 DEF InitAssigns, Inv, MacroOK
  <2>2. /\ exitThread' \in [Fe -> BOOLEAN] /\ resetStartEventTag' \in [Fe -> BOOLEAN]
        /\ releaseAllComplete' \in [Fe -> BOOLEAN] /\ doNotResetCounters' \in [Fe -> BOOLEAN]
        /\ saveBinaryData' \in [Fe -> BOOLEAN]
    BY <1>2, <2>1, Types DEF Inv, InitAssigns, Saves
  <2>3. /\ merging' \in [Fe -> BOOLEAN] /\ otherDTC' \in [Fe -> BOOLEAN] /\ ~merging'[f]
        /\ \A g \in Fe \ {f} : merging'[g] = merging[g] /\ otherDTC'[g] = otherDTC[g]
    BY <1>2, Types DEF Inv, InitAssigns
  <2>4. MacroOK'
    BY <1>2 DEF InitAssigns, MacroOK
  <2>5. UNCHANGED file /\ halted' = [halted EXCEPT ![f] = FALSE]
    BY <1>2 DEF InitAssigns
  <2>6. CASE ~macro.restart
    <3>1. running' = [running EXCEPT ![f] = TRUE] /\ Spawn(f)
      BY <1>2, <2>6 DEF InitAssigns
    <3> QED
      BY <2>1, <2>2, <2>3, <2>4, <2>5, <2>6, <3>1, Launches
  <2>7. CASE macro.restart
    <3>1. UNCHANGED <<running, pc>>
      BY <1>2, <2>7 DEF InitAssigns
    <3>2. /\ halted' \in [Fe -> BOOLEAN] /\ ~halted'[f]
          /\ \A g \in Fe \ {f} : halted'[g] = halted[g]
      BY <2>5, Types DEF Inv
    <3>3. TypeOK'
      BY <2>2, <2>3, <2>4, <2>5, <3>1, <3>2, FieldTypes, Types DEF Inv, file, TypeOK
    <3>4. ASSUME NEW g \in Fe
          PROVE  ThreadOK(g)' /\ FileOK(g)' /\ HaltOK(g)'
      BY <2>3, <2>5, <3>1, <3>2 DEF Inv, ThreadOK, FileOK, HaltOK, Alive, Borrows, file
    <3> QED
      BY <2>4, <3>3, <3>4 DEF Inv
  <2> QED
    BY <2>1, <2>6, <2>7
<1> QED
  BY <1>1, <1>2

\* The macros that go on after the start of a thread, and the halt of the state machine.
LEMMA OthersKeep ==
  ASSUME Inv, UNCHANGED node,
         \/ FsmHalt \/ CfoPlanStarts
         \/ \E f \in Fe : EmulationPrepares(f) \/ EmulationStarts(f) \/ EmulationTimesOut(f) \/ OnOffStarts(f)
  PROVE  Inv'
<1>1. CASE FsmHalt
  <2>1. MacroOK' /\ exitThread' \in [Fe -> BOOLEAN]
    BY <1>1, Types DEF FsmHalt, Inv, MacroOK
  <2> QED
    BY <1>1, <2>1, OnlyAsks DEF FsmHalt
<1>2. CASE ~FsmHalt
  <2>1. UNCHANGED <<fields, file, pc, halted>>
    BY <1>2 DEF CfoPlanStarts, EmulationPrepares, EmulationStarts, EmulationTimesOut, OnOffStarts
  <2>2. MacroOK'
    <3>1. CASE macro' = Idle
      BY <3>1, MacroEnds
    <3>2. CASE macro' # Idle
      <4>1. PICK f \in Fe : macro' = [name |-> "wait", fe |-> f]
        BY <1>2, <3>2 DEF CfoPlanStarts, EmulationPrepares, EmulationStarts, EmulationTimesOut, OnOffStarts
      <4> QED
        BY <4>1 DEF MacroOK
    <3> QED
      BY <3>1, <3>2
  <2> QED
    BY <2>1, <2>2, OnlyAsks, Types DEF fields, Inv
<1> QED
  BY <1>1, <1>2

-----------------------------------------------------------------------------
\* The invariant holds, whatever the operator and the threads do.
THEOREM Invariance == Spec => []Inv
<1>1. Init => Inv
  <2> SUFFICES ASSUME Init PROVE Inv
    OBVIOUS
  <2>1. TypeOK
    BY DEF Init, TypeOK, Places
  <2>2. MacroOK
    <3>1. Idle.name = "idle"
      BY DEF Idle
    <3>2. macro = Idle /\ macro.name # "start" /\ macro.name # "init"
      BY <3>1 DEF Init
    <3> QED
      BY <3>2, Zenon DEF MacroOK
  <2>3. ASSUME NEW f \in Fe
        PROVE  ThreadOK(f) /\ FileOK(f) /\ HaltOK(f)
    BY DEF Init, ThreadOK, FileOK, HaltOK, Alive, Gone
  <2> QED
    BY <2>1, <2>2, <2>3 DEF Inv
<1>2. Inv /\ [Next]_vars => Inv'
  <2> SUFFICES ASSUME Inv, [Next]_vars PROVE Inv'
    OBVIOUS
  <2>1. CASE UNCHANGED vars
    BY <2>1 DEF vars, fields, file, Inv, TypeOK, MacroOK, ThreadOK, FileOK, HaltOK, Alive, Borrows
  <2>2. CASE Operator /\ UNCHANGED node
    <3>1. ASSUME NEW f \in node \cap Dtc, DtcOperator(f)
          PROVE  Inv'
      <4>1. f \in Fe
        BY DEF Fe
      <4> QED
        BY <2>2, <3>1, <4>1, StartKeeps, StartLaunchKeeps, HaltKeeps, InitKeeps, OthersKeep DEF DtcOperator
    <3>2. CASE CfoStarts \/ CfoHalts \/ CfoInits \/ CfoPlanStarts
      <4>1. Cfo \in Fe
        BY DEF Fe
      <4> QED
        BY <2>2, <3>2, <4>1, CfoLaunchKeeps, HaltKeeps, InitKeeps, OthersKeep DEF CfoHalts, CfoInits
    <3> QED
      BY <2>2, <3>1, <3>2, OthersKeep DEF Operator
  <2>3. ASSUME NEW f \in node, NEW s \in Slot, Thread(f, s), UNCHANGED node
        PROVE  Inv'
    <3>1. f \in Fe
      BY NodesAssumption DEF Inv, TypeOK
    <3>2. CASE f \in Dtc
      BY <2>3, <3>1, <3>2, DtcThreadKeeps DEF Thread
    <3>3. CASE f \notin Dtc
      BY <2>3, <3>1, <3>3, CfoThreadKeeps DEF Thread
    <3> QED
      BY <3>2, <3>3
  <2> QED
    BY <2>1, <2>2, <2>3 DEF Next
<1> QED
  BY <1>1, <1>2, PTL DEF Spec

\* Every variable keeps its type.
THEOREM TypeCorrect == Spec => []TypeOK
<1>1. Inv => TypeOK
  BY DEF Inv
<1> QED
  BY <1>1, Invariance, PTL

\* At most one thread reads for a front end, and running_ tells whether one does: the checks
\* of Start and initDetachedBufferTest, made without lock_, suffice
\* (DTCFrontEndInterfaceImpl.cc:9809, 12143).
THEOREM OneThread == Spec => []OneThreadRuns
<1>1. ASSUME Inv, NEW f \in Fe
      PROVE  Cardinality(Running(f)) = IF running[f] THEN 1 ELSE 0
  <2>1. ThreadOK(f)
    BY <1>1 DEF Inv
  <2>2. CASE running[f]
    <3>1. PICK s \in Slot : Alive(f, s)
      BY <2>1, <2>2 DEF ThreadOK
    <3>2. Running(f) = {s}
      BY <2>1, <3>1 DEF ThreadOK, Running, Alive
    <3> QED
      BY <2>2, <3>2, FS_Singleton
  <2>3. CASE ~running[f]
    <3>1. Running(f) = {}
      BY <2>1, <2>3 DEF ThreadOK, Running, Alive
    <3> QED
      BY <2>3, <3>1, FS_EmptySet
  <2> QED
    BY <2>2, <2>3
<1>2. Inv => OneThreadRuns
  BY <1>1 DEF OneThreadRuns
<1> QED
  BY <1>2, Invariance, PTL

-----------------------------------------------------------------------------
(* The files.  FileAccounted needs to know that of those who close a file   *)
(* one at most is between its test of fp_ and its clearing, unless two of   *)
(* them have met; and that nothing a restart has tested changes while it    *)
(* holds lock_.                                                             *)

ThreadCloses  == {"closing", "closed", "restartClosing", "restartClosed"}
HandlerCloses == {"caughtClosing", "caughtClosed"}
Closers       == ThreadCloses \cup HandlerCloses
Idlers        == {"none", "caughtOther", "caughtReading"}
Waiting       == Idlers \cup {"start", "catch", "caught"}
HaltAt(f)     == macro.name \in {"haltClosing", "haltClosed"} /\ macro.fe = f

Account(f) ==
  /\ open[f] = IF Clearing(f) THEN {} ELSE {fp[f]} \ {NoFile}
  /\ \A s \in Slot : pc[f][s] \in Closers => fp[f] # NoFile
  /\ \A s \in Slot : pc[f][s] \in HandlerCloses => \A t \in Slot \ {s} : pc[f][t] \in Waiting
  /\ HaltAt(f) => fp[f] # NoFile /\ \A s \in Slot : pc[f][s] \in Idlers

LockOK(f) == \A s \in Slot : pc[f][s] = "restartOpens" => ~RestartCloses(f)

AccountOK(f) == (~crossed[f] => Account(f)) /\ LockOK(f)

AccountInv == \A f \in Fe : AccountOK(f)

\* Who closes a file is alone with it.
LEMMA Alone ==
  ASSUME Inv, NEW f \in Fe, NEW s \in Slot, Account(f), pc[f][s] \notin Waiting
  PROVE  ~HaltAt(f) /\ \A t \in Slot \ {s} : pc[f][t] \notin Closers
<1>1. ~HaltAt(f)
  BY DEF Account, Waiting
<1>2. ASSUME NEW t \in Slot \ {s}, pc[f][t] \in Closers
      PROVE  FALSE
  <2>1. CASE pc[f][t] \in HandlerCloses
    BY <2>1 DEF Account
  <2>2. CASE pc[f][t] \in ThreadCloses
    <3>1. Alive(f, t)
      BY <2>2 DEF ThreadCloses, Alive, Gone, Handling
    <3>2. pc[f][s] \in Gone
      BY <3>1 DEF Inv, ThreadOK, Alive
    <3>3. pc[f][s] \in HandlerCloses
      BY <3>2 DEF Gone, Handling, Waiting, Idlers, HandlerCloses
    <3>4. pc[f][t] \in Waiting
      BY <3>3 DEF Account
    <3> QED
      BY <2>2, <3>4 DEF Waiting, Idlers, ThreadCloses
  <2> QED
    BY <1>2, <2>1, <2>2 DEF Closers
<1> QED
  BY <1>1, <1>2

\* With no closer the open file is the one of fp_.
LEMMA NoneClears ==
  ASSUME NEW f, ~HaltAt(f), \A t \in Slot : pc[f][t] \notin Closers
  PROVE  ~Clearing(f)
BY DEF HaltAt, Clearing, Closers, ThreadCloses, HandlerCloses

\* A step of the thread in slot s of f.
Steps(f, s, p) ==
  /\ GoTo(f, s, p)
  /\ UNCHANGED <<macro, saveBinaryData, doNotResetCounters>>

LEMMA StepsPc ==
  ASSUME Inv, NEW f \in Fe, NEW s \in Slot, NEW p \in Places, Steps(f, s, p)
  PROVE  /\ pc'[f][s] = p
         /\ \A t \in Slot \ {s} : pc'[f][t] = pc[f][t]
         /\ \A g \in Fe \ {f}, t \in Slot : pc'[g][t] = pc[g][t]
         /\ HaltAt(f)' <=> HaltAt(f)
BY Types DEF Inv, Steps, GoTo, HaltAt

\* The other front ends have their own files.
LEMMA Elsewhere ==
  ASSUME Inv, AccountInv, NEW f \in Fe, NEW s \in Slot, NEW p \in Places, Steps(f, s, p),
         \A g \in Fe \ {f} : fp'[g] = fp[g] /\ open'[g] = open[g] /\ crossed'[g] = crossed[g],
         AccountOK(f)'
  PROVE  AccountInv'
<1>1. ASSUME NEW g \in Fe \ {f}
      PROVE  AccountOK(g)'
  <2>1. \A t \in Slot : pc'[g][t] = pc[g][t]
    BY StepsPc
  <2>2. (HaltAt(g)' <=> HaltAt(g)) /\ (Clearing(g)' <=> Clearing(g)) /\ (RestartCloses(g)' <=> RestartCloses(g))
    BY <2>1 DEF HaltAt, Clearing, RestartCloses, Steps
  <2>3. AccountOK(g)
    BY DEF AccountInv
  <2>4. ~crossed[g] => Account(g)'
    BY <2>1, <2>2, <2>3 DEF AccountOK, Account
  <2>5. LockOK(g)'
    BY <2>1, <2>2, <2>3 DEF AccountOK, LockOK
  <2> QED
    BY <2>4, <2>5 DEF AccountOK
<1> QED
  BY <1>1 DEF AccountInv

\* A step that has to do with no file, or that has found none.
LEMMA QuietStep ==
  ASSUME Inv, AccountInv, NEW f \in Fe, NEW s \in Slot, NEW p \in Places \ Closers, Steps(f, s, p),
         UNCHANGED <<fp, open>>, \A g \in Fe : crossed'[g] = crossed[g],
         pc[f][s] \notin Closers,
         pc[f][s] \in Idlers => p \in Idlers,
         pc[f][s] \in Waiting => p \in Waiting \/ fp[f] = NoFile,
         p = "restartOpens" => ~RestartCloses(f)
  PROVE  AccountInv'
<1>1. /\ pc'[f][s] = p /\ (HaltAt(f)' <=> HaltAt(f))
      /\ \A t \in Slot \ {s} : pc'[f][t] = pc[f][t]
  BY StepsPc
<1>2. AccountOK(f)
  BY DEF AccountInv
<1>3. LockOK(f)'
  BY <1>1, <1>2 DEF AccountOK, LockOK, RestartCloses, Steps
<1>4. ASSUME ~crossed[f]
      PROVE  Account(f)'
  <2>1. Account(f)
    BY <1>2, <1>4 DEF AccountOK
  <2>2. Clearing(f)' <=> Clearing(f)
    BY <1>1 DEF Clearing, Closers, ThreadCloses, HandlerCloses, Steps
  <2>3. \A t \in Slot : pc'[f][t] \in Closers => pc[f][t] \in Closers /\ t # s
    BY <1>1
  <2>4. \A t \in Slot : pc'[f][t] \in Closers => fp'[f] # NoFile
    BY <2>1, <2>3 DEF Account
  <2>5. ASSUME NEW t \in Slot, pc'[f][t] \in HandlerCloses, NEW r \in Slot \ {t}
        PROVE  pc'[f][r] \in Waiting
    <3>1. t # s /\ pc[f][t] \in HandlerCloses /\ fp[f] # NoFile
      BY <1>1, <2>1, <2>5 DEF Account, Closers
    <3>2. pc[f][r] \in Waiting
      BY <2>1, <3>1 DEF Account
    <3> QED
      BY <1>1, <3>1, <3>2
  <2>6. HaltAt(f)' => fp'[f] # NoFile /\ \A t \in Slot : pc'[f][t] \in Idlers
    BY <1>1, <2>1 DEF Account
  <2> QED
    BY <2>1, <2>2, <2>4, <2>5, <2>6 DEF Account
<1> QED
  BY <1>3, <1>4, Elsewhere DEF AccountOK

\* The thread or its handler has found a file and is about to close it.
LEMMA TestStep ==
  ASSUME Inv, AccountInv, NEW f \in Fe, NEW s \in Slot,
         NEW p \in {"closing", "restartClosing", "caughtClosing"}, Steps(f, s, p),
         UNCHANGED <<fp, open>>, \A g \in Fe \ {f} : crossed'[g] = crossed[g],
         pc[f][s] \notin Closers, fp[f] # NoFile,
         \/ p # "caughtClosing" /\ crossed'[f] = crossed[f] /\ pc[f][s] \notin Waiting
         \/ /\ p = "caughtClosing" /\ pc[f][s] = "caught"
            /\ ~crossed'[f] => ~crossed[f] /\ ~running[f] /\ \A t \in Slot \ {s} : pc[f][t] \notin Handling
  PROVE  AccountInv'
<1>0. p \in Places
  BY DEF Places
<1>1. /\ pc'[f][s] = p /\ (HaltAt(f)' <=> HaltAt(f))
      /\ \A t \in Slot \ {s} : pc'[f][t] = pc[f][t]
  BY <1>0, StepsPc
<1>2. AccountOK(f)
  BY DEF AccountInv
<1>3. LockOK(f)'
  BY <1>1, <1>2 DEF AccountOK, LockOK, RestartCloses, Steps
<1>4. ASSUME ~crossed'[f]
      PROVE  Account(f)'
  <2>1. Account(f)
    BY <1>2, <1>4 DEF AccountOK
  <2>2. ~HaltAt(f) /\ \A t \in Slot \ {s} : pc[f][t] \notin Closers
    <3>1. CASE p # "caughtClosing"
      BY <2>1, <3>1, Alone
    <3>2. CASE p = "caughtClosing"
      <4>1. \A t \in Slot \ {s} : pc[f][t] \in Idlers
        BY <1>4, <3>2 DEF Inv, ThreadOK, Alive, Gone, Idlers
      <4>2. ~HaltAt(f)
        BY <2>1, <3>2 DEF Account, Idlers
      <4> QED
        BY <4>1, <4>2 DEF Idlers, Closers, ThreadCloses, HandlerCloses
    <3> QED
      BY <3>1, <3>2
  <2>3. ~Clearing(f) /\ ~Clearing(f)'
    <3>1. ~Clearing(f)
      BY <2>2, NoneClears
    <3> QED
      BY <1>1, <3>1 DEF Clearing, Steps
  <2>4. \A t \in Slot : pc'[f][t] \in HandlerCloses => \A r \in Slot \ {t} : pc'[f][r] \in Waiting
    <3>1. CASE p # "caughtClosing"
      BY <1>1, <2>2, <3>1 DEF Closers, HandlerCloses
    <3>2. CASE p = "caughtClosing"
      <4>1. \A t \in Slot \ {s} : pc[f][t] \in Idlers
        BY <1>4, <3>2 DEF Inv, ThreadOK, Alive, Gone, Idlers
      <4> QED
        BY <1>1, <4>1 DEF Idlers, Waiting, HandlerCloses
    <3> QED
      BY <3>1, <3>2
  <2> QED
    BY <1>1, <2>1, <2>2, <2>3, <2>4 DEF Account
<1> QED
  BY <1>0, <1>3, <1>4, Elsewhere DEF AccountOK

\* fclose.
LEMMA FcloseStep ==
  ASSUME Inv, AccountInv, NEW f \in Fe, NEW s \in Slot, NEW p \in {"closed", "restartClosed", "caughtClosed"},
         Steps(f, s, p), Fclose(f),
         pc[f][s] \in Closers, p = "caughtClosed" <=> pc[f][s] \in HandlerCloses
  PROVE  AccountInv'
<1>0. p \in Places /\ p \in Closers
  BY DEF Places, Closers, ThreadCloses, HandlerCloses
<1>1. /\ pc'[f][s] = p /\ (HaltAt(f)' <=> HaltAt(f))
      /\ \A t \in Slot \ {s} : pc'[f][t] = pc[f][t]
  BY <1>0, StepsPc
<1>2. AccountOK(f)
  BY DEF AccountInv
<1>3. /\ open'[f] = open[f] \ {fp[f]} /\ UNCHANGED <<fp, crossed>>
      /\ \A g \in Fe \ {f} : open'[g] = open[g]
  BY Types DEF Inv, Fclose
<1>4. LockOK(f)'
  BY <1>1, <1>2, <1>3 DEF AccountOK, LockOK, RestartCloses, Steps
<1>5. ASSUME ~crossed[f]
      PROVE  Account(f)'
  <2>1. Account(f) /\ pc[f][s] \notin Waiting
    BY <1>2, <1>5 DEF AccountOK, Closers, ThreadCloses, HandlerCloses, Waiting, Idlers
  <2>2. ~HaltAt(f) /\ \A t \in Slot \ {s} : pc[f][t] \notin Closers
    BY <2>1, Alone
  <2>3. open'[f] = {} /\ Clearing(f)'
    BY <1>1, <1>3, <2>1 DEF Account, Clearing
  <2>4. \A t \in Slot : pc'[f][t] \in HandlerCloses => \A r \in Slot \ {t} : pc'[f][r] \in Waiting
    BY <1>1, <2>1, <2>2 DEF Account, Closers, HandlerCloses
  <2>5. \A t \in Slot : pc'[f][t] \in Closers => fp'[f] # NoFile
    BY <1>3, <2>1 DEF Account
  <2> QED
    BY <1>1, <2>2, <2>3, <2>4, <2>5 DEF Account
<1> QED
  BY <1>0, <1>3, <1>4, <1>5, Elsewhere DEF AccountOK

\* fp_ = nullptr.
LEMMA ClearStep ==
  ASSUME Inv, AccountInv, NEW f \in Fe, NEW s \in Slot, NEW p \in {"exit", "restartOpens", "caughtOther"},
         Steps(f, s, p), Clears(f), pc[f][s] \in {"closed", "restartClosed", "caughtClosed"}
  PROVE  AccountInv'
<1>0. p \in Places /\ p \notin Closers
  BY DEF Places, Closers, ThreadCloses, HandlerCloses
<1>1. /\ pc'[f][s] = p /\ (HaltAt(f)' <=> HaltAt(f))
      /\ \A t \in Slot \ {s} : pc'[f][t] = pc[f][t]
  BY <1>0, StepsPc
<1>2. AccountOK(f)
  BY DEF AccountInv
<1>3. /\ fp'[f] = NoFile /\ UNCHANGED <<open, crossed>>
      /\ \A g \in Fe \ {f} : fp'[g] = fp[g]
  BY Types DEF Inv, Clears
<1>4. LockOK(f)'
  BY <1>3 DEF LockOK, RestartCloses
<1>5. ASSUME ~crossed[f]
      PROVE  Account(f)'
  <2>1. Account(f) /\ pc[f][s] \notin Waiting /\ Clearing(f)
    BY <1>2, <1>5 DEF AccountOK, Waiting, Idlers, Clearing
  <2>2. ~HaltAt(f) /\ \A t \in Slot \ {s} : pc[f][t] \notin Closers
    BY <2>1, Alone
  <2>3. ~HaltAt(f)' /\ \A t \in Slot : pc'[f][t] \notin Closers
    BY <1>0, <1>1, <2>2
  <2>4. ~Clearing(f)'
    BY <2>3 DEF HaltAt, Clearing, Closers, ThreadCloses, HandlerCloses
  <2> QED
    BY <1>3, <2>1, <2>3, <2>4 DEF Account, Closers
<1> QED
  BY <1>0, <1>3, <1>4, <1>5, Elsewhere DEF AccountOK

\* fopen, at the start of a thread or in its restart.
LEMMA OpenStep ==
  ASSUME Inv, AccountInv, NEW f \in Fe, NEW s \in Slot, NEW q \in {"release", "releaseAgain"},
         OpenFile(f, s, q), UNCHANGED <<macro, saveBinaryData, doNotResetCounters>>,
         fp[f] = NoFile, pc[f][s] \in {"start", "restartOpens"}
  PROVE  AccountInv'
<1>1. PICK p \in {q, "catch"} : GoTo(f, s, p)
  BY DEF OpenFile
<1>2. p \in Places /\ Steps(f, s, p) /\ p \notin Closers /\ p # "restartOpens"
  BY <1>1 DEF Places, Steps, Closers, ThreadCloses, HandlerCloses
<1>3. /\ pc'[f][s] = p /\ (HaltAt(f)' <=> HaltAt(f))
      /\ \A t \in Slot \ {s} : pc'[f][t] = pc[f][t]
  BY <1>2, StepsPc
<1>4. /\ UNCHANGED crossed
      /\ \/ open'[f] = open[f] \cup {s} /\ fp'[f] = s
         \/ open'[f] = open[f] /\ fp'[f] = NoFile
      /\ \A g \in Fe \ {f} : fp'[g] = fp[g] /\ open'[g] = open[g]
  BY Types DEF Inv, OpenFile
<1>5. AccountOK(f)
  BY DEF AccountInv
<1>6. LockOK(f)'
  <2>1. Alive(f, s)
    BY DEF Alive, Gone, Handling
  <2>2. \A t \in Slot \ {s} : pc[f][t] # "restartOpens"
    BY <2>1 DEF Inv, ThreadOK, Alive, Gone, Handling
  <2> QED
    BY <1>2, <1>3, <2>2 DEF LockOK
<1>7. ASSUME ~crossed[f]
      PROVE  Account(f)'
  <2>1. Account(f)
    BY <1>5, <1>7 DEF AccountOK
  <2>2. ~HaltAt(f) /\ \A t \in Slot : pc[f][t] \notin Closers
    BY <2>1 DEF Account
  <2>3. ~HaltAt(f)' /\ \A t \in Slot : pc'[f][t] \notin Closers
    BY <1>2, <1>3, <2>2
  <2>4. ~Clearing(f) /\ ~Clearing(f)'
    BY <2>2, <2>3 DEF HaltAt, Clearing, Closers, ThreadCloses, HandlerCloses
  <2>5. open[f] = {}
    BY <2>1, <2>4 DEF Account
  <2>6. open'[f] = {fp'[f]} \ {NoFile}
    BY <1>4, <2>5, SlotAssumption
  <2> QED
    BY <2>3, <2>4, <2>6 DEF Account, Closers
<1> QED
  BY <1>2, <1>4, <1>6, <1>7, Elsewhere DEF AccountOK

\* Every step of a thread.
LEMMA ThreadAccounts ==
  ASSUME Inv, AccountInv, NEW f \in Fe, NEW s \in Slot, Thread(f, s)
  PROVE  AccountInv'
<1> USE DEF Places, Closers, ThreadCloses, HandlerCloses, Idlers, Waiting
<1>0. pc[f][s] \in Places /\ LockOK(f)
  BY Types DEF Inv, AccountInv, AccountOK
<1>1. CASE FindsFile(f, s) \/ OpensFile(f, s)
  <2>1. /\ pc[f][s] = "start" /\ UNCHANGED <<macro, saveBinaryData, doNotResetCounters>>
    BY <1>1 DEF FindsFile, OpensFile, At, fields
  <2>2. CASE FindsFile(f, s)
    BY <2>1, <2>2, QuietStep DEF FindsFile, Steps, file
  <2>3. CASE fp[f] = NoFile /\ OpenFile(f, s, "release")
    BY <2>1, <2>3, OpenStep
  <2>4. CASE fp[f] = NoFile /\ GoTo(f, s, "release") /\ UNCHANGED file
    BY <2>1, <2>4, QuietStep DEF Steps, file
  <2> QED
    BY <1>1, <2>2, <2>3, <2>4 DEF OpensFile
<1>2. CASE Restart(f, s)
  <2>1. UNCHANGED <<macro, saveBinaryData, doNotResetCounters>>
    BY <1>2 DEF Restart, RestartTests, ClosesFile, ClearsFile, RestartOpens, MailboxRead, fields
  <2>2. CASE RestartTests(f, s)
    <3>1. pc[f][s] = "mailbox" /\ UNCHANGED file
      BY <2>2 DEF RestartTests, At
    <3>2. CASE RestartCloses(f)
      <4>1. Steps(f, s, "restartClosing") /\ fp[f] # NoFile
        BY <2>1, <2>2, <3>2 DEF RestartTests, Steps, RestartCloses
      <4> QED
        BY <3>1, <4>1, TestStep DEF file
    <3>3. CASE ~RestartCloses(f)
      <4>1. Steps(f, s, "restartOpens")
        BY <2>1, <2>2, <3>3 DEF RestartTests, Steps
      <4> QED
        BY <3>1, <3>3, <4>1, QuietStep DEF file
    <3> QED
      BY <3>2, <3>3
  <2>3. CASE ClosesFile(f, s, "restartClosing", "restartClosed")
    BY <2>1, <2>3, FcloseStep DEF ClosesFile, At, Steps
  <2>4. CASE ClearsFile(f, s, "restartClosed", "restartOpens")
    BY <2>1, <2>4, ClearStep DEF ClearsFile, At, Steps
  <2>5. CASE RestartOpens(f, s)
    <3>1. pc[f][s] = "restartOpens"
      BY <2>5 DEF RestartOpens, At
    <3>2. CASE saveBinaryData[f] /\ ~doNotResetCounters[f]
      <4>1. fp[f] = NoFile
        BY <1>0, <3>1, <3>2 DEF LockOK, RestartCloses
      <4>2. OpenFile(f, s, "releaseAgain")
        BY <2>5, <3>2 DEF RestartOpens
      <4> QED
        BY <2>1, <3>1, <4>1, <4>2, OpenStep
    <3>3. CASE ~(saveBinaryData[f] /\ ~doNotResetCounters[f])
      <4>1. Steps(f, s, "releaseAgain") /\ UNCHANGED file
        BY <2>1, <2>5, <3>3 DEF RestartOpens, Steps
      <4> QED
        BY <3>1, <4>1, QuietStep DEF file
    <3> QED
      BY <3>2, <3>3
  <2> QED
    BY <1>2, <2>2, <2>3, <2>4, <2>5 DEF Restart
<1>3. CASE Closes(f, s)
  <2>1. UNCHANGED <<macro, saveBinaryData, doNotResetCounters>>
    BY <1>3 DEF Closes, TestsFile, ClosesFile, ClearsFile, fields
  <2>2. CASE TestsFile(f, s, "close", "closing", "exit") /\ UNCHANGED file
    <3>1. pc[f][s] = "close"
      BY <2>2 DEF TestsFile, At
    <3>2. CASE fp[f] = NoFile
      <4>1. Steps(f, s, "exit")
        BY <2>1, <2>2, <3>2 DEF TestsFile, Steps
      <4> QED
        BY <2>2, <3>1, <4>1, QuietStep DEF file
    <3>3. CASE fp[f] # NoFile
      <4>1. Steps(f, s, "closing")
        BY <2>1, <2>2, <3>3 DEF TestsFile, Steps
      <4> QED
        BY <2>2, <3>1, <3>3, <4>1, TestStep DEF file
    <3> QED
      BY <3>2, <3>3
  <2>3. CASE ClosesFile(f, s, "closing", "closed")
    BY <2>1, <2>3, FcloseStep DEF ClosesFile, At, Steps
  <2>4. CASE ClearsFile(f, s, "closed", "exit")
    BY <2>1, <2>4, ClearStep DEF ClearsFile, At, Steps
  <2> QED
    BY <1>3, <2>2, <2>3, <2>4 DEF Closes
<1>4. CASE CatchCloses(f, s)
  <2>1. UNCHANGED <<macro, saveBinaryData, doNotResetCounters>>
    BY <1>4 DEF CatchCloses, TestsFile, ClosesFile, ClearsFile, fields
  <2>2. CASE /\ TestsFile(f, s, "caught", "caughtClosing", "caughtOther")
             /\ Meets(f, running[f] \/ \E r \in Slot \ {s} : pc[f][r] \in Handling)
    <3>1. pc[f][s] = "caught"
      BY <2>2 DEF TestsFile, At
    <3>2. /\ UNCHANGED <<fp, open>> /\ \A g \in Fe \ {f} : crossed'[g] = crossed[g]
          /\ crossed'[f] = (crossed[f] \/ (fp[f] # NoFile /\ (running[f] \/ \E r \in Slot \ {s} : pc[f][r] \in Handling)))
      BY <2>2, Types DEF Inv, Meets
    <3>3. CASE fp[f] = NoFile
      <4>1. Steps(f, s, "caughtOther") /\ crossed'[f] = crossed[f]
        BY <2>1, <2>2, <3>2, <3>3, Types DEF TestsFile, Steps, Inv
      <4> QED
        BY <3>1, <3>2, <3>3, <4>1, QuietStep
    <3>4. CASE fp[f] # NoFile
      <4>1. Steps(f, s, "caughtClosing")
        BY <2>1, <2>2, <3>4 DEF TestsFile, Steps
      <4>2. ~crossed'[f] => ~crossed[f] /\ ~running[f] /\ \A t \in Slot \ {s} : pc[f][t] \notin Handling
        BY <3>2, <3>4
      <4> QED
        BY <3>1, <3>2, <3>4, <4>1, <4>2, TestStep
    <3> QED
      BY <3>3, <3>4
  <2>3. CASE ClosesFile(f, s, "caughtClosing", "caughtClosed")
    BY <2>1, <2>3, FcloseStep DEF ClosesFile, At, Steps
  <2>4. CASE ClearsFile(f, s, "caughtClosed", "caughtOther")
    BY <2>1, <2>4, ClearStep DEF ClearsFile, At, Steps
  <2> QED
    BY <1>4, <2>2, <2>3, <2>4 DEF CatchCloses
<1>5. CASE CatchLooks(f, s) \/ CatchReads(f, s)
  <2>1. /\ pc[f][s] \in {"caughtOther", "caughtReading"}
        /\ UNCHANGED <<file, macro, saveBinaryData, doNotResetCounters>>
    BY <1>5 DEF CatchLooks, CatchReads, fields, At
  <2>2. PICK p \in {"caughtReading", "none"} : GoTo(f, s, p)
    BY <1>5 DEF CatchLooks, CatchReads
  <2> QED
    BY <2>1, <2>2, QuietStep DEF Steps, file
<1>6. CASE Catches(f, s) \/ (f = Cfo /\ CfoCatches(s))
  <2>1. /\ pc[f][s] = "catch"
        /\ UNCHANGED <<file, macro, saveBinaryData, doNotResetCounters>>
    BY <1>6 DEF Catches, CfoCatches, StopsRunning, At
  <2>2. PICK p \in {"caught", "none"} : GoTo(f, s, p)
    BY <1>6 DEF Catches, CfoCatches
  <2> QED
    BY <2>1, <2>2, QuietStep DEF Steps, file
<1>7. CASE \/ Release(f, s) \/ ReleaseOther(f, s) \/ Released(f, s) \/ Top(f, s) \/ NoMail(f, s)
           \/ Check(f, s) \/ DrainOther(f, s) \/ Handle(f, s) \/ Throws(f, s) \/ Exits(f, s)
           \/ (f = Cfo /\ (CfoReleases(s) \/ CfoReads(s) \/ CfoHandles(s)))
  <2>1. /\ pc[f][s] \notin Closers \cup Waiting
        /\ UNCHANGED <<file, macro, saveBinaryData, doNotResetCounters>>
    BY <1>7 DEF Release, ReleaseOther, Released, Top, NoMail, Check, DrainOther, Handle, Throws, Exits,
                CfoReleases, CfoReads, CfoHandles, StopsRunning, fields, At
  <2>2. PICK p \in Places \ (Closers \cup {"restartOpens"}) : GoTo(f, s, p)
    BY <1>7 DEF Release, ReleaseOther, Released, Top, NoMail, Check, DrainOther, Handle, Throws, Exits,
                CfoReleases, CfoReads, CfoHandles
  <2> QED
    BY <2>1, <2>2, QuietStep DEF Steps, file
<1>8. f \notin Dtc => f = Cfo
  BY DEF Fe
<1> QED
  BY <1>1, <1>2, <1>3, <1>4, <1>5, <1>6, <1>7, <1>8
  DEF Thread, DtcThread, CfoThread, CfoOpens, CfoLoops, CfoRestarts, CfoEnds

\* A macro that has to do with no file: while it assigns nobody holds lock_.
LEMMA AsksAccounts ==
  ASSUME Inv, AccountInv, UNCHANGED file,
         \/ UNCHANGED macro
         \/ {macro.name, macro'.name} \cap {"haltClosing", "haltClosed"} = {},
         \A f \in Fe :
           /\ \/ \A s \in Slot : pc'[f][s] = pc[f][s]
              \/ \E s \in Slot : /\ pc[f][s] = "none" /\ pc'[f][s] = "start" /\ ~HaltAt(f)
                                 /\ \A t \in Slot \ {s} : pc'[f][t] = pc[f][t]
           /\ \/ ~Locked(f)
              \/ saveBinaryData'[f] = saveBinaryData[f] /\ doNotResetCounters'[f] = doNotResetCounters[f]
  PROVE  AccountInv'
<1>1. ASSUME NEW f \in Fe
      PROVE  AccountOK(f)'
  <2>1. AccountOK(f) /\ fp'[f] = fp[f] /\ open'[f] = open[f] /\ crossed'[f] = crossed[f]
    BY DEF AccountInv, file
  <2>2. /\ HaltAt(f)' <=> HaltAt(f)
        /\ (macro'.name = "haltClosed" /\ macro'.fe = f) <=> (macro.name = "haltClosed" /\ macro.fe = f)
    BY DEF HaltAt
  <2>3. \A t \in Slot : \/ pc'[f][t] = pc[f][t]
                        \/ pc[f][t] = "none" /\ pc'[f][t] = "start" /\ ~HaltAt(f)
    OBVIOUS
  <2>4. LockOK(f)'
    <3>1. CASE ~Locked(f)
      BY <2>3, <3>1 DEF Locked, LockOK
    <3>2. CASE saveBinaryData'[f] = saveBinaryData[f] /\ doNotResetCounters'[f] = doNotResetCounters[f]
      BY <2>1, <2>3, <3>2 DEF AccountOK, LockOK, RestartCloses
    <3> QED
      BY <3>1, <3>2
  <2>5. ASSUME Account(f)
        PROVE  Account(f)'
    <3>1. Clearing(f)' <=> Clearing(f)
      BY <2>2, <2>3 DEF Clearing
    <3>2. \A t \in Slot : /\ pc'[f][t] \in Closers <=> pc[f][t] \in Closers
                          /\ pc'[f][t] \in HandlerCloses <=> pc[f][t] \in HandlerCloses
                          /\ pc[f][t] \in Waiting => pc'[f][t] \in Waiting
                          /\ HaltAt(f) => pc'[f][t] = pc[f][t]
      BY <2>3 DEF Closers, ThreadCloses, HandlerCloses, Waiting, Idlers
    <3> QED
      BY <2>1, <2>2, <2>5, <3>1, <3>2 DEF Account
  <2> QED
    BY <2>1, <2>4, <2>5 DEF AccountOK
<1> QED
  BY <1>1 DEF AccountInv

\* Halt closes the file of nobody, or has met somebody.
LEMMA HaltAccounts ==
  ASSUME Inv, AccountInv, NEW f \in Fe, HaltCloses(f)
  PROVE  AccountInv'
<1>1. UNCHANGED <<fields, pc, halted>> /\ macro'.fe = f /\ macro.fe = f
  BY DEF HaltCloses, HaltTests
<1>2. /\ macro.name \in {"halt", "haltClosing", "haltClosed"}
      /\ macro'.name \in {"haltClosing", "haltClosed", "halted"}
  BY DEF HaltCloses, HaltTests
<1>3. ASSUME NEW g \in Fe
      PROVE  LockOK(g)'
  <2>1. fp'[g] \in {fp[g], NoFile}
    BY Types DEF Inv, HaltCloses, HaltTests, Meets, Fclose, Clears
  <2> QED
    BY <1>1, <2>1 DEF LockOK, RestartCloses, AccountInv, AccountOK, fields
<1>4. ASSUME NEW g \in Fe \ {f}, ~crossed'[g]
      PROVE  Account(g)'
  <2>1. fp'[g] = fp[g] /\ open'[g] = open[g] /\ crossed'[g] = crossed[g]
    BY Types DEF Inv, HaltCloses, HaltTests, Meets, Fclose, Clears
  <2>2. ~HaltAt(g) /\ ~HaltAt(g)' /\ (Clearing(g)' <=> Clearing(g))
    BY <1>1 DEF HaltAt, Clearing
  <2>3. Account(g)
    BY <1>4, <2>1 DEF AccountInv, AccountOK
  <2> QED
    BY <1>1, <2>1, <2>2, <2>3 DEF Account
<1>5. ASSUME ~crossed'[f]
      PROVE  Account(f)'
  <2>1. CASE HaltTests(f)
    <3>1. /\ UNCHANGED <<fp, open>>
          /\ crossed'[f] = (crossed[f] \/ (fp[f] # NoFile /\ (running[f] \/ HandlerLeft(f))))
          /\ macro.name = "halt" /\ macro'.name = IF fp[f] = NoFile THEN "halted" ELSE "haltClosing"
      BY <2>1, Types DEF Inv, HaltTests, Meets
    <3>2. Account(f) /\ ~HaltAt(f) /\ (Clearing(f)' <=> Clearing(f))
      BY <1>1, <1>5, <3>1 DEF AccountInv, AccountOK, HaltAt, Clearing
    <3>3. CASE fp[f] = NoFile
      BY <1>1, <3>1, <3>2, <3>3 DEF Account, HaltAt
    <3>4. CASE fp[f] # NoFile
      <4>1. ~running[f] /\ ~HandlerLeft(f)
        BY <1>5, <3>1, <3>4
      <4>2. \A s \in Slot : pc[f][s] \in Idlers
        BY <4>1 DEF Inv, ThreadOK, Alive, HandlerLeft, Gone, Idlers
      <4> QED
        BY <1>1, <3>1, <3>2, <3>4, <4>2 DEF Account
    <3> QED
      BY <3>3, <3>4
  <2>2. CASE macro.name = "haltClosing" /\ Fclose(f) /\ macro'.name = "haltClosed"
    <3>1. open'[f] = open[f] \ {fp[f]} /\ UNCHANGED <<fp, crossed>>
      BY <2>2, Types DEF Inv, Fclose
    <3>2. Account(f) /\ HaltAt(f) /\ Clearing(f)'
      BY <1>1, <1>5, <2>2, <3>1 DEF AccountInv, AccountOK, HaltAt, Clearing
    <3>3. open'[f] = {}
      BY <3>1, <3>2 DEF Account
    <3> QED
      BY <1>1, <3>1, <3>2, <3>3 DEF Account
  <2>3. CASE macro.name = "haltClosed" /\ Clears(f) /\ macro'.name = "halted"
    <3>1. fp'[f] = NoFile /\ UNCHANGED <<open, crossed>>
      BY <2>3, Types DEF Inv, Clears
    <3>2. Account(f) /\ HaltAt(f) /\ Clearing(f) /\ ~HaltAt(f)'
      BY <1>1, <1>5, <2>3, <3>1 DEF AccountInv, AccountOK, HaltAt, Clearing
    <3>3. \A s \in Slot : pc[f][s] \in Idlers
      BY <3>2 DEF Account
    <3>4. \A s \in Slot : pc'[f][s] \notin Closers
      BY <1>1, <3>3 DEF Idlers, Closers, ThreadCloses, HandlerCloses
    <3>5. ~Clearing(f)'
      BY <2>3, <3>4 DEF Clearing, Closers, ThreadCloses, HandlerCloses
    <3> QED
      BY <3>1, <3>2, <3>4, <3>5 DEF Account, Closers
  <2> QED
    BY <2>1, <2>2, <2>3 DEF HaltCloses
<1> QED
  BY <1>3, <1>4, <1>5 DEF AccountInv, AccountOK

\* A launch in a free slot.
LEMMA LaunchAccounts ==
  ASSUME Inv, AccountInv, NEW f \in Fe, Spawn(f), ~Locked(f), UNCHANGED file,
         {macro.name, macro'.name} \cap {"haltClosing", "haltClosed"} = {},
         \A g \in Fe \ {f} : /\ saveBinaryData'[g] = saveBinaryData[g]
                             /\ doNotResetCounters'[g] = doNotResetCounters[g]
  PROVE  AccountInv'
<1>1. PICK s \in Slot : At(f, s, "none") /\ GoTo(f, s, "start")
  BY SpawnsOne
<1>2. /\ pc[f][s] = "none" /\ pc'[f][s] = "start"
      /\ \A t \in Slot \ {s} : pc'[f][t] = pc[f][t]
      /\ \A g \in Fe \ {f}, t \in Slot : pc'[g][t] = pc[g][t]
  BY <1>1, Types DEF Inv, At, GoTo
<1>3. ~HaltAt(f)
  BY DEF HaltAt
<1> QED
  BY <1>2, <1>3, AsksAccounts

THEOREM AccountInvariance == Spec => [](Inv /\ AccountInv)
<1>1. Init => AccountInv
  <2> SUFFICES ASSUME Init PROVE AccountInv
    OBVIOUS
  <2>1. ASSUME NEW f \in Fe
        PROVE  AccountOK(f)
    <3>1. macro.name = "idle"
      BY DEF Init, Idle
    <3>2. ~Clearing(f) /\ ~HaltAt(f)
      BY <2>1, <3>1 DEF Init, Clearing, HaltAt
    <3> QED
      BY <2>1, <3>2 DEF Init, AccountOK, Account, LockOK, Closers, ThreadCloses, HandlerCloses
  <2> QED
    BY <2>1 DEF AccountInv
<1>2. Inv /\ AccountInv /\ [Next]_vars => AccountInv'
  <2> SUFFICES ASSUME Inv, AccountInv, [Next]_vars PROVE AccountInv'
    OBVIOUS
  <2>0. node \subseteq Fe /\ Cfo \in Fe
    BY NodesAssumption DEF Inv, TypeOK, Fe
  <2>1. CASE UNCHANGED vars
    BY <2>1, AsksAccounts DEF vars, fields
  <2>2. ASSUME NEW f \in node, NEW s \in Slot, Thread(f, s)
        PROVE  AccountInv'
    BY <2>0, <2>2, ThreadAccounts
  <2>3. ASSUME NEW f \in Fe, StartLaunches(f)
        PROVE  AccountInv'
    <3>1. {macro.name, macro'.name} \cap {"haltClosing", "haltClosed"} = {}
      BY <2>3 DEF StartLaunches, Idle
    <3>2. \A g \in Fe \ {f} : /\ saveBinaryData'[g] = saveBinaryData[g]
                              /\ doNotResetCounters'[g] = doNotResetCounters[g]
      BY <2>3, Types DEF Inv, StartLaunches, Saves
    <3> QED
      BY <2>3, <3>1, <3>2, LaunchAccounts DEF StartLaunches
  <2>4. CASE CfoStarts /\ ~StartChecks(Cfo)
    <3>1. {macro.name, macro'.name} \cap {"haltClosing", "haltClosed"} = {}
      BY <2>4 DEF CfoStarts, Idle
    <3>2. \A g \in Fe \ {Cfo} : /\ saveBinaryData'[g] = saveBinaryData[g]
                                /\ doNotResetCounters'[g] = doNotResetCounters[g]
      BY <2>4, Types DEF Inv, CfoStarts, Saves
    <3>3. Spawn(Cfo) /\ ~Locked(Cfo) /\ UNCHANGED file
      BY <2>4 DEF CfoStarts
    <3> QED
      BY <2>0, <3>1, <3>2, <3>3, LaunchAccounts
  <2>5. ASSUME NEW f \in Fe, InitAssigns(f)
        PROVE  AccountInv'
    <3>1. {macro.name, macro'.name} \cap {"haltClosing", "haltClosed"} = {}
      BY <2>5 DEF InitAssigns
    <3>2. \A g \in Fe \ {f} : /\ saveBinaryData'[g] = saveBinaryData[g]
                              /\ doNotResetCounters'[g] = doNotResetCounters[g]
      BY <2>5, Types DEF Inv, InitAssigns, Saves
    <3>3. ~Locked(f) /\ UNCHANGED file
      BY <2>5 DEF InitAssigns
    <3>4. CASE UNCHANGED pc
      BY <3>1, <3>2, <3>3, <3>4, AsksAccounts
    <3>5. CASE Spawn(f)
      BY <3>1, <3>2, <3>3, <3>5, LaunchAccounts
    <3> QED
      BY <2>5, <3>4, <3>5 DEF InitAssigns
  <2>6. ASSUME NEW f \in Fe,
               \/ StartChecks(f) \/ HaltAsks(f) \/ HaltReports(f) \/ InitChecks(f) \/ FsmHalt \/ CfoPlanStarts
               \/ EmulationPrepares(f) \/ EmulationStarts(f) \/ EmulationTimesOut(f) \/ OnOffStarts(f)
        PROVE  AccountInv'
    <3>1. UNCHANGED <<saveBinaryData, doNotResetCounters, file, pc>>
      BY <2>6 DEF StartChecks, HaltAsks, HaltReports, InitChecks, FsmHalt, CfoPlanStarts,
                  EmulationPrepares, EmulationStarts, EmulationTimesOut, OnOffStarts, fields
    <3>2. UNCHANGED macro \/ {macro.name, macro'.name} \cap {"haltClosing", "haltClosed"} = {}
      BY <2>6 DEF StartChecks, HaltAsks, HaltReports, InitChecks, FsmHalt, CfoPlanStarts,
                  EmulationPrepares, EmulationStarts, EmulationTimesOut, OnOffStarts, Idle
    <3> QED
      BY <3>1, <3>2, AsksAccounts
  <2>7. ASSUME NEW f \in Fe, HaltCloses(f)
        PROVE  AccountInv'
    BY <2>7, HaltAccounts
  <2>8. CASE Operator
    <3>1. ASSUME NEW f \in node \cap Dtc, DtcOperator(f)
          PROVE  AccountInv'
      BY <2>0, <2>3, <2>5, <2>6, <2>7, <3>1 DEF DtcOperator
    <3>2. CASE CfoStarts \/ CfoHalts \/ CfoInits \/ CfoPlanStarts
      BY <2>0, <2>4, <2>5, <2>6, <2>7, <3>2 DEF CfoHalts, CfoInits
    <3> QED
      BY <2>0, <2>6, <2>8, <3>1, <3>2 DEF Operator
  <2> QED
    BY <2>1, <2>2, <2>8 DEF Next
<1> QED
  BY <1>1, <1>2, Invariance, PTL DEF Spec

\* A thread writes only into the file it has opened; and unless two who close the same file
\* have met, no file is lost, none is closed twice and none is written after it was closed,
\* however exits, exceptions, restarts and halts fall together
\* (DTCFrontEndInterfaceImpl.cc:11117, 11873, 11906, 12258).
THEOREM FilesAreAccounted == Spec => []FileAccounted
<1>1. ASSUME Inv, AccountInv, NEW f \in Fe
      PROVE  /\ \A s \in Slot : At(f, s, "handle") => fp[f] \in {s, NoFile}
             /\ ~crossed[f] =>
                  /\ open[f] = IF Clearing(f) THEN {} ELSE {fp[f]} \ {NoFile}
                  /\ Fclosing(f) => fp[f] \in open[f]
                  /\ \A s \in Slot : At(f, s, "handle") => fp[f] \in open[f] \cup {NoFile}
  <2>1. \A s \in Slot : At(f, s, "handle") => fp[f] \in {s, NoFile}
    BY <1>1 DEF Inv, FileOK, At, Gone, Handling
  <2>2. ASSUME Account(f), Fclosing(f)
        PROVE  fp[f] \in open[f]
    <3>1. CASE macro.name = "haltClosing" /\ macro.fe = f
      <4>1. HaltAt(f) /\ fp[f] # NoFile /\ \A s \in Slot : pc[f][s] \in Idlers
        BY <2>2, <3>1 DEF HaltAt, Account
      <4>2. ~Clearing(f)
        BY <3>1, <4>1 DEF Clearing, Idlers
      <4> QED
        BY <2>2, <4>1, <4>2 DEF Account
    <3>2. ASSUME NEW s \in Slot, pc[f][s] \in {"closing", "caughtClosing", "restartClosing"}
          PROVE  fp[f] \in open[f]
      <4>1. pc[f][s] \notin Waiting /\ pc[f][s] \in Closers
        BY <3>2 DEF Waiting, Idlers, Closers, ThreadCloses, HandlerCloses
      <4>2. ~HaltAt(f) /\ \A t \in Slot \ {s} : pc[f][t] \notin Closers
        BY <1>1, <2>2, <4>1, Alone
      <4>3. ~Clearing(f)
        BY <3>2, <4>2 DEF Clearing, HaltAt, Closers, ThreadCloses, HandlerCloses
      <4> QED
        BY <2>2, <4>1, <4>3 DEF Account
    <3> QED
      BY <2>2, <3>1, <3>2 DEF Fclosing
  <2>3. ASSUME Account(f), NEW s \in Slot, At(f, s, "handle")
        PROVE  fp[f] \in open[f] \cup {NoFile}
    <3>1. pc[f][s] = "handle"
      BY <2>3 DEF At
    <3>2. pc[f][s] \notin Waiting /\ pc[f][s] \notin Closers
      BY <3>1 DEF Waiting, Idlers, Closers, ThreadCloses, HandlerCloses
    <3>3. ~HaltAt(f) /\ \A t \in Slot \ {s} : pc[f][t] \notin Closers
      BY <1>1, <2>3, <3>2, Alone
    <3>4. ~Clearing(f)
      BY <3>2, <3>3, NoneClears
    <3> QED
      BY <2>3, <3>4 DEF Account
  <2> QED
    BY <1>1, <2>1, <2>2, <2>3 DEF AccountInv, AccountOK, Account
<1>2. Inv /\ AccountInv => FileAccounted
  BY <1>1 DEF FileAccounted
<1> QED
  BY <1>2, AccountInvariance, PTL

\* What a Halt that reports an exit has found remains so until the next launch
\* (DTCFrontEndInterfaceImpl.cc:12249).
THEOREM HaltIsClean == Spec => []HaltLeavesNothing
<1>1. ASSUME Inv, NEW f \in Dtc, halted[f]
      PROVE  Running(f) = {} /\ ~Borrows(f) /\ (fp[f] # NoFile => HandlerLeft(f))
  <2>1. f \in Fe /\ ThreadOK(f) /\ FileOK(f) /\ HaltOK(f)
    BY <1>1 DEF Inv, Fe
  <2>2. Running(f) = {} /\ ~Borrows(f)
    BY <1>1, <2>1 DEF HaltOK, ThreadOK, Running, Alive
  <2>3. fp[f] # NoFile => HandlerLeft(f)
    BY <2>1, <2>2 DEF FileOK, Running, HandlerLeft, Gone
  <2> QED
    BY <2>2, <2>3
<1>2. Inv => HaltLeavesNothing
  BY <1>1 DEF HaltLeavesNothing
<1> QED
  BY <1>2, Invariance, PTL

-----------------------------------------------------------------------------
(* The merge, on a node whose operator does not use the emulation macros:   *)
(* with them HandleHeld does not hold.                                      *)

Apart == \A n \in Emulating : ~(0 \in n /\ 1 \in n)

\* Front end 0 merges only where both DTCs are, and its handle is set as long as a thread
\* may use it; a reader of DTC_1 excludes the other from the check of its Start on.
MergeOK ==
  /\ merging[0] => 0 \in node /\ 1 \in node
  /\ macro.name = "start" =>
       /\ macro.merge => 0 \in node /\ 1 \in node /\ ~running[1]
       /\ macro.fe = 1 => ~(running[0] /\ Borrows(0))
  /\ macro.name = "init" => node \in Emulating
  /\ \A f \in Fe, s \in Slot : pc[f][s] \in Borrowing => Borrows(f)
  /\ running[1] => ~(running[0] /\ Borrows(0))

LEMMA MergeThread ==
  ASSUME Inv, MergeOK, NEW f \in Fe, NEW s \in Slot, Thread(f, s), UNCHANGED node
  PROVE  MergeOK'
<1>1. UNCHANGED <<node, merging, otherDTC, macro>>
  BY DEF Thread, DtcThread, CfoThread, FindsFile, OpensFile, Release, ReleaseOther, Released, Top, NoMail, Restart,
         Check, DrainOther, Handle, Throws, Closes, Exits, Catches, CatchCloses, CatchLooks, CatchReads, StopsRunning,
         RestartTests, RestartOpens, MailboxRead, TestsFile, ClosesFile, ClearsFile, fields,
         CfoOpens, CfoReleases, CfoLoops, CfoRestarts, CfoReads, CfoHandles, CfoEnds, CfoCatches
<1>2. running' = running \/ running' = [running EXCEPT ![f] = FALSE]
  BY DEF Thread, DtcThread, CfoThread, FindsFile, OpensFile, Release, ReleaseOther, Released, Top, NoMail, Restart,
         Check, DrainOther, Handle, Throws, Closes, Exits, Catches, CatchCloses, CatchLooks, CatchReads, StopsRunning,
         RestartTests, RestartOpens, MailboxRead, TestsFile, ClosesFile, ClearsFile, fields, Cfo, Dtc, Fe,
         CfoOpens, CfoReleases, CfoLoops, CfoRestarts, CfoReads, CfoHandles, CfoEnds, CfoCatches
<1>3. \E p \in Places : GoTo(f, s, p) /\ (p \in Borrowing => Borrows(f))
  BY DEF Thread, DtcThread, CfoThread, FindsFile, OpensFile, OpenFile, Release, ReleaseOther, Released, Top, NoMail,
         Restart, Check, DrainOther, Handle, Throws, Closes, Exits, Catches, CatchCloses, CatchLooks,
         CatchReads, RestartTests, RestartOpens, TestsFile, ClosesFile, ClearsFile, Places, Borrowing, Cfo, Dtc, Fe,
         CfoOpens, CfoReleases, CfoLoops, CfoRestarts, CfoReads, CfoHandles, CfoEnds, CfoCatches
<1>4. \A g \in Fe, t \in Slot : pc'[g][t] \in Borrowing => Borrows(g)
  BY <1>3, Types DEF Inv, GoTo, MergeOK
<1>5. 0 \in Fe /\ 1 \in Fe /\ (running'[0] => running[0]) /\ (running'[1] => running[1])
  BY <1>2, Types DEF Inv, Fe, Dtc
<1> QED
  BY <1>1, <1>4, <1>5 DEF MergeOK, Borrows

LEMMA MergeLaunch ==
  ASSUME Inv, MergeOK, NEW f \in Fe, StartLaunches(f), UNCHANGED node
  PROVE  MergeOK'
<1>1. /\ macro.name = "start" /\ macro.fe = f /\ macro.merge \in BOOLEAN /\ ~running[f]
      /\ macro.merge => f = 0 /\ 0 \in node /\ 1 \in node /\ ~running[1]
      /\ f = 1 => ~(running[0] /\ Borrows(0))
  BY DEF StartLaunches, Inv, MacroOK, MergeOK
<1>2. 0 \in Fe /\ 1 \in Fe
  BY DEF Fe, Dtc
<1>3. /\ merging'[f] = macro.merge /\ otherDTC'[f] = macro.merge /\ running'[f]
      /\ \A g \in Fe \ {f} : merging'[g] = merging[g] /\ otherDTC'[g] = otherDTC[g] /\ running'[g] = running[g]
  BY <1>1, Types DEF Inv, StartLaunches
<1>4. \A g \in Fe, t \in Slot : pc'[g][t] \in Borrowing => Borrows(g)'
  <2>1. PICK s \in Slot : At(f, s, "none") /\ GoTo(f, s, "start")
    BY SpawnsOne DEF StartLaunches
  <2>2. /\ pc'[f][s] = "start"
        /\ \A t \in Slot \ {s} : pc'[f][t] = pc[f][t]
        /\ \A g \in Fe \ {f}, t \in Slot : pc'[g][t] = pc[g][t]
    BY <2>1, Types DEF Inv, GoTo
  <2>3. \A t \in Slot : pc[f][t] \notin Borrowing
    BY <1>1 DEF Inv, ThreadOK, Alive, Borrowing, Gone, Handling
  <2>4. \A t \in Slot : pc'[f][t] \notin Borrowing
    BY <2>2, <2>3 DEF Borrowing
  <2>5. \A g \in Fe \ {f}, t \in Slot : pc'[g][t] \in Borrowing => Borrows(g)'
    BY <1>3, <2>2 DEF MergeOK, Borrows
  <2> QED
    BY <2>4, <2>5
<1>5. macro'.name # "start" /\ macro'.name # "init"
  BY DEF StartLaunches, Idle
<1>6. merging'[0] => 0 \in node' /\ 1 \in node'
  BY <1>1, <1>2, <1>3 DEF MergeOK
<1>7. running'[1] => ~(running'[0] /\ Borrows(0)')
  BY <1>1, <1>2, <1>3 DEF MergeOK, Borrows
<1> QED
  BY <1>4, <1>5, <1>6, <1>7 DEF MergeOK, Borrows

\* A macro that changes neither the merge nor who reads.
LEMMA MergeAsks ==
  ASSUME MergeOK, UNCHANGED <<node, running, merging, otherDTC, pc>>,
         macro'.name \notin {"start", "init"}
  PROVE  MergeOK'
BY DEF MergeOK, Borrows

LEMMA MergeMacros ==
  ASSUME Apart, Inv, MergeOK, NEW f \in node, f \in Fe, UNCHANGED node,
         \/ StartChecks(f) \/ HaltAsks(f) \/ HaltCloses(f) \/ HaltReports(f) \/ InitChecks(f) \/ InitAssigns(f)
  PROVE  MergeOK'
<1>0. 0 \in Fe /\ 1 \in Fe
  BY DEF Fe, Dtc
<1>1. CASE StartChecks(f)
  <2>1. PICK m \in BOOLEAN : (m => MergeAllowed(f)) /\ macro' = [name |-> "start", fe |-> f, merge |-> m]
    BY <1>1 DEF StartChecks
  <2>2. UNCHANGED <<running, merging, otherDTC, pc>> /\ NoMergeReader(f)
    BY <1>1 DEF StartChecks, fields
  <2>3. m => 0 \in node /\ 1 \in node /\ ~running[1]
    BY <2>1 DEF MergeAllowed
  <2>4. f = 1 => ~(running[0] /\ Borrows(0))
    BY <2>2 DEF NoMergeReader, Dtc
  <2> QED
    BY <2>1, <2>2, <2>3, <2>4 DEF MergeOK, Borrows
<1>2. CASE HaltAsks(f) \/ HaltCloses(f)
  <2>1. UNCHANGED <<running, merging, otherDTC, pc>> /\ macro'.name \notin {"start", "init"}
    BY <1>2 DEF HaltAsks, HaltCloses, HaltTests, fields
  <2> QED
    BY <2>1, MergeAsks
<1>3. CASE HaltReports(f)
  <2>1. /\ UNCHANGED <<running, merging, pc>> /\ macro'.name \notin {"start", "init"}
        /\ otherDTC'[f] = (otherDTC[f] /\ (running[f] \/ ~merging[f]))
        /\ \A g \in Fe \ {f} : otherDTC'[g] = otherDTC[g]
    BY <1>3, Types DEF HaltReports, Idle, Inv
  <2>2. \A g \in Fe, t \in Slot : pc[g][t] \in Borrowing => running[g]
    BY DEF Inv, ThreadOK, Alive, Borrowing, Gone, Handling
  <2>3. \A g \in Fe, t \in Slot : pc'[g][t] \in Borrowing => Borrows(g)'
    BY <2>1, <2>2 DEF MergeOK, Borrows
  <2>4. Borrows(0)' => Borrows(0)
    BY <1>0, <2>1 DEF Borrows
  <2> QED
    BY <2>1, <2>3, <2>4 DEF MergeOK
<1>4. CASE InitChecks(f)
  BY <1>4 DEF InitChecks, MergeOK, Borrows, fields
<1>5. CASE InitAssigns(f)
  <2>1. ~merging[0]
    BY <1>5 DEF InitAssigns, MergeOK, Apart
  <2>2. \A g \in Fe : ~Borrows(g)
    BY <2>1 DEF Borrows, Inv, TypeOK
  <2>3. ~merging'[0] /\ \A g \in Fe : ~Borrows(g)'
    BY <1>0, <1>5, <2>1, <2>2, Types DEF InitAssigns, Borrows, Inv
  <2>4. \A g \in Fe, t \in Slot : pc'[g][t] \notin Borrowing
    <3>1. \A g \in Fe, t \in Slot : pc[g][t] \notin Borrowing
      BY <2>2 DEF MergeOK
    <3>2. CASE UNCHANGED pc
      BY <3>1, <3>2
    <3>3. CASE Spawn(f)
      <4>1. PICK s \in Slot : pc' = [pc EXCEPT ![f][s] = "start"]
        BY <3>3, SpawnsOne DEF GoTo
      <4> QED
        BY <3>1, <4>1, Types DEF Inv, Borrowing
    <3> QED
      BY <1>5, <3>2, <3>3 DEF InitAssigns
  <2>5. macro'.name = "inited"
    BY <1>5 DEF InitAssigns
  <2> QED
    BY <1>0, <2>3, <2>4, <2>5 DEF MergeOK
<1> QED
  BY <1>1, <1>2, <1>3, <1>4, <1>5

THEOREM MergeInvariance == ASSUME Apart PROVE Spec => [](Inv /\ MergeOK)
<1>1. Init => MergeOK
  <2> SUFFICES ASSUME Init PROVE MergeOK
    OBVIOUS
  <2>1. macro.name = "idle" /\ 0 \in Fe /\ 1 \in Fe
    BY DEF Init, Idle, Fe, Dtc
  <2> QED
    BY <2>1 DEF Init, MergeOK, Borrowing, Borrows
<1>2. Inv /\ MergeOK /\ [Next]_vars => MergeOK'
  <2> SUFFICES ASSUME Inv, MergeOK, [Next]_vars PROVE MergeOK'
    OBVIOUS
  <2>0. node \subseteq Fe
    BY NodesAssumption DEF Inv, TypeOK
  <2>1. CASE UNCHANGED vars
    BY <2>1 DEF vars, fields, MergeOK, Borrows
  <2>2. ASSUME NEW f \in node, NEW s \in Slot, Thread(f, s), UNCHANGED node
        PROVE  MergeOK'
    BY <2>0, <2>2, MergeThread
  <2>3. CASE Operator /\ UNCHANGED node
    <3>1. CASE FsmHalt
      BY <2>3, <3>1 DEF FsmHalt, MergeOK, Borrows
    <3>2. CASE \/ CfoPlanStarts
               \/ \E f \in Fe : EmulationPrepares(f) \/ EmulationStarts(f) \/ EmulationTimesOut(f) \/ OnOffStarts(f)
      <4>1. UNCHANGED <<running, merging, otherDTC, pc>>
        BY <3>2 DEF CfoPlanStarts, EmulationPrepares, EmulationStarts, EmulationTimesOut, OnOffStarts, fields
      <4>2. macro'.name \notin {"start", "init"}
        BY <3>2 DEF CfoPlanStarts, EmulationPrepares, EmulationStarts, EmulationTimesOut, OnOffStarts, Idle
      <4> QED
        BY <2>3, <4>1, <4>2, MergeAsks
    <3>3. ASSUME NEW f \in node,
                 \/ StartChecks(f) \/ StartLaunches(f) \/ HaltAsks(f) \/ HaltCloses(f) \/ HaltReports(f)
                 \/ InitChecks(f) \/ InitAssigns(f)
          PROVE  MergeOK'
      BY <2>0, <2>3, <3>3, MergeLaunch, MergeMacros
    <3>4. CASE CfoStarts /\ ~StartChecks(Cfo)
      <4>1. /\ UNCHANGED <<merging, otherDTC>> /\ macro'.name \notin {"start", "init"}
            /\ running' = [running EXCEPT ![Cfo] = TRUE] /\ Spawn(Cfo)
        BY <3>4 DEF CfoStarts, Idle
      <4>2. PICK s \in Slot : pc' = [pc EXCEPT ![Cfo][s] = "start"]
        BY <4>1, SpawnsOne DEF GoTo
      <4>3. \A g \in Fe, t \in Slot : pc'[g][t] \in Borrowing => Borrows(g)
        BY <4>2, Types DEF Inv, MergeOK, Borrowing
      <4>4. running'[0] = running[0] /\ running'[1] = running[1]
        BY <4>1, Types DEF Inv, Cfo, Fe, Dtc
      <4> QED
        BY <2>3, <4>1, <4>3, <4>4 DEF MergeOK, Borrows
    <3> QED
      <4>1. ASSUME NEW f \in node \cap Dtc, DtcOperator(f)
            PROVE  MergeOK'
        BY <2>0, <3>2, <3>3, <4>1 DEF DtcOperator
      <4>2. CASE Cfo \in node /\ (CfoStarts \/ CfoHalts \/ CfoInits \/ CfoPlanStarts)
        BY <3>2, <3>3, <3>4, <4>2 DEF CfoHalts, CfoInits
      <4> QED
        BY <2>3, <3>1, <4>1, <4>2 DEF Operator
  <2> QED
    BY <2>1, <2>2, <2>3 DEF Next
<1> QED
  BY <1>1, <1>2, Invariance, PTL DEF Spec

\* A thread that is about to use otherDTC_ finds the handle it has looked at, unless an
\* emulation macro of the merging front end takes it away (DTCFrontEndInterfaceImpl.cc:11805).
THEOREM HandleIsHeld == ASSUME Apart PROVE Spec => []HandleHeld
<1>1. MergeOK => HandleHeld
  BY DEF MergeOK, HandleHeld, Borrows
<1> QED
  BY <1>1, MergeInvariance, PTL

\* The merge thread and the own thread of DTC_1 never read its DMA together: the checks of
\* the two front ends exclude each other (DTCFrontEndInterfaceImpl.cc:8785).
THEOREM OneReader == ASSUME Apart PROVE Spec => []OneReaderOfDTC1
<1>1. ASSUME Inv, MergeOK, NEW s \in Slot, pc[0][s] \in Borrowing
      PROVE  Running(1) = {}
  <2>1. 0 \in Fe /\ 1 \in Fe
    BY DEF Fe, Dtc
  <2>2. running[0] /\ Borrows(0)
    BY <1>1, <2>1 DEF Inv, ThreadOK, Alive, Borrowing, MergeOK, Gone, Handling
  <2> QED
    BY <1>1, <2>1, <2>2 DEF MergeOK, Inv, ThreadOK, Running, Alive
<1>2. Inv /\ MergeOK => OneReaderOfDTC1
  BY <1>1 DEF OneReaderOfDTC1
<1> QED
  BY <1>2, MergeInvariance, PTL
=============================================================================
