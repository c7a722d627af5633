---------------------------- MODULE SharedRunPlan ----------------------------
(***************************************************************************)
(* The shared run plan of the CFO: one program that runs for ever in the   *)
(* CFO and tells, event by event, which subsystems take data.  Teams start *)
(* it, join it with a duty cycle, join it for a number of events, leave it *)
(* and stop it, while it runs: the operations of the program never change, *)
(* only the masks of its mode-bit operations do, and those are written     *)
(* word by word under the feet of the running program.  Translated from    *)
(* CFOFrontEndInterfaceImpl.cc, the macros SharedRunPlan* and what they    *)
(* call.                                                                   *)
(*                                                                         *)
(* The CFO itself is external.  As the code uses it, it executes one       *)
(* operation after the other, an OR_SINGLESHOT clears its own mask when it *)
(* has fired, and SetRunPlanData writes the words in the order of their    *)
(* addresses.  Doubles are modelled by exact quotients.                    *)
(***************************************************************************)
EXTENDS Integers, Sequences, FiniteSets

CONSTANTS
  Subsystem,    \* supportedSubsystems_: mode bits that teams join with
  Inject,       \* the mode bit Calo_inject, which Start adds by itself
  InjectRatio,  \* events with injection as <<M, N>>, from CALO_INJECT_RATE_PER_SEC
  NValues,      \* standardNValues_: events of the fine loop and of every coarse loop
  Team,         \* macros of the run plan that may be under way at a time
  Ratio,        \* bound: duty cycles that teams ask for, as <<M, N>>
  Offset,       \* bound: values of "Event Offset in Loop"
  Count,        \* bound: values of "Single-shot Event Count"
  Careful,      \* TRUE: teams avoid the sequences that the code does not support
  NoSubsystem

ASSUME BitAssumption == Inject \notin Subsystem /\ NoSubsystem \notin Subsystem \cup {Inject}
ASSUME NValuesAssumption ==
  /\ NValues \in Seq(Nat) /\ Len(NValues) > 0 /\ NValues[1] > 1
  /\ \A k \in DOMAIN NValues : \A j \in 1..(k - 1) :
       NValues[k] % NValues[j] = 0 /\ NValues[k] > NValues[j]
ASSUME AskedAssumption ==
  /\ InjectRatio \in Nat \X Nat /\ Ratio \subseteq Nat \X Nat
  /\ Offset \subseteq Nat /\ Count \subseteq Nat \ {0}

Bit    == Subsystem \cup {Inject}
Fine   == NValues[1]
Coarse == Len(NValues) - 1
Period == NValues[Len(NValues)]

\* Masks of the AND operations: fine slots, the end of the fine loop, ends of coarse loops.
AndSlot == 0..(Fine + Coarse)
\* Masks of the OR and OR_SINGLESHOT operations: starts of coarse loops, outermost first,
\* then the fine slots.
OrSlot  == 0..(Coarse + Fine - 1)
\* The coarse loop that mask k stands before.
LevelOf(k) == Coarse - k

Plan == [keep : [AndSlot -> SUBSET Bit], or : [OrSlot -> SUBSET Bit], shot : [OrSlot -> SUBSET Bit]]

NoShots == [k \in OrSlot |-> {}]
\* emptyAndMasks and emptyOrMasks.
EmptyKeep == [i \in AndSlot |-> Bit]
EmptyOr   == [k \in OrSlot |-> {}]

\* The operations of the program.  An "event" is HEARTBEAT and MARKER; the AND behind it comes
\* with the WAIT and the INC_TAG before it.
Operation ==
  ({"shot", "or"} \X OrSlot) \cup ({"and"} \X AndSlot) \cup ({"event"} \X (0..(Fine - 1)))
    \cup ({"loop", "do"} \X (1..Coarse))

First == IF Coarse = 0 THEN <<"and", 0>> ELSE <<"shot", 0>>
Final == <<"and", Fine + Coarse>>

\* The operation behind operation o.  GOTO_LABEL leads from the last one back to the first.
After(o) ==
  LET k == o[2] IN
  CASE o[1] = "shot"                -> IF k < Coarse THEN <<"or", k>> ELSE <<"event", k - Coarse>>
    [] o[1] = "or"                  -> IF k < Coarse THEN <<"loop", LevelOf(k)>> ELSE <<"shot", k>>
    [] o[1] = "loop"                -> IF k = 1 THEN <<"and", 0>> ELSE <<"shot", Coarse - k + 1>>
    [] o[1] = "and" /\ k < Fine     -> <<"or", Coarse + k>>
    [] o[1] = "event"               -> <<"and", k + 1>>
    [] o[1] = "do"                  -> <<"and", Fine + k>>
    [] o = Final                    -> First
    [] OTHER                        -> <<"do", k - Fine + 1>>

\* The operations with a mask, and their order in the memory of the CFO.
Mask == ({"shot", "or"} \X OrSlot) \cup ({"and"} \X AndSlot)
Place(o) ==
  LET k == o[2] IN
  CASE o[1] = "and"   -> 3 * Coarse + IF k < Fine THEN 4 * k ELSE 4 * Fine + 2 * (k - Fine)
    [] o[1] = "or"    -> 1 + IF k < Coarse THEN 3 * k ELSE 4 * k - Coarse
    [] o[1] = "shot"  -> IF k < Coarse THEN 3 * k ELSE 4 * k - Coarse + 2

LoopCount(l) == NValues[l + 1] \div NValues[l]

-----------------------------------------------------------------------------
(* Duty cycles                                                              *)

Smallest(S) == CHOOSE x \in S : \A y \in S : x <= y

\* getRatioOfOnPerEvents: the first standard N that leaves at least one event on.
NearestRatio(m, n) ==
  LET fits == {k \in DOMAIN NValues : (m * NValues[k]) \div n > 0}
      k    == Smallest(fits)
  IN  IF fits = {} THEN <<1, Period>>
      ELSE IF k > 1 THEN <<1, NValues[k]>>
      ELSE <<(m * Fine) \div n, Fine>>

\* mnFixRatio: what M:N resolves to, nothing when it throws.
Resolved(m, n) ==
  IF n > 0 /\ n < Fine
  THEN IF m \in 1..n /\ Fine % n = 0 THEN {<<m, n>>} ELSE {}
  ELSE IF m = 0 \/ n = 0 THEN {} ELSE {NearestRatio(m, n)}

\* Fine slots in which M:N is on, when it is not a coarse ratio.
OnSlot(m, n, offset, i) == n <= Fine /\ (i - offset) % n < m

\* shouldClear: a coarse ratio, set before its loop, is cleared from the second slot on.
OffSlot(m, n, offset, i) ==
  \/ n > Fine /\ i > 0
  \/ n <= Fine /\ (i - offset) % n >= m

\* The events of the program in which M:N is on, as a team understands its duty cycle.
Share(m, n, offset) ==
  {p \in 0..(Period - 1) : IF n > Fine THEN p % n = 0 ELSE (p - offset) % n < m}

\* generateSharedRunPlanWithPeriodicModeOn
PeriodicOn(keep, or, bits, m, n, offset, shots, applyOr) ==
  [keep |-> [i \in AndSlot |->
               IF i < Fine /\ OffSlot(m, n, offset, i) THEN keep[i] \ bits ELSE keep[i]],
   or   |-> [k \in OrSlot |->
               IF applyOr /\ (IF k < Coarse THEN NValues[LevelOf(k) + 1] = n
                                            ELSE OnSlot(m, n, offset, k - Coarse))
               THEN or[k] \cup bits ELSE or[k]],
   shot |-> shots]

\* Mutant: the masks of the others are not merged.
PeriodicOffForAll(keep, or, bits) ==
  [keep |-> [i \in AndSlot |-> IF i < Fine THEN Bit \ bits ELSE Bit],
   or   |-> EmptyOr,
   shot |-> NoShots]

\* generateSharedRunPlanWithPeriodicModeOff
PeriodicOff(keep, or, bits) ==
  [keep |-> [i \in AndSlot |-> IF i < Fine THEN keep[i] \ bits ELSE keep[i] \cup bits],
   or   |-> [k \in OrSlot |-> or[k] \ bits],
   shot |-> NoShots]

-----------------------------------------------------------------------------
(* Single shots                                                             *)

\* onFineSlots
OnFineSlots(m, n) == {i \in 0..(Fine - 1) : OnSlot(m, n, 0, i)}

\* The next chunk of a single shot of r more events: its count and the mask of the coarse loop
\* it fires before, or -1 when it fires in fine slots.
NextChunk(r, m, n) ==
  LET fits   == {k \in 0..(Coarse - 1) : NValues[LevelOf(k) + 1] <= r}
      active == Cardinality(OnFineSlots(m, n))
  IN  IF m = n /\ fits # {} THEN <<NValues[LevelOf(Smallest(fits)) + 1], Smallest(fits)>>
      ELSE <<IF r > active THEN active ELSE r, -1>>

\* chunkAndMasks: a coarse chunk is kept everywhere but at the end of its loop, a fine chunk
\* is cleared everywhere.
ChunkKeep(keep, s, chunk) ==
  IF chunk[2] >= 0
  THEN [i \in AndSlot |-> IF i = Fine + LevelOf(chunk[2]) THEN keep[i] \ {s} ELSE keep[i] \cup {s}]
  ELSE [i \in AndSlot |-> keep[i] \ {s}]

\* chunkSingleShotMasks
ChunkShots(s, chunk, m, n) ==
  LET first(c) == {i \in OnFineSlots(m, n) : Cardinality({j \in OnFineSlots(m, n) : j < i}) < c}
  IN  [k \in OrSlot |-> IF \/ chunk[2] >= 0 /\ k = chunk[2]
                           \/ chunk[2] < 0 /\ k - Coarse \in first(chunk[1])
                        THEN {s} ELSE {}]

\* expectedEventCountDelta: twice the chunk, or twice the fine loop below full duty.
\* Mutant: the loop that is half-way when the chunk is armed is not counted.
EventsOfChunk(chunk, m, n) == IF m = n THEN chunk[1] ELSE Fine

EventsToWait(chunk, m, n) == 2 * (IF m = n THEN chunk[1] ELSE Fine)

ChunkOf(o) == NextChunk(o.remaining, o.m, o.n)

\* eventCountDelta with one more tag; from the events to wait for on all numbers are the same.
Counted(o) == IF o.waited < EventsToWait(ChunkOf(o), o.m, o.n) THEN o.waited + 1 ELSE o.waited

-----------------------------------------------------------------------------
VARIABLES
  running,  \* beam-off mode is enabled: the CFO executes its program
  pc,       \* operation the CFO executes next
  left,     \* iterations left of every coarse loop
  mode,     \* mode register of the CFO: the bits of the next heartbeat
  plan,     \* masks in the memory of the CFO
  op,       \* the macro of every team
  number,   \* history: events since the program has begun for the last time
  share,    \* history: events in which a bit is to be on, by the last macro about it
  asked,    \* history: events in which a change that may not have settled may switch it on
  due,      \* history: events that a single shot still has to come
  settled,  \* history: bits that no macro has touched since the last start of the program
  fresh     \* history: subsystems that no macro has touched since Start

hardware == <<running, pc, left, mode>>
history  == <<number, share, asked, due, settled, fresh>>
vars     == <<hardware, plan, op, history>>

Kind == {"idle", "start", "join", "leave", "shoot"}

Idle == [kind |-> "idle", step |-> "none", sub |-> NoSubsystem, m |-> 1, n |-> 1, offset |-> 0,
         keep |-> EmptyKeep, or |-> EmptyOr, remaining |-> 0, at |-> 0,
         target |-> [keep |-> EmptyKeep, or |-> EmptyOr, shot |-> NoShots], waited |-> 0]

NoPlan == Idle.target

Init ==
  /\ running = FALSE
  /\ pc = First
  /\ left = [l \in 1..Coarse |-> 0]
  /\ mode = {}
  /\ plan = NoPlan
  /\ op = [t \in Team |-> Idle]
  /\ number = 0
  /\ share = [b \in Bit |-> {}]
  /\ asked = [b \in Bit |-> {}]
  /\ due = [b \in Bit |-> 0]
  /\ settled = {}
  /\ fresh = Subsystem

AtEvent == running /\ pc[1] = "event"

\* The CFO is in the WAIT of an event: its HEARTBEAT is out, its tag not yet counted.
InWait == running /\ pc[1] = "and" /\ pc[2] \in 1..Fine

\* Bits some macro is about to change.
InWork == {op[t].sub : t \in Team} \cup (IF \E t \in Team : op[t].kind = "start" THEN {Inject} ELSE {})

-----------------------------------------------------------------------------
(* The CFO                                                                  *)

Executes(o) == running /\ pc[1] = o
Operand == pc[2]

OrSingleShot ==
  /\ Executes("shot")
  /\ mode' = mode \cup plan.shot[Operand]
  /\ plan' = [plan EXCEPT !.shot[Operand] = {}]
  /\ pc' = After(pc)
  /\ UNCHANGED <<running, left, op, history>>

OrModeBits ==
  /\ Executes("or")
  /\ mode' = mode \cup plan.or[Operand]
  /\ pc' = After(pc)
  /\ UNCHANGED <<running, left, plan, op, history>>

\* INC_TAG: the macros that wait for their shots see one more tag.
IncTag ==
  op' = [t \in Team |-> IF op[t].step = "wait" /\ op[t].kind = "shoot"
                        THEN [op[t] EXCEPT !.waited = Counted(op[t])]
                        ELSE op[t]]

\* The last operation of the program is an AND: what no macro works on has settled when it
\* starts again.
AndModeBits ==
  /\ Executes("and")
  /\ mode' = mode \cap plan.keep[Operand]
  /\ pc' = After(pc)
  /\ IF pc = Final
     THEN /\ number' = 0
          /\ settled' = settled \cup (Bit \ InWork)
          /\ asked' = [b \in Bit |-> IF b \in InWork THEN asked[b] ELSE {}]
     ELSE UNCHANGED <<number, settled, asked>>
  /\ IF InWait THEN IncTag ELSE UNCHANGED op
  /\ UNCHANGED <<running, left, plan, share, due, fresh>>

Loop ==
  /\ Executes("loop")
  /\ left' = [left EXCEPT ![Operand] = LoopCount(Operand)]
  /\ pc' = After(pc)
  /\ UNCHANGED <<running, mode, plan, op, history>>

DoLoop ==
  /\ Executes("do")
  /\ IF left[Operand] > 1
     THEN /\ left' = [left EXCEPT ![Operand] = @ - 1]
          /\ pc' = After(<<"loop", Operand>>)
     ELSE /\ pc' = After(pc)
          /\ UNCHANGED left
  /\ UNCHANGED <<running, mode, plan, op, history>>

\* An event of a bit outside its share is one of a single shot.
Event ==
  /\ Executes("event")
  /\ pc' = After(pc)
  /\ number' = number + 1
  /\ due' = [b \in Bit |-> IF b \in mode /\ number \notin share[b] \cup asked[b] /\ due[b] > 0
                           THEN due[b] - 1 ELSE due[b]]
  /\ UNCHANGED <<running, left, mode, plan, op, share, asked, settled, fresh>>

CFO == OrSingleShot \/ OrModeBits \/ AndModeBits \/ Loop \/ DoLoop \/ Event

-----------------------------------------------------------------------------
(* Writing a plan                                                           *)

Word(p, o) ==
  CASE o[1] = "and"  -> p.keep[o[2]]
    [] o[1] = "or"   -> p.or[o[2]]
    [] o[1] = "shot" -> p.shot[o[2]]

WithWord(p, o, w) ==
  CASE o[1] = "and"  -> [p EXCEPT !.keep[o[2]] = w]
    [] o[1] = "or"   -> [p EXCEPT !.or[o[2]] = w]
    [] o[1] = "shot" -> [p EXCEPT !.shot[o[2]] = w]

\* Words still to be written that the CFO does not hold yet; writing the others changes nothing.
ToWrite(t) == {o \in Mask : Place(o) >= op[t].at /\ Word(plan, o) # Word(op[t].target, o)}

WriteWord(t) ==
  /\ op[t].step \in {"prepare", "set"}
  /\ LET words == ToWrite(t)
     IN  \E o \in words :
           /\ \A u \in words : Place(o) <= Place(u)
           /\ plan' = WithWord(plan, o, Word(op[t].target, o))
           /\ op' = [op EXCEPT ![t].at = Place(o) + 1]
  /\ UNCHANGED <<hardware, history>>

Written(t, step) == op[t].step = step /\ ToWrite(t) = {}

\* A macro that has begun to write target.
Writing(o, step, target) == [o EXCEPT !.step = step, !.target = target, !.at = 0]

-----------------------------------------------------------------------------
(* Start and Stop                                                           *)

InitialPlan(initial) == PeriodicOn(EmptyKeep, EmptyOr, initial, 1, 1, 0, NoShots, TRUE)

InjectPlan(r) == PeriodicOn(EmptyKeep, EmptyOr, {Inject}, r[1], r[2], 0, NoShots, TRUE)

\* SharedRunPlanStart: part 1 is written into the halted CFO, which is reset and enabled;
\* part 2 is made of empty masks again.
Start(t) ==
  /\ op[t].kind = "idle"
  /\ ~running
  /\ \E initial \in SUBSET Subsystem, r \in Resolved(InjectRatio[1], InjectRatio[2]) :
       /\ plan' = InitialPlan(initial)
       /\ op' = [op EXCEPT ![t] = [Idle EXCEPT !.kind = "start", !.step = "wait",
                                               !.target = InjectPlan(r)]]
       /\ share' = [b \in Bit |-> IF b \in initial THEN 0..(Period - 1) ELSE
                                  IF b = Inject THEN Share(r[1], r[2], 0) ELSE {}]
  /\ running' = TRUE
  /\ pc' = First
  /\ number' = 0
  /\ mode' = {}
  /\ left' = [l \in 1..Coarse |-> 0]
  /\ asked' = [b \in Bit |-> {}]
  /\ due' = [b \in Bit |-> 0]
  /\ settled' = {}
  /\ fresh' = Subsystem

\* Compiling part 2 takes longer than the first operations of part 1: its OR has set the
\* initial mode, which nothing clears.
StartMerges(t) ==
  /\ op[t].kind = "start" /\ op[t].step = "wait"
  /\ running => plan.or[Coarse] \subseteq mode
  /\ op' = [op EXCEPT ![t].step = "set"]
  /\ UNCHANGED <<hardware, plan, history>>

StartEnds(t) ==
  /\ op[t].kind = "start" /\ Written(t, "set")
  /\ op' = [op EXCEPT ![t] = Idle]
  /\ UNCHANGED <<hardware, plan, history>>

\* SharedRunPlanStop, or anything else that halts the CFO: a transition, a launch by hand.  The
\* words stay in its memory.  Where it stood is lost: only Start makes it run again, and begins anew.
Stop ==
  /\ running
  /\ running' = FALSE
  /\ pc' = First
  /\ left' = [l \in 1..Coarse |-> 0]
  /\ mode' = {}
  /\ number' = 0
  /\ UNCHANGED <<plan, op, share, asked, due, settled, fresh>>

-----------------------------------------------------------------------------
(* Join                                                                     *)

\* A macro about s begins: it reads the masks back, which it merges and writes later.
Begins(t, s) ==
  /\ op[t].kind = "idle"
  /\ running
  /\ settled' = settled \ {s}
  /\ fresh' = fresh \ {s}

Extracted(kind, s, r, offset) ==
  [Idle EXCEPT !.kind = kind, !.sub = s, !.m = r[1], !.n = r[2], !.offset = offset,
               !.keep = plan.keep, !.or = plan.or]

JoinPlan(o, applyOr) ==
  PeriodicOn(o.keep, o.or, {o.sub}, o.m, o.n, o.offset, NoShots, applyOr)

\* Mutant: the OR masks are written together with the AND masks.
JoinPassWithOr(o) == JoinPlan(o, TRUE)

\* Pass 1 writes the AND masks and suppresses new ORs.
JoinPass1(o) == JoinPlan(o, FALSE)

JoinStarts(t) ==
  \E s \in Subsystem, asking \in Ratio, offset \in Offset :
    /\ Begins(t, s)
    /\ \E r \in Resolved(asking[1], asking[2]) :
         /\ Careful => share[s] = {} /\ (r[2] > Fine => s \in fresh)
         /\ LET o == Extracted("join", s, r, offset)
            IN  op' = [op EXCEPT ![t] = Writing(o, "prepare", JoinPass1(o))]
         /\ asked' = [asked EXCEPT ![s] = @ \cup Share(r[1], r[2], offset)]
    /\ UNCHANGED <<hardware, plan, number, share, due>>

JoinSets(t) ==
  /\ op[t].kind = "join" /\ Written(t, "prepare")
  /\ op' = [op EXCEPT ![t] = Writing(op[t], "set", JoinPlan(op[t], TRUE))]
  /\ UNCHANGED <<hardware, plan, history>>

JoinEnds(t) ==
  /\ op[t].kind = "join" /\ Written(t, "set")
  /\ share' = [share EXCEPT ![op[t].sub] = Share(op[t].m, op[t].n, op[t].offset)]
  /\ op' = [op EXCEPT ![t] = Idle]
  /\ UNCHANGED <<hardware, plan, number, asked, due, settled, fresh>>

-----------------------------------------------------------------------------
(* Leave                                                                    *)

\* Until it has settled, a subsystem that leaves may still be on in its old share.
LeaveStarts(t) ==
  \E s \in Subsystem :
    /\ Begins(t, s)
    /\ LET o == Extracted("leave", s, <<1, 1>>, 0)
       IN  op' = [op EXCEPT ![t] = Writing(o, "set", PeriodicOff(o.keep, o.or, {s}))]
    /\ asked' = [asked EXCEPT ![s] = @ \cup share[s]]
    /\ share' = [share EXCEPT ![s] = {}]
    /\ UNCHANGED <<hardware, plan, number, due>>

LeaveEnds(t) ==
  /\ op[t].kind = "leave" /\ Written(t, "set")
  /\ op' = [op EXCEPT ![t] = Idle]
  /\ UNCHANGED <<hardware, plan, history>>

-----------------------------------------------------------------------------
(* Single-shot join                                                         *)

ChunkPlan(o, shots) ==
  [keep |-> ChunkKeep(o.keep, o.sub, ChunkOf(o)), or |-> o.or, shot |-> shots]

\* The masks that the last operation of a chunk leaves armed, with the masks of its slots.
ArmedPlan(o) == ChunkPlan(o, ChunkShots(o.sub, ChunkOf(o), o.m, o.n))

\* Every chunk is first prepared without shots, as the first is here.
ShootStarts(t) ==
  \E s \in Subsystem, asking \in Ratio, count \in Count :
    /\ Begins(t, s)
    /\ Careful => share[s] = {} /\ s \notin mode
    /\ \E r \in Resolved(asking[1], asking[2]) :
         /\ r[2] <= Fine
         /\ OnFineSlots(r[1], r[2]) # {}
         /\ LET o == [Extracted("shoot", s, r, 0) EXCEPT !.remaining = count]
            IN  op' = [op EXCEPT ![t] = Writing(o, "prepare", ChunkPlan(o, NoShots))]
    /\ due' = [due EXCEPT ![s] = count]
    /\ asked' = [asked EXCEPT ![s] = {}]
    /\ UNCHANGED <<hardware, plan, number, share>>

ShootArms(t) ==
  /\ op[t].kind = "shoot" /\ Written(t, "prepare")
  /\ op' = [op EXCEPT ![t] = Writing(op[t], "set", ArmedPlan(op[t]))]
  /\ UNCHANGED <<hardware, plan, history>>

\* waitForSingleShotReady reads the current tag first.
ShootWaits(t) ==
  /\ op[t].kind = "shoot" /\ Written(t, "set")
  /\ op' = [op EXCEPT ![t] = [@ EXCEPT !.step = "wait", !.waited = 0]]
  /\ UNCHANGED <<hardware, plan, history>>

\* areSingleShotValuesCleared
ShotsCleared == \A k \in OrSlot : plan.shot[k] = {}

\* The chunk is done; the masks of the next one are made from those read at the start.  The
\* macro has to report and to compile before it does anything to the CFO, which takes its time
\* in the WAIT of every event and no more than clocks in between: the CFO is in a WAIT again.
ChunkEnds(t) ==
  /\ op[t].kind = "shoot" /\ op[t].step = "wait"
  /\ running => InWait
  /\ ShotsCleared
  /\ op[t].waited >= EventsToWait(ChunkOf(op[t]), op[t].m, op[t].n)
  /\ LET o == [op[t] EXCEPT !.remaining = @ - ChunkOf(op[t])[1]]
     IN  op' = [op EXCEPT ![t] = IF o.remaining = 0 THEN Idle
                                 ELSE Writing(o, "prepare", ChunkPlan(o, NoShots))]
  /\ UNCHANGED <<hardware, plan, history>>

\* Only a CFO that does not advance makes the wait time out: the plan stays armed.
ShootTimesOut(t) ==
  /\ op[t].kind = "shoot" /\ op[t].step = "wait"
  /\ ~running
  /\ op' = [op EXCEPT ![t] = Idle]
  /\ due' = [due EXCEPT ![op[t].sub] = 0]
  /\ UNCHANGED <<hardware, plan, number, share, asked, settled, fresh>>

-----------------------------------------------------------------------------
Macro(t) ==
  \/ WriteWord(t)
  \/ StartMerges(t) \/ StartEnds(t)
  \/ JoinSets(t) \/ JoinEnds(t)
  \/ LeaveEnds(t)
  \/ ShootArms(t) \/ ShootWaits(t) \/ ChunkEnds(t) \/ ShootTimesOut(t)

Operator(t) == Start(t) \/ JoinStarts(t) \/ LeaveStarts(t) \/ ShootStarts(t)

Next == CFO \/ Stop \/ \E t \in Team : Macro(t) \/ Operator(t)

Spec == Init /\ [][Next]_vars

-----------------------------------------------------------------------------
(* Properties                                                               *)

OpRecord ==
  [kind : Kind, step : {"none", "prepare", "set", "wait"}, sub : Subsystem \cup {NoSubsystem},
   m : Nat, n : Nat, offset : Nat, keep : [AndSlot -> SUBSET Bit], or : [OrSlot -> SUBSET Bit],
   remaining : Nat, at : Nat, target : Plan, waited : Nat]

\* Types of the variables.
TypeOK ==
  /\ running \in BOOLEAN
  /\ pc \in Operation
  /\ left \in [1..Coarse -> Nat]
  /\ mode \in SUBSET Bit
  /\ plan \in Plan
  /\ op \in [Team -> OpRecord]
  /\ number \in Nat
  /\ share \in [Bit -> SUBSET (0..(Period - 1))]
  /\ asked \in [Bit -> SUBSET (0..(Period - 1))]
  /\ due \in [Bit -> Nat]
  /\ settled \subseteq Bit
  /\ fresh \subseteq Subsystem

\* An event has the bit of a settled subsystem exactly when it belongs to the duty cycle that
\* the subsystem joined with.  The macros of the others, whose words are written one at a time
\* while the program runs, do not show (CFOFrontEndInterfaceImpl.cc:6443 "use them to preserve
\* other subsystems' bits").
SharesHold ==
  AtEvent => \A b \in settled : b \in mode <=> number \in share[b]

\* A subsystem that joins, leaves or shoots is never on in an event that nobody asked for
\* (CFOFrontEndInterfaceImpl.cc:5290 "This avoids a window where OR bits could be interpreted before
\* the new clear points are in place").  Start takes no such care of the bit that it adds.
OnlyWhatWasAsked ==
  AtEvent => \A s \in mode \cap Subsystem : number \in share[s] \cup asked[s] \/ due[s] > 0

\* A single shot comes for exactly the number of events that was asked for: with
\* OnlyWhatWasAsked not for more, and when it has settled not for less
\* (CFOFrontEndInterfaceImpl.cc:5365 "the subsystem's mode bit(s) are set for exactly the
\* requested number of events").
ShotsComplete == \A b \in settled : due[b] = 0
=============================================================================
