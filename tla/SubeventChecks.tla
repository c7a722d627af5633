---------------------------- MODULE SubeventChecks ----------------------------
(***************************************************************************)
(* The checks a detached buffer-test thread of a DTC makes on the          *)
(* subevents it reads: handleDetachedSubevent with the tag it expects next *)
(* and the sources it has seen for that tag, checkROCEmulatorBlock, the    *)
(* event check of the event mode, and what Start, initDetachedBufferTest   *)
(* and the restart of the thread leave in their fields.                    *)
(*                                                                         *)
(* What the DMA delivers is the environment: events in the order of their  *)
(* tags, each with one subevent of every source (the library groups them), *)
(* of which subevents or whole events may be missing and subevents may be  *)
(* doubled.  A subevent is its tag, its source and the number of its ROC   *)
(* blocks' first counter; a tag is the base tag of a merged event, from    *)
(* which the caller has taken the offset of DTC_1.  The traffic has a step *)
(* from tag to tag of its own, which need not be the stride that the       *)
(* checker adds.                                                           *)
(***************************************************************************)
EXTENDS Integers, FiniteSets

CONSTANTS
  Ids,         \* the source DTCs of an EVB network: in even/odd mode that of both DTCs
  Local, Peer, \* the ids of DTC_0 itself and of DTC_1 of a matching merge: may be the same
  Skip,        \* the stride of skipBy32_: 32 in the code
  None,        \* a stream of which no block has been seen
  MaxEvents,   \* bound: events of one stream after its first
  MaxFaults,   \* bound: subevents and events lost or doubled
  MaxStarts    \* bound: starts and re-initialisations of a thread

ASSUME IdsAssumption == IsFiniteSet(Ids) /\ Local \in Ids /\ Peer \in Ids
ASSUME SkipAssumption == Skip \in Nat \ {0}

VARIABLES
  running,     \* running_
  mode,        \* [evb, merge, events, skip]: inEVBMode_, mergeMode_, ~inSubeventMode_ and
               \* skipBy32_
  activeMatch, \* activeMatch_
  check,       \* checkROCEmulatorData_
  expected,    \* expectedEventTag_
  next,        \* nextEventWindowTag_
  synced,      \* evbTagSynced_
  seen,        \* evbSourcesSeenForTag_, pairs of source group and source_dtc_id
  nextCounter, \* rocEmulatorNextCounter_ of one link, by source_dtc_id
  mailbox,     \* resetStartEventTag_
  keep,        \* doNotResetCounters_, which is read with the mailbox only
  mismatches,  \* mismatchedEventTagsCount_
  failed,      \* what ended the last thread: "no", "match", "emulator" or "other"
  stream,      \* the traffic: [mode, step, tag, left], left: its sources still to come
  counter,     \* the next counter of each ROC emulator
  faults,      \* [lost, doubled, stale, released, asEvents] since the counters were reset;
               \* stale: subevents handled with settings that are not the traffic's: before
               \* the restart, or with another stride; released: restarts that kept the
               \* counters; asEvents: subevents handled in the event mode
  gaps,        \* history: tags of which something was lost or doubled in this stream
  starts       \* starts and re-initialisations so far

settings == <<mode, activeMatch, check, expected, mailbox, keep>>
checker  == <<next, synced, seen, nextCounter, mismatches>>
traffic  == <<stream, counter, gaps>>
vars     == <<running, settings, checker, failed, traffic, faults, starts>>

\* Merging is even/odd with two EVB nodes, else matching.
Mode == {m \in [evb : BOOLEAN, merge : {"off", "evenodd", "matching"}, events : BOOLEAN,
                skip : BOOLEAN] :
           /\ m.events => ~m.evb /\ m.merge = "off"
           /\ m.merge = "evenodd" => m.evb /\ Cardinality(Ids) = 2}

\* What initDetachedBufferTest sets.
PlainMode == {m \in Mode : m.merge = "off" /\ ~m.events}

\* The sources of DTC_0 and those of DTC_1: in EVB mode each DTC of the network (in
\* matching mode there is one only), else the DTC itself.
Own(m) == IF m.evb /\ m.merge # "matching" THEN Ids ELSE {Local}

Other(m) == CASE m.merge = "evenodd" -> Ids [] m.merge = "matching" -> {Peer} [] OTHER -> {}

Sources(m) == ({0} \X Own(m)) \cup ({1} \X Other(m))

ExpectedSources(m) == Cardinality(Sources(m))

Stride(m) == IF m.evb THEN Cardinality(Own(m)) ELSE IF m.skip THEN Skip ELSE 1

UsesSourceSet(m) == m.evb \/ m.merge # "off"

Source == {0, 1} \X Ids

NoFaults == [lost |-> 0, doubled |-> 0, stale |-> 0, released |-> 0, asEvents |-> 0]

Init ==
  /\ running = FALSE
  /\ mode \in {m \in PlainMode : ~m.evb /\ ~m.skip}
  /\ activeMatch = FALSE
  /\ check = FALSE
  /\ expected = 0
  /\ next = 0
  /\ synced = FALSE
  /\ seen = {}
  /\ nextCounter = [i \in Ids |-> None]
  /\ mailbox = FALSE
  /\ keep = FALSE
  /\ mismatches = 0
  /\ failed = "no"
  /\ stream = [mode |-> mode, step |-> 1, tag |-> 0, left |-> {}]
  /\ counter = [s \in Source |-> 1]
  /\ faults = NoFaults
  /\ gaps = {}
  /\ starts = 0

-----------------------------------------------------------------------------
(* checkROCEmulatorBlock                                                    *)

\* A block that starts at counter c continues the stream of its source, or is its first.
\* The key of a stream is the id of the source, whichever DTC has delivered it.
Continues(s, c) == nextCounter[s[2]] \in {None, c}

-----------------------------------------------------------------------------
(* handleDetachedSubevent                                                   *)

\* The first subevent of an EVB run defines the tag.
Syncs == mode.evb /\ ~synced

\* The event mode checks the tag of the event, and moves on before it hands its subevent
\* over.
EventMismatch(t) == mode.events /\ next # t

NextAfterEvent(t) == IF mode.events THEN t + 1 ELSE next

\* The tag expected of this subevent, and the sources seen for it.
TagExpected(t) == IF Syncs THEN t ELSE NextAfterEvent(t)

SeenSources == IF Syncs THEN {} ELSE seen

\* Mutant: a repeat of a source is not noticed.
TagOKWithoutSources(s, t) == TagExpected(t) = t

\* EVB mode: every tag arrives once from each source; a repeat from a source already seen
\* for it, or any other tag, is a mismatch.
TagOK(s, t) ==
  /\ TagExpected(t) = t
  /\ UsesSourceSet(mode) => s \notin SeenSources

\* Mutant: after a mismatch the sources seen so far still count.
SeenAfterUncleared(s, t) == SeenSources \cup {s}

\* A mismatch resynchronises on the tag received.
SeenAfter(s, t) == IF TagOK(s, t) THEN SeenSources \cup {s} ELSE {s}

\* Only when all sources have delivered the tag the expected one advances.
Complete(s, t) ==
  UsesSourceSet(mode) => Cardinality(SeenAfter(s, t)) >= ExpectedSources(mode)

Mismatches(s, t) ==
  Cardinality({k \in {"event", "subevent"} :
                 IF k = "event" THEN EventMismatch(t) ELSE ~TagOK(s, t)})

\* The tag check of one subevent, without its exception.
Checks(s, t) ==
  /\ expected' = IF Syncs THEN t ELSE expected
  /\ synced' = (synced \/ Syncs)
  /\ next' = IF Complete(s, t) THEN t + Stride(mode) ELSE t
  /\ seen' = IF ~UsesSourceSet(mode) THEN seen ELSE
             IF Complete(s, t) THEN {} ELSE SeenAfter(s, t)

Accepted(s, c) ==
  /\ nextCounter' = [nextCounter EXCEPT ![s[2]] = IF check THEN c + 1 ELSE @]
  /\ UNCHANGED <<running, failed>>

Stops(why) == running' = FALSE /\ failed' = why /\ UNCHANGED nextCounter

\* One subevent of source s and tag t, whose blocks start at counter c.  The match throws
\* before the tag moves on; a wrong number of ROC fragments or a counter that does not
\* continue, after it.
Handle(s, t, c) ==
  /\ UNCHANGED <<mode, activeMatch, check, mailbox, keep, starts>>
  /\ mismatches' = mismatches + Mismatches(s, t)
  /\ IF activeMatch /\ ~TagOK(s, t)
     THEN /\ Stops("match")
          /\ next' = NextAfterEvent(t)
          /\ UNCHANGED <<expected, synced, seen>>
     ELSE /\ Checks(s, t)
          /\ \/ Stops("other")
             \/ check /\ ~Continues(s, c) /\ Stops("emulator")
             \/ (check => Continues(s, c)) /\ Accepted(s, c)

-----------------------------------------------------------------------------
(* The traffic                                                              *)

\* The step of a mode's traffic, unless EnableDropDataToEmulateEventBuilding drops all
\* but one event in Skip.
Natural(m) == IF m.evb THEN Cardinality(Own(m)) ELSE 1

Dropped == stream.step # Natural(stream.mode)

StrideFits == Stride(mode) = stream.step

\* The emulator of a source.  In even/odd mode the two DTCs get the events of the same
\* ones in turn.
Emulator(m, s) == IF m.merge = "evenodd" THEN <<0, s[2]>> ELSE s

\* Two emulators with one key.
SharedIds(m) == m.merge = "matching" /\ Peer = Local

Stale == IF mailbox \/ ~StrideFits THEN 1 ELSE 0

MayFault == faults.lost + faults.doubled < MaxFaults

\* In a merged event the subevents of DTC_0 come first.
Due(s) == s \in stream.left /\ (s[1] = 1 => \A r \in stream.left : r[1] = 1)

Taken(s) ==
  /\ stream' = [stream EXCEPT !.left = @ \ {s}]
  /\ counter' = [counter EXCEPT ![Emulator(stream.mode, s)] = @ + 1]

Deliver(s) ==
  /\ running
  /\ Due(s)
  /\ Handle(s, stream.tag, counter[Emulator(stream.mode, s)])
  /\ Taken(s)
  /\ faults' = [faults EXCEPT !.stale = @ + Stale,
                              !.asEvents = @ + IF mode.events THEN 1 ELSE 0]
  /\ UNCHANGED gaps

\* A subevent of the event arrives a second time.
Repeat(s) ==
  /\ running
  /\ ~mailbox
  /\ s \in Sources(stream.mode) \ stream.left /\ stream.tag \notin gaps
  /\ s[1] = 0 => \A r \in Sources(stream.mode) : r[1] = 1 => r \in stream.left
  /\ Handle(s, stream.tag, counter[Emulator(stream.mode, s)] - 1)
  /\ MayFault
  /\ faults' = [faults EXCEPT !.doubled = @ + 1, !.stale = @ + Stale]
  /\ gaps' = gaps \cup {stream.tag}
  /\ UNCHANGED <<stream, counter>>

IsLost ==
  /\ MayFault
  /\ faults' = [faults EXCEPT !.lost = @ + 1]
  /\ gaps' = gaps \cup {stream.tag}

Lose(s) ==
  /\ running
  /\ Due(s) /\ ~stream.mode.events
  /\ IsLost
  /\ Taken(s)
  /\ UNCHANGED <<running, settings, checker, failed, starts>>

MoreEvents ==
  /\ stream.tag < MaxEvents * stream.step
  /\ stream' = [stream EXCEPT !.tag = @ + stream.step, !.left = Sources(stream.mode)]
  /\ UNCHANGED <<running, settings, checker, failed, starts>>

\* The emulators may count the events dropped in between.
NextEvent ==
  /\ running
  /\ stream.left = {}
  /\ MoreEvents
  /\ counter' \in {counter} \cup (IF Dropped THEN {[e \in Source |-> counter[e] + 1]} ELSE {})
  /\ UNCHANGED <<faults, gaps>>

LoseEvent ==
  /\ running
  /\ stream.left = Sources(stream.mode)
  /\ MoreEvents
  /\ IsLost
  /\ counter' = [e \in Source |-> counter[e]
                   + Cardinality({s \in stream.left : Emulator(stream.mode, s) = e})]

-----------------------------------------------------------------------------
(* Start, initDetachedBufferTest and the restart of the thread              *)

\* The traffic of a mode begins at a tag, with all its sources to come.
Begins(m, dropped, t) ==
  /\ stream' = [mode |-> m, step |-> Natural(m) * (IF dropped THEN Skip ELSE 1),
                tag |-> t, left |-> Sources(m)]
  /\ gaps' = {}

\* The fields the start and the restart of a thread reset.
ResetCounters ==
  /\ synced' = FALSE
  /\ seen' = {}
  /\ mismatches' = 0
  /\ nextCounter' = [i \in Ids |-> None]
  /\ faults' = NoFaults

\* A thread is started in a mode, with its prologue.  In EVB mode the traffic need not
\* begin at the tag that was asked for.
Starts(m, dropped) ==
  /\ ~running
  /\ starts < MaxStarts
  /\ running' = TRUE
  /\ mode' = m
  /\ check' \in BOOLEAN
  /\ expected' = 0
  /\ next' = 0
  /\ mailbox' = FALSE
  /\ ResetCounters
  /\ failed' = "no"
  /\ \E t \in IF m.evb THEN {0, Natural(m)} ELSE {0} : Begins(m, dropped, t)
  /\ counter' = [e \in Source |-> 1]
  /\ starts' = starts + 1
  /\ keep' = FALSE

\* BufferTest_detached(Start).  It sets neither skipBy32_ nor the DTC's register that drops
\* events: both stay as the last emulation macro has left them, and another macro may have
\* written the register without this thread.
Start ==
  \E m \in Mode, dropped \in BOOLEAN :
    /\ m.skip = mode.skip
    /\ Starts(m, dropped)
    /\ activeMatch' \in BOOLEAN

\* initDetachedBufferTest without a thread.  The macro sets the register to match.
Launch ==
  \E m \in PlainMode :
    /\ Starts(m, m.skip)
    /\ activeMatch' = FALSE

\* initDetachedBufferTest on a running thread: the mode changes at once, the rest waits
\* for the thread to look at its mailbox.
ReInitialize ==
  /\ running
  /\ starts < MaxStarts
  /\ mode' \in PlainMode
  /\ activeMatch' = FALSE
  /\ check' \in BOOLEAN
  /\ expected' = 0
  /\ mailbox' = TRUE
  /\ keep' \in BOOLEAN
  /\ starts' = starts + 1
  /\ UNCHANGED <<running, checker, failed, traffic, faults>>

\* The restart, between two events.  What is in the buffers is released, and the traffic
\* the macro starts begins at the tag it has announced.  Counters count as far as blocks
\* have been seen: without one they may begin at 1.
Restart ==
  /\ running /\ mailbox
  /\ stream.left \in {{}, Sources(stream.mode)}
  /\ next' = expected
  /\ IF keep
     THEN /\ faults' = [faults EXCEPT !.released = @ + 1]
          /\ UNCHANGED <<synced, seen, nextCounter, mismatches>>
          /\ counter' \in {counter, [e \in Source |-> counter[e] + 1]}
     ELSE /\ ResetCounters
          /\ counter' = [e \in Source |-> 1]
  /\ mailbox' = FALSE /\ keep' = FALSE
  /\ Begins(mode, mode.skip, 0)
  /\ UNCHANGED <<running, mode, activeMatch, check, expected, failed, starts>>

\* BufferTest_detached(Halt)
Halt ==
  /\ running
  /\ running' = FALSE
  /\ UNCHANGED <<settings, checker, failed, traffic, faults, starts>>

Next ==
  \/ \E s \in Source : Deliver(s) \/ Repeat(s) \/ Lose(s)
  \/ NextEvent \/ LoseEvent
  \/ Start \/ Launch \/ ReInitialize \/ Restart \/ Halt

Spec == Init /\ [][Next]_vars

-----------------------------------------------------------------------------
TypeOK ==
  /\ running \in BOOLEAN /\ mode \in Mode
  /\ activeMatch \in BOOLEAN /\ check \in BOOLEAN /\ mailbox \in BOOLEAN /\ keep \in BOOLEAN
  /\ expected \in Nat /\ next \in Nat /\ mismatches \in Nat
  /\ synced \in BOOLEAN /\ seen \subseteq Source
  /\ nextCounter \in [Ids -> Nat \cup {None}]
  /\ failed \in {"no", "match", "emulator", "other"}
  /\ stream \in [mode : Mode, step : Nat \ {0}, tag : Nat, left : SUBSET Source]
  /\ counter \in [Source -> Nat]

\* Every mismatch counted has a cause: a subevent or event lost is counted once at most, a
\* doubled one twice, a subevent handled with other settings than the traffic's once (the
\* old traffic after a re-initialisation, or a stride that a start found set), a restart
\* that keeps the counters once more (it keeps the sources seen, too), and the event mode
\* counts every subevent.  The ROC emulator check ends a run only when blocks were lost,
\* doubled, released, dropped or handled with other settings, or when the two DTCs of a
\* merge have the same id.
AlarmsHaveCauses ==
  /\ mismatches <= faults.lost + 2 * faults.doubled
                     + faults.stale + faults.released + faults.asEvents
  /\ failed = "emulator" =>
       \/ faults.lost + faults.doubled + faults.released + faults.stale > 0
       \/ Dropped \/ SharedIds(stream.mode)

\* No mismatch means that nothing is missing: while none is counted and the stride is the
\* step of the traffic, the tag expected has not moved beyond a tag, from the first one
\* accepted on, of which something was lost or doubled.
SilenceMeansComplete ==
  /\ running /\ ~mailbox /\ StrideFits
  /\ mismatches = 0 /\ faults.released = 0
  => \A t \in gaps : t >= expected => next <= t
=============================================================================
