---------------------------- MODULE DetachedMerge ----------------------------
(***************************************************************************)
(* The merge of a detached buffer test: one thread drains the DMA of DTC_0 *)
(* and, through a borrowed handle, the DMA of DTC_1; it pairs the two      *)
(* halves of every event by their base tag and passes the joined events on *)
(* in the order in which they were completed.  Translated from             *)
(* DTCFrontEndInterfaceImpl.cc: stageDetachedHalf, mergeDetachedEvents,    *)
(* handleMergedDetachedEvents, resetDetachedMergeState and the part of     *)
(* detachedBufferTestThread that calls them.                               *)
(*                                                                         *)
(* The hardware may lose, duplicate, delay or reorder halves, so a drain   *)
(* returns any short sequence of tags from either side.  A half is its     *)
(* tag: nothing the merge decides depends on its payload, except that      *)
(* joining two halves may fail (malformed, too long, corrupt), which is a  *)
(* choice here.                                                            *)
(***************************************************************************)
EXTENDS Integers, Sequences, FiniteSets

CONSTANTS
  Tag,            \* event window tags the two DTCs can deliver
  PairMaxPending, \* pairMaxPending_
  MaxBatch,       \* bound: halves one drain returns from one side
  MaxHalves,      \* bound: halves drained from one side in a run
  NoTag           \* UINT64_MAX in oldestPendingDTC0Tag_ / oldestPendingDTC1Tag_

ASSUME TagAssumption   == Tag \subseteq Nat
ASSUME LimitAssumption == PairMaxPending \in Nat /\ MaxBatch \in Nat

\* Side 0 is DTC_0, the DTC of this front end; side 1 is the borrowed DTC_1.
Side == {0, 1}

VARIABLES
  evenOdd,           \* mergeMode_: TRUE, DTC_0 has the even tags and DTC_1 the odd ones;
                     \* FALSE, both halves of an event carry the same tag
  pc,                \* where the thread is in its loop
  exitThread,        \* exitThread_
  batch,             \* halves the last drain returned and not yet staged, per side
  pending,           \* keys of pendingDTC0_ and pendingDTC1_
  aged,              \* pending halves that have waited longer than pairTimeoutMs_
  haveMergedTag,     \* haveMergedTag_
  lastMergedBaseTag, \* lastMergedBaseTag_
  mergedOut,         \* the vector<MergedDetachedEvent> of this iteration, to be handled
  unmatched,         \* unmatchedDTC0Count_ and unmatchedDTC1Count_
  pendingCount,      \* pendingDTC0Count_ and pendingDTC1Count_, read by the status
  oldestPending,     \* oldestPendingDTC0Tag_ and oldestPendingDTC1Tag_, read by the status
  newest,            \* history: greatest key staged from each side in this run, -1 before any
  drained,           \* history: halves taken out of each DMA in this run
  merged,            \* history: base tags merged in this run; mergedEventsCount_ is its length
  handled            \* history: base tags handed to handleDetachedSubevent in this run

pairing == <<pending, haveMergedTag, lastMergedBaseTag, merged>>
status  == <<unmatched, pendingCount, oldestPending>>
history == <<drained, handled>>
mergeVars == <<evenOdd, pc, exitThread, batch, aged, mergedOut, history, newest, pairing, status>>

\* The base tag under which a half waits for its partner.
BaseTag(s, t) == IF evenOdd /\ s = 1 THEN t - 1 ELSE t

\* The base tags of either mode.
Key == Tag \cup {t - 1 : t \in Tag}

\* mergedEventsCount_
mergedEventsCount == Len(merged)

EmptyBatch == [s \in Side |-> <<>>]

\* The drains of the model: at most MaxBatch halves in any order of tags.
Batch == UNION {[1..n -> Tag] : n \in 0..MaxBatch}

\* begin()->first of a std::map, or UINT64_MAX when it is empty.
Oldest(keys) ==
  IF keys = {} THEN NoTag ELSE CHOOSE k \in keys : \A j \in keys : k <= j

NothingPending == [s \in Side |-> {}]
NothingCounted == [s \in Side |-> 0]

MergeInit ==
  /\ evenOdd \in BOOLEAN
  /\ pc = "drain"
  /\ exitThread = FALSE
  /\ batch = EmptyBatch
  /\ pending = NothingPending
  /\ aged = NothingPending
  /\ haveMergedTag = FALSE
  /\ lastMergedBaseTag = 0
  /\ mergedOut = <<>>
  /\ unmatched = NothingCounted
  /\ pendingCount = NothingCounted
  /\ oldestPending = [s \in Side |-> NoTag]
  /\ newest = [s \in Side |-> -1]
  /\ drained = NothingCounted
  /\ merged = <<>>
  /\ handled = <<>>

-----------------------------------------------------------------------------
(* The loop of the thread                                                   *)

\* The loop ends at its top, before anything is read.
Exit ==
  /\ pc = "drain"
  /\ exitThread
  /\ pc' = "exited"
  /\ UNCHANGED <<evenOdd, exitThread, batch, aged, mergedOut, history, newest, pairing, status>>

\* Both DMAs are drained without waiting; an idle iteration gets nothing from either.
Drain ==
  /\ pc = "drain"
  /\ ~exitThread
  /\ \E b0, b1 \in Batch :
       /\ batch' = [s \in Side |-> IF s = 0 THEN b0 ELSE b1]
       /\ drained' = [s \in Side |-> drained[s] + Len(batch'[s])]
       /\ \A s \in Side : drained'[s] <= MaxHalves
  /\ pc' = "stage"
  /\ UNCHANGED <<evenOdd, exitThread, aged, mergedOut, handled, newest, pairing, status>>

-----------------------------------------------------------------------------
(* stageDetachedHalf                                                        *)

\* Every half of DTC_0 is staged before the first half of DTC_1.
Staging(s) ==
  /\ pc = "stage"
  /\ batch[s] # <<>>
  /\ s = 1 => batch[0] = <<>>

StagedTag(s) == Head(batch[s])
StagedKey(s) == BaseTag(s, StagedTag(s))

Unstage(s) ==
  /\ batch' = [batch EXCEPT ![s] = Tail(@)]
  /\ newest' = [newest EXCEPT ![s] = IF StagedKey(s) > @ THEN StagedKey(s) ELSE @]

\* Mutant: the parity is not checked.
WrongParityUnchecked(s) == FALSE

WrongParity(s) == evenOdd /\ StagedTag(s) % 2 # s

\* The merge order has moved past this base tag.
Passed(k) == haveMergedTag /\ k <= lastMergedBaseTag

\* Mutant: no check of the merge order.
CanNeverPairUnordered(s) == WrongParity(s) \/ StagedKey(s) \in pending[s]

CanNeverPair(s) ==
  WrongParity(s) \/ Passed(StagedKey(s)) \/ StagedKey(s) \in pending[s]

\* An exception leaves the loop: the events merged by this call are in a local
\* vector and go with it, and so does what is left of the drained batches.
Abort ==
  /\ pc' = "aborted"
  /\ batch' = EmptyBatch
  /\ mergedOut' = <<>>

StageAbort(s) ==
  /\ Staging(s)
  /\ CanNeverPair(s)
  /\ unmatched' = [unmatched EXCEPT ![s] = @ + 1]
  /\ Abort
  /\ UNCHANGED <<evenOdd, exitThread, aged, history, newest, pendingCount, oldestPending, pairing>>

\* Mutant: only a half of DTC_1 looks for its partner.
PartnerWaitsFrom0(s) == s = 1 /\ StagedKey(s) \in pending[1 - s]

PartnerWaits(s) == StagedKey(s) \in pending[1 - s]

StagePark(s) ==
  /\ Staging(s)
  /\ ~CanNeverPair(s)
  /\ ~PartnerWaits(s)
  /\ pending' = [pending EXCEPT ![s] = @ \cup {StagedKey(s)}]
  /\ Unstage(s)
  /\ UNCHANGED <<evenOdd, pc, exitThread, aged, mergedOut, history, haveMergedTag,
                 lastMergedBaseTag, merged, status>>

\* Mutant: the partner is left in its map.
PartnerNotErased(s) == pending

\* What is left on the other side once the partner has been used.
WithoutPartner(s) == [pending EXCEPT ![1 - s] = @ \ {StagedKey(s)}]

StageMerge(s) ==
  /\ Staging(s)
  /\ ~CanNeverPair(s)
  /\ PartnerWaits(s)
  /\ pending' = WithoutPartner(s)
  /\ aged' = [aged EXCEPT ![1 - s] = @ \ {StagedKey(s)}]
  /\ lastMergedBaseTag' = StagedKey(s)
  /\ haveMergedTag' = TRUE
  /\ merged' = Append(merged, StagedKey(s))
  /\ mergedOut' = Append(mergedOut, StagedKey(s))
  /\ Unstage(s)
  /\ UNCHANGED <<evenOdd, pc, exitThread, history, status>>

\* buildMergedDetachedEvent throws: the partner stays where it was.
StageBuildFails(s) ==
  /\ Staging(s)
  /\ ~CanNeverPair(s)
  /\ PartnerWaits(s)
  /\ Abort
  /\ UNCHANGED <<evenOdd, exitThread, aged, history, newest, pairing, status>>

StageDone ==
  /\ pc = "stage"
  /\ batch = EmptyBatch
  /\ pc' = "scan"
  /\ UNCHANGED <<evenOdd, exitThread, batch, aged, mergedOut, history, newest, pairing, status>>

-----------------------------------------------------------------------------
(* The scan at the end of mergeDetachedEvents                               *)

\* Time passes: a waiting half becomes older than pairTimeoutMs_.
GrowOld(s, k) ==
  /\ k \in pending[s] \ aged[s]
  /\ aged' = [aged EXCEPT ![s] = @ \cup {k}]
  /\ UNCHANGED <<evenOdd, pc, exitThread, batch, mergedOut, history, newest, pairing, status>>

\* Mutant: only the oldest half of DTC_0 is looked at.
TimedOutOnSide0 == aged[0] # {}

TimedOut == \E s \in Side : aged[s] # {}
Overflow == \E s \in Side : Cardinality(pending[s]) > PairMaxPending

ScanFails ==
  /\ pc = "scan"
  /\ TimedOut \/ Overflow
  /\ unmatched' = [s \in Side |-> Cardinality(pending[s])]
  /\ Abort
  /\ UNCHANGED <<evenOdd, exitThread, aged, history, newest, pendingCount, oldestPending, pairing>>

\* What the status functions see of the pending halves.
Publish ==
  /\ pendingCount' = [s \in Side |-> Cardinality(pending[s])]
  /\ oldestPending' = [s \in Side |-> Oldest(pending[s])]

ScanPasses ==
  /\ pc = "scan"
  /\ ~TimedOut
  /\ ~Overflow
  /\ Publish
  /\ pc' = IF mergedOut = <<>> THEN "drain" ELSE "handle"
  /\ UNCHANGED <<evenOdd, exitThread, batch, aged, mergedOut, history, newest, unmatched, pairing>>

-----------------------------------------------------------------------------
(* handleMergedDetachedEvents                                               *)

\* The halt is looked at before each event: the rest of the batch is dropped.
HandleStops ==
  /\ pc = "handle"
  /\ exitThread
  /\ mergedOut' = <<>>
  /\ pc' = "drain"
  /\ UNCHANGED <<evenOdd, exitThread, batch, aged, history, newest, pairing, status>>

HandleEvent ==
  /\ pc = "handle"
  /\ ~exitThread
  /\ handled' = Append(handled, Head(mergedOut))
  /\ mergedOut' = Tail(mergedOut)
  /\ pc' = IF Tail(mergedOut) = <<>> THEN "drain" ELSE "handle"
  /\ UNCHANGED <<evenOdd, exitThread, batch, aged, drained, newest, pairing, status>>

\* Corrupt event, or handleDetachedSubevent throws (tag mismatch with active
\* match, wrong number of ROC fragments).
HandleThrows ==
  /\ pc = "handle"
  /\ ~exitThread
  /\ Abort
  /\ UNCHANGED <<evenOdd, exitThread, aged, history, newest, pairing, status>>

-----------------------------------------------------------------------------
(* The operator                                                             *)

\* BufferTest_detached(Halt)
HaltTest ==
  /\ ~exitThread
  /\ exitThread' = TRUE
  /\ UNCHANGED <<evenOdd, pc, batch, aged, mergedOut, history, newest, pairing, status>>

\* Mutant: the order of the last run is kept, as the tags are not.
ResetKeepsOrder ==
  /\ pending' = NothingPending
  /\ aged' = NothingPending
  /\ merged' = <<>>
  /\ unmatched' = NothingCounted
  /\ pendingCount' = NothingCounted
  /\ oldestPending' = [s \in Side |-> NoTag]
  /\ UNCHANGED <<haveMergedTag, lastMergedBaseTag>>

\* Everything one run of the merge leaves behind.
ResetDetachedMergeState ==
  /\ pending' = NothingPending
  /\ aged' = NothingPending
  /\ haveMergedTag' = FALSE
  /\ lastMergedBaseTag' = 0
  /\ merged' = <<>>
  /\ unmatched' = NothingCounted
  /\ pendingCount' = NothingCounted
  /\ oldestPending' = [s \in Side |-> NoTag]

\* BufferTest_detached(Start) once the thread is gone; the new thread calls
\* resetDetachedMergeState before its loop.
StartTest ==
  /\ pc \in {"exited", "aborted"}
  /\ evenOdd' \in BOOLEAN
  /\ pc' = "drain"
  /\ exitThread' = FALSE
  /\ batch' = EmptyBatch
  /\ mergedOut' = <<>>
  /\ newest' = [s \in Side |-> -1]
  /\ drained' = NothingCounted
  /\ handled' = <<>>
  /\ ResetDetachedMergeState

Thread ==
  \/ Exit \/ Drain
  \/ \E s \in Side :
       StageAbort(s) \/ StagePark(s) \/ StageMerge(s) \/ StageBuildFails(s)
  \/ StageDone \/ ScanFails \/ ScanPasses
  \/ HandleStops \/ HandleEvent \/ HandleThrows

MergeNext ==
  \/ Thread
  \/ \E s \in Side, k \in Key : GrowOld(s, k)
  \/ HaltTest
  \/ StartTest

MergeSpec == MergeInit /\ [][MergeNext]_mergeVars

\* The thread is scheduled, and time passes for every half that keeps waiting.
MergeFairSpec ==
  /\ MergeSpec
  /\ WF_mergeVars(Thread)
  /\ \A s \in Side, k \in Key : WF_mergeVars(GrowOld(s, k))

-----------------------------------------------------------------------------
MergeTypeOK ==
  /\ evenOdd \in BOOLEAN
  /\ pc \in {"drain", "stage", "scan", "handle", "aborted", "exited"}
  /\ exitThread \in BOOLEAN
  /\ batch \in [Side -> Seq(Tag)]
  /\ pending \in [Side -> SUBSET Key]
  /\ aged \in [Side -> SUBSET Key]
  /\ haveMergedTag \in BOOLEAN
  /\ lastMergedBaseTag \in Key \cup {0}
  /\ mergedOut \in Seq(Key)
  /\ unmatched \in [Side -> Nat]
  /\ pendingCount \in [Side -> Nat]
  /\ oldestPending \in [Side -> Key \cup {NoTag}]
  /\ newest \in [Side -> Int]
  /\ drained \in [Side -> Nat]
  /\ merged \in Seq(Key)
  /\ handled \in Seq(Key)

InLoop == pc \in {"drain", "stage", "scan", "handle"}

\* Events leave the merge in strictly increasing order of base tag, whatever
\* the two DTCs deliver: no event is produced twice and none after a later one
\* ("was already merged or passed" in stageDetachedHalf).
MergedInOrder ==
  \A i, j \in 1..Len(merged) : i < j => merged[i] < merged[j]

\* Even/odd windows: a merged event is always window 2n of DTC_0 with window 2n + 1
\* of DTC_1, never 2n + 1 with 2n + 2, even when a link delivers the wrong windows.
EvenWithNextOdd == evenOdd => \A i \in 1..Len(merged) : merged[i] % 2 = 0

\* Two halves of one event never both wait: the second to arrive meets the first.
PairsNeverWait == pending[0] \cap pending[1] = {}

\* No half is lost or used twice while the run goes on: what was drained from a
\* side is still in the batch, waits for its partner, or is half of a merged event.
HalvesConserved ==
  InLoop => \A s \in Side :
    drained[s] = Len(batch[s]) + Cardinality(pending[s]) + mergedEventsCount

\* The events handled are the events merged, in that order and without a gap;
\* only a halt or an abort drops merged events, and then always a suffix.
HandledFollowsMerged ==
  /\ Len(handled) <= Len(merged)
  /\ \A i \in 1..Len(handled) : handled[i] = merged[i]
  /\ pc = "drain" /\ ~exitThread => handled = merged

\* A half is rejected when it is staged only if its DTC really misbehaved: it has
\* the other DTC's parity, or its own side has delivered this tag or a later one
\* before.  Losses, and any interleaving of two ordered streams, are no reason.
RejectsOnlyDisorder ==
  [][\A s \in Side : StageAbort(s) => WrongParity(s) \/ StagedKey(s) <= newest[s]]_mergeVars

\* A half the merge order has passed can never pair, and nothing rejects it:
\* only its age ends the run ("a half that waited too long ... ends the run").
PassedHalfEndsRun ==
  \A s \in Side, k \in Key :
    (k \in pending[s] /\ Passed(k)) ~> pc \in {"aborted", "exited"}
=============================================================================
