------------------------ MODULE BufferTestDataProofs ------------------------
(***************************************************************************)
(* Proofs about the data of the detached buffer test, first the merge of   *)
(* the two threads' halves (DetachedMerge), then the checks of one         *)
(* thread's subevents (SubeventChecks).  The two share nothing but this    *)
(* module: the merge's specification is MergeSpec, the checks' is Spec.    *)
(***************************************************************************)
EXTENDS DetachedMerge, SubeventChecks, FiniteSetTheorems, WellFoundedInduction, TLAPS

---------------------------------------------------------------------------
(***************************************************************************)
(* Proofs about DetachedMerge for every set of tags, both merge modes and  *)
(* every limit: the pairing invariants, and that only a disordered stream  *)
(* is ever rejected.                                                       *)
(***************************************************************************)

\* The order of the merge: lastMergedBaseTag_ is the tag merged last, and no side
\* has been merged, or kept waiting, beyond what it has delivered.
OrderKnown ==
  /\ haveMergedTag => merged # <<>> /\ lastMergedBaseTag = merged[Len(merged)]
  /\ ~haveMergedTag => merged = <<>>
  /\ haveMergedTag => \A s \in Side : lastMergedBaseTag <= newest[s]
  /\ \A s \in Side : \A k \in pending[s] : k <= newest[s]

\* Between the drain and the end of the handling, what was merged is what was
\* handled followed by what is still to be handled.
ToHandle ==
  /\ pc \in {"stage", "scan", "handle"} =>
       /\ Len(merged) = Len(handled) + Len(mergedOut)
       /\ \A i \in 1..Len(mergedOut) : merged[Len(handled) + i] = mergedOut[i]
  /\ pc = "handle" => mergedOut # <<>>
  /\ pc = "drain" => mergedOut = <<>> /\ batch = EmptyBatch
  /\ pc \in {"scan", "handle"} => batch = EmptyBatch

PendingFinite == \A s \in Side : IsFiniteSet(pending[s])

IInv ==
  /\ MergeTypeOK
  /\ PendingFinite
  /\ PairsNeverWait
  /\ HalvesConserved
  /\ OrderKnown
  /\ MergedInOrder
  /\ ToHandle
  /\ HandledFollowsMerged

-----------------------------------------------------------------------------
\* The keys of the pending maps are integers, none below -1.
LEMMA KeyIsInt == Key \subseteq {k \in Int : k >= -1}
<1> SUFFICES ASSUME NEW t \in Tag
             PROVE  t \in Int /\ t - 1 \in Int /\ t >= -1 /\ t - 1 >= -1
  BY DEF Key
<1>1. t \in Nat
  BY TagAssumption
<1>2. QED BY <1>1

\* A tag of either side has its key among the keys.
LEMMA BaseTagInKey == \A s \in Side, t \in Tag : BaseTag(s, t) \in Key
<1> SUFFICES ASSUME NEW s \in Side, NEW t \in Tag
             PROVE  BaseTag(s, t) \in Key
  OBVIOUS
<1>1. BaseTag(s, t) = t \/ BaseTag(s, t) = t - 1
  BY DEF BaseTag
<1>2. QED BY <1>1 DEF Key

\* The oldest pending tag published is a key, or the mark of an empty map.
LEMMA OldestType ==
  ASSUME NEW keys \in SUBSET Key
  PROVE  Oldest(keys) \in Key \cup {NoTag}
<1>1. CASE keys = {}
  BY <1>1 DEF Oldest
<1>2. CASE keys # {}
  <2> DEFINE Shifted == {k + 1 : k \in keys}
  <2>1. Shifted \subseteq Nat /\ Shifted # {}
    <3>1. \A k \in keys : k \in Int /\ k + 1 >= 0
      BY KeyIsInt
    <3>2. QED BY <3>1, <1>2
  <2>2. PICK m \in Shifted : \A n \in Shifted : ~ (<<n, m>> \in OpToRel(<, Nat))
    <3> HIDE DEF Shifted
    <3>1. QED BY <2>1, WFMin, NatLessThanWellFounded
  <2>3. \A n \in Shifted : ~ (n < m)
    BY <2>1, <2>2 DEF OpToRel
  <2>4. \E k \in keys : \A j \in keys : k <= j
    BY <2>1, <2>3, KeyIsInt
  <2>5. QED BY <1>2, <2>4 DEF Oldest
<1>3. QED BY <1>1, <1>2

-----------------------------------------------------------------------------
(* Type correctness                                                         *)

LEMMA TypeInit == MergeInit => MergeTypeOK
<1> SUFFICES ASSUME MergeInit PROVE MergeTypeOK
  OBVIOUS
<1>1. batch \in [Side -> Seq(Tag)]
  BY DEF MergeInit, EmptyBatch
<1>2. merged \in Seq(Key) /\ mergedOut \in Seq(Key) /\ handled \in Seq(Key)
  BY DEF MergeInit
<1>3. newest \in [Side -> Int]
  BY DEF MergeInit
<1>4. QED
  BY <1>1, <1>2, <1>3 DEF MergeInit, MergeTypeOK, NothingPending, NothingCounted

\* An abort empties the local vectors and nothing else.
LEMMA AbortType ==
  ASSUME Abort
  PROVE  /\ pc' = "aborted"
         /\ batch' \in [Side -> Seq(Tag)]
         /\ mergedOut' \in Seq(Key)
BY DEF Abort, EmptyBatch

\* The half being staged is a tag, and its key is one of the keys.
LEMMA StagedType ==
  ASSUME MergeTypeOK, NEW s \in Side, Staging(s)
  PROVE  /\ StagedTag(s) \in Tag
         /\ StagedKey(s) \in Key
         /\ 1 - s \in Side
         /\ Tail(batch[s]) \in Seq(Tag)
<1>1. batch[s] \in Seq(Tag) /\ batch[s] # <<>>
  BY DEF MergeTypeOK, Staging
<1>2. StagedTag(s) \in Tag
  BY <1>1 DEF StagedTag
<1>3. QED
  BY <1>1, <1>2, BaseTagInKey DEF StagedKey, Side

\* What a drain returns is a sequence of tags.
LEMMA BatchType == Batch \subseteq Seq(Tag)
<1> SUFFICES ASSUME NEW n \in 0..MaxBatch, NEW b \in [1..n -> Tag]
             PROVE  b \in Seq(Tag)
  BY DEF Batch
<1>1. n \in Nat
  BY LimitAssumption
<1>2. QED BY <1>1

LEMMA TypeStep == MergeTypeOK /\ PendingFinite /\ ToHandle /\ [MergeNext]_mergeVars => MergeTypeOK'
<1> SUFFICES ASSUME MergeTypeOK, PendingFinite, ToHandle, [MergeNext]_mergeVars
             PROVE  MergeTypeOK'
  OBVIOUS
<1> USE DEF MergeTypeOK, pairing, status, history
<1>1. CASE Exit BY <1>1 DEF Exit
<1>2. CASE Drain
  <2>1. PICK b0, b1 \in Batch :
          /\ batch' = [s \in Side |-> IF s = 0 THEN b0 ELSE b1]
          /\ drained' = [s \in Side |-> drained[s] + Len(batch'[s])]
    BY <1>2 DEF Drain
  <2>2. b0 \in Seq(Tag) /\ b1 \in Seq(Tag)
    BY BatchType
  <2>3. batch' \in [Side -> Seq(Tag)]
    BY <2>1, <2>2
  <2>4. drained' \in [Side -> Nat]
    BY <2>1, <2>3
  <2>5. QED BY <1>2, <2>3, <2>4 DEF Drain
<1>3. ASSUME NEW s \in Side, StageAbort(s) PROVE MergeTypeOK'
  <2>1. unmatched' \in [Side -> Nat]
    BY <1>3 DEF StageAbort
  <2>2. QED BY <1>3, <2>1, AbortType DEF StageAbort
<1>4. ASSUME NEW s \in Side, StagePark(s) PROVE MergeTypeOK'
  <2>1. /\ StagedKey(s) \in Key
        /\ StagedKey(s) \in Int
        /\ Tail(batch[s]) \in Seq(Tag)
    BY <1>4, StagedType, KeyIsInt DEF StagePark
  <2>2. batch' \in [Side -> Seq(Tag)] /\ newest' \in [Side -> Int]
    BY <1>4, <2>1 DEF StagePark, Unstage
  <2>3. pending' \in [Side -> SUBSET Key]
    BY <1>4, <2>1 DEF StagePark
  <2>4. QED BY <1>4, <2>2, <2>3 DEF StagePark
<1>5. ASSUME NEW s \in Side, StageMerge(s) PROVE MergeTypeOK'
  <2>1. /\ StagedKey(s) \in Key
        /\ StagedKey(s) \in Int
        /\ 1 - s \in Side
        /\ Tail(batch[s]) \in Seq(Tag)
    BY <1>5, StagedType, KeyIsInt DEF StageMerge
  <2>2. batch' \in [Side -> Seq(Tag)] /\ newest' \in [Side -> Int]
    BY <1>5, <2>1 DEF StageMerge, Unstage
  <2>3. pending' \in [Side -> SUBSET Key] /\ aged' \in [Side -> SUBSET Key]
    BY <1>5, <2>1 DEF StageMerge, WithoutPartner
  <2>4. merged' \in Seq(Key) /\ mergedOut' \in Seq(Key)
    BY <1>5, <2>1 DEF StageMerge
  <2>5. QED BY <1>5, <2>1, <2>2, <2>3, <2>4 DEF StageMerge
<1>6. ASSUME NEW s \in Side, StageBuildFails(s) PROVE MergeTypeOK'
  BY <1>6, AbortType DEF StageBuildFails
<1>7. CASE StageDone BY <1>7 DEF StageDone
<1>8. CASE ScanFails
  <2>1. unmatched' \in [Side -> Nat]
    BY <1>8, FS_CardinalityType DEF ScanFails, PendingFinite
  <2>2. QED BY <1>8, <2>1, AbortType DEF ScanFails
<1>9. CASE ScanPasses
  <2>1. pendingCount' \in [Side -> Nat]
    BY <1>9, FS_CardinalityType DEF ScanPasses, Publish, PendingFinite
  <2>2. oldestPending' \in [Side -> Key \cup {NoTag}]
    BY <1>9, OldestType DEF ScanPasses, Publish
  <2>3. QED BY <1>9, <2>1, <2>2 DEF ScanPasses
<1>10. CASE HandleStops BY <1>10 DEF HandleStops
<1>11. CASE HandleEvent
  <2>1. pc = "handle" /\ mergedOut # <<>> /\ ~exitThread
    BY <1>11 DEF HandleEvent, ToHandle
  <2>2. Head(mergedOut) \in Key /\ Tail(mergedOut) \in Seq(Key)
    BY <2>1
  <2>3. QED BY <1>11, <2>2 DEF HandleEvent
<1>12. CASE HandleThrows BY <1>12, AbortType DEF HandleThrows
<1>13. ASSUME NEW s \in Side, NEW k \in Key, GrowOld(s, k) PROVE MergeTypeOK'
  BY <1>13 DEF GrowOld
<1>14. CASE HaltTest BY <1>14 DEF HaltTest
<1>15. CASE StartTest
  <2>1. batch' \in [Side -> Seq(Tag)] /\ newest' \in [Side -> Int]
    BY <1>15 DEF StartTest, EmptyBatch
  <2>2. merged' \in Seq(Key) /\ mergedOut' \in Seq(Key) /\ handled' \in Seq(Key)
    BY <1>15 DEF StartTest, ResetDetachedMergeState
  <2>3. QED
    BY <1>15, <2>1, <2>2
    DEF StartTest, ResetDetachedMergeState, NothingPending, NothingCounted
<1>16. CASE UNCHANGED mergeVars BY <1>16 DEF mergeVars
<1>17. QED
  BY <1>1, <1>2, <1>3, <1>4, <1>5, <1>6, <1>7, <1>8, <1>9, <1>10, <1>11, <1>12,
     <1>13, <1>14, <1>15, <1>16 DEF MergeNext, Thread

-----------------------------------------------------------------------------
(* The pairing                                                              *)

\* Only the staging of a half, and a new run, change the pairing.
LEMMA PairingChanges ==
  ASSUME [MergeNext]_mergeVars
  PROVE  \/ UNCHANGED <<pairing, newest>>
         \/ \E s \in Side : StagePark(s)
         \/ \E s \in Side : StageMerge(s)
         \/ StartTest
BY DEF MergeNext, Thread, mergeVars, Exit, Drain, StageAbort, StageBuildFails, StageDone, GrowOld,
       ScanFails, ScanPasses, HandleStops, HandleEvent, HandleThrows, HaltTest

LEMMA PendingFiniteStep ==
  ASSUME MergeTypeOK, PendingFinite, [MergeNext]_mergeVars
  PROVE  PendingFinite'
<1>1. CASE UNCHANGED <<pairing, newest>>
  BY <1>1 DEF pairing, PendingFinite
<1>2. ASSUME NEW s \in Side, StagePark(s) PROVE PendingFinite'
  BY <1>2, FS_AddElement DEF StagePark, PendingFinite, MergeTypeOK
<1>3. ASSUME NEW s \in Side, StageMerge(s) PROVE PendingFinite'
  BY <1>3, FS_RemoveElement DEF StageMerge, WithoutPartner, PendingFinite, MergeTypeOK
<1>4. CASE StartTest
  BY <1>4, FS_EmptySet DEF StartTest, ResetDetachedMergeState, NothingPending, PendingFinite
<1>5. QED BY <1>1, <1>2, <1>3, <1>4, PairingChanges

LEMMA PairsNeverWaitStep ==
  ASSUME MergeTypeOK, PairsNeverWait, [MergeNext]_mergeVars
  PROVE  PairsNeverWait'
<1>1. CASE UNCHANGED <<pairing, newest>>
  BY <1>1 DEF pairing, PairsNeverWait
<1>2. ASSUME NEW s \in Side, StagePark(s) PROVE PairsNeverWait'
  <2>1. StagedKey(s) \notin pending[1 - s]
    BY <1>2 DEF StagePark, PartnerWaits
  <2>2. pending'[s] = pending[s] \cup {StagedKey(s)} /\ pending'[1 - s] = pending[1 - s]
    BY <1>2 DEF StagePark, MergeTypeOK, Side
  <2>3. pending'[s] \cap pending'[1 - s] = {}
    BY <2>1, <2>2 DEF PairsNeverWait, Side
  <2>4. QED BY <2>3 DEF PairsNeverWait, Side
<1>3. ASSUME NEW s \in Side, StageMerge(s) PROVE PairsNeverWait'
  BY <1>3 DEF StageMerge, WithoutPartner, PairsNeverWait, MergeTypeOK, Side
<1>4. CASE StartTest
  BY <1>4 DEF StartTest, ResetDetachedMergeState, NothingPending, PairsNeverWait, Side
<1>5. QED BY <1>1, <1>2, <1>3, <1>4, PairingChanges

\* A half accepted for staging lies beyond the merge order.
LEMMA AcceptedIsNew ==
  ASSUME MergeTypeOK, NEW s \in Side, Staging(s), ~CanNeverPair(s)
  PROVE  /\ StagedKey(s) \in Int
         /\ haveMergedTag => lastMergedBaseTag < StagedKey(s)
<1>1. StagedKey(s) \in Int
  BY StagedType, KeyIsInt
<1>2. lastMergedBaseTag \in Int
  BY KeyIsInt DEF MergeTypeOK
<1>3. QED BY <1>1, <1>2 DEF CanNeverPair, Passed

LEMMA OrderStep ==
  ASSUME MergeTypeOK, OrderKnown, MergedInOrder, [MergeNext]_mergeVars
  PROVE  OrderKnown' /\ MergedInOrder'
<1>1. CASE UNCHANGED <<pairing, newest>>
  BY <1>1 DEF pairing, OrderKnown, MergedInOrder
<1>2. ASSUME NEW s \in Side, StagePark(s) PROVE OrderKnown' /\ MergedInOrder'
  <2> DEFINE k == StagedKey(s)
  <2>1. k \in Int /\ newest \in [Side -> Int] /\ lastMergedBaseTag \in Int
    BY <1>2, AcceptedIsNew, KeyIsInt DEF StagePark, MergeTypeOK
  <2>2. newest' = [newest EXCEPT ![s] = IF k > @ THEN k ELSE @]
    BY <1>2 DEF StagePark, Unstage
  <2>3. k <= newest'[s] /\ \A r \in Side : newest[r] <= newest'[r]
    BY <2>1, <2>2
  <2>4. \A r \in Side : \A j \in pending'[r] : j <= newest'[r]
    <3> SUFFICES ASSUME NEW r \in Side, NEW j \in pending'[r] PROVE j <= newest'[r]
      OBVIOUS
    <3>1. CASE j \in pending[r]
      <4>1. j \in Int /\ newest[r] \in Int /\ newest'[r] \in Int
        BY <3>1, <2>1, <2>2, KeyIsInt DEF MergeTypeOK
      <4>2. QED BY <3>1, <4>1, <2>3 DEF OrderKnown
    <3>2. CASE j \notin pending[r]
      BY <3>2, <1>2, <2>3 DEF StagePark, MergeTypeOK
    <3>3. QED BY <3>1, <3>2
  <2>5. \A r \in Side : newest'[r] \in Int /\ newest[r] \in Int
    BY <2>1, <2>2
  <2>6. haveMergedTag => \A r \in Side : lastMergedBaseTag <= newest'[r]
    BY <2>1, <2>3, <2>5 DEF OrderKnown
  <2>7. QED BY <1>2, <2>4, <2>6 DEF StagePark, OrderKnown, MergedInOrder
<1>3. ASSUME NEW s \in Side, StageMerge(s) PROVE OrderKnown' /\ MergedInOrder'
  <2> DEFINE k == StagedKey(s)
  <2>1. /\ k \in Int /\ k \in Key
        /\ newest \in [Side -> Int]
        /\ haveMergedTag => lastMergedBaseTag < k
    BY <1>3, AcceptedIsNew, StagedType DEF StageMerge, MergeTypeOK
  <2>2. newest' = [newest EXCEPT ![s] = IF k > @ THEN k ELSE @]
    BY <1>3 DEF StageMerge, Unstage
  <2>3. \A r \in Side : /\ newest[r] \in Int /\ newest'[r] \in Int
                        /\ newest[r] <= newest'[r]
                        /\ r = s => k <= newest'[r]
    BY <2>1, <2>2
  <2>4. \A r \in Side : k <= newest'[r]
    <3>1. k <= newest[1 - s] /\ 1 - s \in Side
      BY <1>3 DEF StageMerge, PartnerWaits, OrderKnown, Side
    <3>2. \A r \in Side : r = s \/ r = 1 - s
      BY DEF Side
    <3>3. QED BY <2>1, <2>3, <3>1, <3>2
  <2>5. \A r \in Side : \A j \in pending'[r] : j <= newest'[r]
    <3> SUFFICES ASSUME NEW r \in Side, NEW j \in pending'[r] PROVE j <= newest'[r]
      OBVIOUS
    <3>1. j \in pending[r]
      BY <1>3 DEF StageMerge, WithoutPartner, MergeTypeOK
    <3>2. j \in Int
      BY <3>1, KeyIsInt DEF MergeTypeOK
    <3>3. QED BY <2>3, <3>1, <3>2 DEF OrderKnown
  <2>6. /\ merged' = Append(merged, k) /\ merged \in Seq(Key)
        /\ haveMergedTag' /\ lastMergedBaseTag' = k
    BY <1>3 DEF StageMerge, MergeTypeOK
  <2>7. /\ Len(merged') = Len(merged) + 1
        /\ merged'[Len(merged) + 1] = k
        /\ \A i \in 1..Len(merged) : merged'[i] = merged[i] /\ merged[i] \in Int
    <3>1. \A i \in 1..Len(merged) : merged[i] \in Key
      BY <2>6
    <3>2. \A i \in 1..Len(merged) : merged[i] \in Int
      BY <3>1, KeyIsInt
    <3>3. QED BY <2>6, <3>2
  <2>8. OrderKnown'
    BY <2>4, <2>5, <2>6, <2>7 DEF OrderKnown
  <2>9. \A i \in 1..Len(merged) : merged[i] < k
    <3> SUFFICES ASSUME NEW i \in 1..Len(merged) PROVE merged[i] < k
      OBVIOUS
    <3>1. /\ haveMergedTag
          /\ lastMergedBaseTag = merged[Len(merged)]
          /\ Len(merged) \in 1..Len(merged)
      BY <2>6 DEF OrderKnown
    <3>2. i = Len(merged) \/ merged[i] < merged[Len(merged)]
      BY <3>1 DEF MergedInOrder
    <3>3. QED BY <2>1, <2>7, <3>1, <3>2
  <2>10. MergedInOrder'
    <3> SUFFICES ASSUME NEW i \in 1..Len(merged'), NEW j \in 1..Len(merged'), i < j
                 PROVE  merged'[i] < merged'[j]
      BY DEF MergedInOrder
    <3>1. Len(merged) \in Nat /\ i \in 1..Len(merged)
      BY <2>6, <2>7
    <3>2. CASE j = Len(merged) + 1
      BY <3>1, <3>2, <2>7, <2>9
    <3>3. CASE j # Len(merged) + 1
      BY <3>1, <3>3, <2>7 DEF MergedInOrder
    <3>4. QED BY <3>2, <3>3
  <2>11. QED BY <2>8, <2>10
<1>4. CASE StartTest
  BY <1>4 DEF StartTest, ResetDetachedMergeState, NothingPending, OrderKnown, MergedInOrder
<1>5. QED BY <1>1, <1>2, <1>3, <1>4, PairingChanges

-----------------------------------------------------------------------------
(* What is handled                                                          *)

\* A sequence of the same length with the same elements is the same sequence.
LEMMA SameSequence ==
  ASSUME NEW S, NEW a \in Seq(S), NEW b \in Seq(S), Len(a) = Len(b),
         \A i \in 1..Len(a) : a[i] = b[i]
  PROVE  a = b
OBVIOUS

HandlingInv == MergeTypeOK /\ ToHandle /\ HandledFollowsMerged

LEMMA MergeHandling ==
  ASSUME HandlingInv, NEW s \in Side, StageMerge(s)
  PROVE  ToHandle' /\ HandledFollowsMerged'
<1> DEFINE k == StagedKey(s)
<1>1. /\ merged' = Append(merged, k) /\ mergedOut' = Append(mergedOut, k)
      /\ handled' = handled /\ pc' = "stage" /\ pc = "stage"
  BY DEF StageMerge, Staging, history
<1>2. merged \in Seq(Key) /\ mergedOut \in Seq(Key) /\ handled \in Seq(Key) /\ k \in Key
  BY StagedType DEF HandlingInv, MergeTypeOK, StageMerge
<1>3. /\ Len(merged) = Len(handled) + Len(mergedOut)
      /\ \A i \in 1..Len(mergedOut) : merged[Len(handled) + i] = mergedOut[i]
  BY <1>1 DEF HandlingInv, ToHandle
<1> HIDE DEF k
<1>4. Len(merged') = Len(merged) + 1 /\ Len(mergedOut') = Len(mergedOut) + 1
  BY <1>1, <1>2
<1>7. Len(merged) \in Nat /\ Len(mergedOut) \in Nat /\ Len(handled) \in Nat
  BY <1>2
<1>8. merged'[Len(merged) + 1] = k /\ mergedOut'[Len(mergedOut) + 1] = k
  BY <1>1, <1>2
<1>9. ASSUME NEW i \in 1..Len(mergedOut')
      PROVE  merged'[Len(handled) + i] = mergedOut'[i]
  <2>1. CASE i = Len(mergedOut) + 1
    <3>1. Len(handled) + i = Len(merged) + 1
      BY <1>3, <1>7, <2>1
    <3> QED
      BY <1>8, <2>1, <3>1
  <2>2. CASE i # Len(mergedOut) + 1
    <3>1. i \in 1..Len(mergedOut) /\ Len(handled) + i \in 1..Len(merged)
      BY <1>3, <1>4, <1>7, <2>2
    <3>2. mergedOut'[i] = mergedOut[i]
      BY <1>1, <1>2, <3>1
    <3>3. merged'[Len(handled) + i] = merged[Len(handled) + i]
      BY <1>1, <1>2, <3>1
    <3> QED
      BY <1>3, <3>1, <3>2, <3>3
  <2> QED
    BY <2>1, <2>2
<1>10. Len(merged') = Len(handled) + Len(mergedOut')
  BY <1>3, <1>4, <1>7
<1>5. ToHandle'
  BY <1>1, <1>2, <1>9, <1>10 DEF ToHandle
<1>6. HandledFollowsMerged'
  BY <1>1, <1>2, <1>3 DEF HandlingInv, HandledFollowsMerged
<1> QED
  BY <1>5, <1>6

LEMMA EventHandling ==
  ASSUME HandlingInv, HandleEvent
  PROVE  ToHandle' /\ HandledFollowsMerged'
<1>1. /\ pc = "handle" /\ mergedOut # <<>> /\ batch = EmptyBatch
      /\ handled' = Append(handled, Head(mergedOut))
      /\ mergedOut' = Tail(mergedOut)
      /\ merged' = merged /\ batch' = batch
      /\ pc' = IF Tail(mergedOut) = <<>> THEN "drain" ELSE "handle"
  BY DEF HandlingInv, ToHandle, HandleEvent, pairing
<1>2. merged \in Seq(Key) /\ mergedOut \in Seq(Key) /\ handled \in Seq(Key)
  BY DEF HandlingInv, MergeTypeOK
<1>3. /\ Len(merged) = Len(handled) + Len(mergedOut)
      /\ \A i \in 1..Len(mergedOut) : merged[Len(handled) + i] = mergedOut[i]
      /\ \A i \in 1..Len(handled) : handled[i] = merged[i]
  BY <1>1 DEF HandlingInv, ToHandle, HandledFollowsMerged
<1>4. /\ Len(mergedOut) \in Nat /\ Len(mergedOut) >= 1
      /\ Head(mergedOut) = mergedOut[1] /\ Head(mergedOut) \in Key
      /\ Tail(mergedOut) \in Seq(Key)
      /\ Len(mergedOut') = Len(mergedOut) - 1
      /\ \A i \in 1..Len(mergedOut') : mergedOut'[i] = mergedOut[i + 1]
  BY <1>1, <1>2
<1>5. /\ handled' \in Seq(Key)
      /\ Len(handled') = Len(handled) + 1
      /\ handled'[Len(handled) + 1] = Head(mergedOut)
      /\ \A i \in 1..Len(handled) : handled'[i] = handled[i]
  BY <1>1, <1>2, <1>4
<1>6. Len(merged') = Len(handled') + Len(mergedOut')
  BY <1>1, <1>2, <1>3, <1>4, <1>5
<1>7. \A i \in 1..Len(mergedOut') : merged'[Len(handled') + i] = mergedOut'[i]
  <2> SUFFICES ASSUME NEW i \in 1..Len(mergedOut')
               PROVE  merged'[Len(handled') + i] = mergedOut'[i]
    OBVIOUS
  <2>1. i + 1 \in 1..Len(mergedOut) /\ Len(handled') + i = Len(handled) + (i + 1)
    BY <1>2, <1>4, <1>5
  <2>2. QED BY <1>1, <1>3, <1>4, <2>1
<1>8. \A i \in 1..Len(handled') : handled'[i] = merged'[i]
  <2> SUFFICES ASSUME NEW i \in 1..Len(handled')
               PROVE  handled'[i] = merged'[i]
    OBVIOUS
  <2>1. CASE i = Len(handled) + 1
    <3>1. merged[Len(handled) + 1] = mergedOut[1]
      BY <1>3, <1>4
    <3>2. QED BY <2>1, <3>1, <1>1, <1>4, <1>5
  <2>2. CASE i # Len(handled) + 1
    BY <2>2, <1>1, <1>2, <1>3, <1>5
  <2>3. QED BY <2>1, <2>2
<1>9. pc' = "drain" => handled' = merged'
  <2>1. ASSUME pc' = "drain" PROVE Len(handled') = Len(merged')
    <3>1. mergedOut' = <<>>
      BY <2>1, <1>1
    <3>2. Len(mergedOut') = 0
      BY <3>1
    <3>3. Len(handled') \in Nat
      BY <1>5
    <3>4. QED BY <1>6, <3>2, <3>3
  <2>2. QED BY <1>1, <1>2, <1>5, <1>8, <2>1, SameSequence
<1>10. ToHandle'
  BY <1>1, <1>6, <1>7 DEF ToHandle
<1>11. HandledFollowsMerged'
  BY <1>1, <1>2, <1>4, <1>5, <1>6, <1>8, <1>9 DEF HandledFollowsMerged
<1>12. QED BY <1>10, <1>11

LEMMA HandlingStep ==
  ASSUME HandlingInv, [MergeNext]_mergeVars
  PROVE  ToHandle' /\ HandledFollowsMerged'
<1> USE DEF HandlingInv, pairing, status, history
<1>1. CASE Exit
  BY <1>1 DEF Exit, ToHandle, HandledFollowsMerged
<1>2. CASE Drain
  <2>1. /\ mergedOut' = <<>> /\ handled' = handled /\ merged' = merged
        /\ handled = merged /\ pc' = "stage"
    BY <1>2 DEF Drain, ToHandle, HandledFollowsMerged
  <2>2. Len(merged) \in Nat
    BY DEF MergeTypeOK
  <2>3. QED BY <2>1, <2>2 DEF ToHandle, HandledFollowsMerged
<1>3. ASSUME NEW s \in Side, StageAbort(s) PROVE ToHandle' /\ HandledFollowsMerged'
  BY <1>3 DEF StageAbort, Abort, ToHandle, HandledFollowsMerged
<1>4. ASSUME NEW s \in Side, StagePark(s) PROVE ToHandle' /\ HandledFollowsMerged'
  BY <1>4 DEF StagePark, Staging, ToHandle, HandledFollowsMerged
<1>5. ASSUME NEW s \in Side, StageMerge(s) PROVE ToHandle' /\ HandledFollowsMerged'
  BY <1>5, MergeHandling
<1>6. ASSUME NEW s \in Side, StageBuildFails(s) PROVE ToHandle' /\ HandledFollowsMerged'
  BY <1>6 DEF StageBuildFails, Abort, ToHandle, HandledFollowsMerged
<1>7. CASE StageDone
  BY <1>7 DEF StageDone, ToHandle, HandledFollowsMerged
<1>8. CASE ScanFails
  BY <1>8 DEF ScanFails, Abort, ToHandle, HandledFollowsMerged
<1>9. CASE ScanPasses
  <2>1. /\ pc = "scan" /\ merged' = merged /\ handled' = handled /\ batch' = batch
        /\ mergedOut' = mergedOut
        /\ pc' = IF mergedOut = <<>> THEN "drain" ELSE "handle"
    BY <1>9 DEF ScanPasses
  <2>2. mergedOut = <<>> => handled = merged
    <3>1. ASSUME mergedOut = <<>> PROVE Len(handled) = Len(merged)
      BY <2>1, <3>1 DEF ToHandle, MergeTypeOK
    <3>2. QED BY <3>1, SameSequence DEF HandledFollowsMerged, MergeTypeOK
  <2>3. QED BY <2>1, <2>2 DEF ToHandle, HandledFollowsMerged
<1>10. CASE HandleStops
  BY <1>10 DEF HandleStops, ToHandle, HandledFollowsMerged
<1>11. CASE HandleEvent
  BY <1>11, EventHandling
<1>12. CASE HandleThrows
  BY <1>12 DEF HandleThrows, Abort, ToHandle, HandledFollowsMerged
<1>13. ASSUME NEW s \in Side, NEW k \in Key, GrowOld(s, k)
       PROVE  ToHandle' /\ HandledFollowsMerged'
  BY <1>13 DEF GrowOld, ToHandle, HandledFollowsMerged
<1>14. CASE HaltTest
  BY <1>14 DEF HaltTest, ToHandle, HandledFollowsMerged
<1>15. CASE StartTest
  BY <1>15 DEF StartTest, ResetDetachedMergeState, ToHandle, HandledFollowsMerged
<1>16. CASE UNCHANGED mergeVars
  BY <1>16 DEF mergeVars, ToHandle, HandledFollowsMerged
<1>17. QED
  BY <1>1, <1>2, <1>3, <1>4, <1>5, <1>6, <1>7, <1>8, <1>9, <1>10, <1>11, <1>12,
     <1>13, <1>14, <1>15, <1>16 DEF MergeNext, Thread

-----------------------------------------------------------------------------
(* Every half is accounted for                                              *)

\* Staging a half takes one off the batch, and the sizes tell where it went.
LEMMA StagedHalf ==
  ASSUME MergeTypeOK, NEW s \in Side, Staging(s), Unstage(s)
  PROVE  /\ Len(batch'[s]) = Len(batch[s]) - 1
         /\ Len(batch[s]) \in Nat
         /\ \A r \in Side : r # s => batch'[r] = batch[r]
<1>1. batch[s] \in Seq(Tag) /\ batch[s] # <<>> /\ batch \in [Side -> Seq(Tag)]
  BY DEF MergeTypeOK, Staging
<1>2. batch' = [batch EXCEPT ![s] = Tail(@)]
  BY DEF Unstage
<1>3. Len(Tail(batch[s])) = Len(batch[s]) - 1 /\ Len(batch[s]) \in Nat
  BY <1>1
<1>4. QED BY <1>1, <1>2, <1>3

\* One half less in the batch, one event more.
LEMMA OneMoves ==
  ASSUME NEW b \in Nat, NEW p \in Nat, NEW m \in Nat,
         NEW b2, NEW m2, b2 = b - 1, m2 = m + 1
  PROVE  b2 + p + m2 = b + p + m
OBVIOUS

LEMMA ConservedStep ==
  ASSUME MergeTypeOK, PendingFinite, PairsNeverWait, ToHandle, HalvesConserved, [MergeNext]_mergeVars
  PROVE  HalvesConserved'
<1> DEFINE Balanced(s) ==
      drained[s] = Len(batch[s]) + Cardinality(pending[s]) + mergedEventsCount
<1> USE DEF pairing, status, history
<1>1. \A s \in Side : Cardinality(pending[s]) \in Nat
  BY FS_CardinalityType DEF PendingFinite
<1>2. Len(merged) \in Nat /\ (InLoop => \A s \in Side : Balanced(s))
  BY DEF MergeTypeOK, HalvesConserved
<1>3. CASE Drain
  <2>1. /\ InLoop /\ batch = EmptyBatch
        /\ drained' = [s \in Side |-> drained[s] + Len(batch'[s])]
        /\ pending' = pending /\ merged' = merged
    BY <1>3 DEF Drain, InLoop, ToHandle
  <2>2. batch' \in [Side -> Seq(Tag)] /\ drained \in [Side -> Nat]
    BY <1>3, BatchType DEF Drain, MergeTypeOK
  <2>3. \A s \in Side : Len(batch[s]) = 0
    BY <2>1 DEF EmptyBatch
  <2>4. \A s \in Side : Len(batch'[s]) \in Nat
    BY <2>2
  <2>5. ASSUME NEW s \in Side
        PROVE  drained'[s] = Len(batch'[s]) + Cardinality(pending'[s]) + Len(merged')
    <3>1. drained[s] = Len(batch[s]) + Cardinality(pending[s]) + Len(merged)
      BY <1>2, <2>1 DEF mergedEventsCount
    <3>2. drained'[s] = drained[s] + Len(batch'[s]) /\ drained[s] \in Nat
      BY <2>1, <2>2
    <3>3. QED BY <1>1, <1>2, <2>1, <2>3, <2>4, <3>1, <3>2
  <2>6. QED BY <2>5 DEF HalvesConserved, mergedEventsCount
<1>4. ASSUME NEW s \in Side, StagePark(s) PROVE HalvesConserved'
  <2>1. /\ drained' = drained /\ merged' = merged /\ InLoop
        /\ pending'[s] = pending[s] \cup {StagedKey(s)}
        /\ \A r \in Side : r # s => pending'[r] = pending[r]
        /\ StagedKey(s) \notin pending[s]
    BY <1>4 DEF StagePark, Staging, InLoop, CanNeverPair, MergeTypeOK
  <2>2. Cardinality(pending'[s]) = Cardinality(pending[s]) + 1
    BY <2>1, FS_AddElement DEF PendingFinite
  <2>3. /\ Len(batch'[s]) = Len(batch[s]) - 1 /\ Len(batch[s]) \in Nat
        /\ \A r \in Side : r # s => batch'[r] = batch[r]
    BY <1>4, StagedHalf DEF StagePark
  <2>4. drained[s] = Len(batch'[s]) + Cardinality(pending'[s]) + Len(merged)
    <3>1. drained[s] = Len(batch[s]) + Cardinality(pending[s]) + Len(merged)
      BY <1>2, <2>1 DEF mergedEventsCount
    <3>2. Cardinality(pending[s]) \in Nat /\ Len(merged) \in Nat
      BY <1>1, <1>2
    <3> QED
      BY <2>2, <2>3, <3>1, <3>2
  <2>5. QED
    BY <1>2, <2>1, <2>3, <2>4 DEF HalvesConserved, mergedEventsCount
<1>5. ASSUME NEW s \in Side, StageMerge(s) PROVE HalvesConserved'
  <2> DEFINE o == 1 - s
  <2>1. /\ drained' = drained /\ InLoop
        /\ o \in Side /\ o # s
        /\ pending' = WithoutPartner(s)
        /\ StagedKey(s) \in pending[o]
        /\ Len(merged') = Len(merged) + 1
    BY <1>5, StagedType DEF StageMerge, Staging, InLoop, PartnerWaits, MergeTypeOK, Side
  <2>2. /\ pending'[o] = pending[o] \ {StagedKey(s)}
        /\ pending'[s] = pending[s]
    BY <2>1 DEF WithoutPartner, MergeTypeOK
  <2>3. Cardinality(pending'[o]) = Cardinality(pending[o]) - 1
    <3>1. IsFiniteSet(pending[o])
      BY <2>1 DEF PendingFinite
    <3>2. Cardinality(pending[o] \ {StagedKey(s)}) = Cardinality(pending[o]) - 1
      BY <2>1, <3>1, FS_RemoveElement
    <3> QED
      BY <2>2, <3>2
  <2>4. /\ Len(batch'[s]) = Len(batch[s]) - 1 /\ Len(batch[s]) \in Nat
        /\ batch'[o] = batch[o]
    BY <1>5, <2>1, StagedHalf DEF StageMerge
  <2>5. Len(batch[o]) \in Nat
    BY <2>1 DEF MergeTypeOK
  <2>6. /\ drained[s] = Len(batch'[s]) + Cardinality(pending'[s]) + Len(merged')
        /\ drained[o] = Len(batch'[o]) + Cardinality(pending'[o]) + Len(merged')
    <3>1. /\ drained[s] = Len(batch[s]) + Cardinality(pending[s]) + Len(merged)
          /\ drained[o] = Len(batch[o]) + Cardinality(pending[o]) + Len(merged)
      BY <1>2, <2>1 DEF mergedEventsCount
    <3>2. /\ Cardinality(pending[s]) \in Nat /\ Cardinality(pending[o]) \in Nat
          /\ Cardinality(pending'[s]) = Cardinality(pending[s])
      BY <1>1, <2>1, <2>2
    <3>3. drained[s] = Len(batch'[s]) + Cardinality(pending'[s]) + Len(merged')
      <4> DEFINE m  == Len(merged)
                 m2 == Len(merged')
                 b  == Len(batch[s])
                 b2 == Len(batch'[s])
                 p  == Cardinality(pending'[s])
      <4>1. m \in Nat /\ m2 = m + 1
        BY <1>2, <2>1
      <4>2. b2 = b - 1 /\ b \in Nat
        BY <2>4
      <4>3. p \in Nat /\ drained[s] = b + p + m
        BY <3>1, <3>2
      <4> HIDE DEF m, m2, b, b2, p
      <4>4. drained[s] = b2 + p + m2
        BY <4>1, <4>2, <4>3, OneMoves
      <4>5. QED BY <4>4 DEF m2, b2, p
    <3>4. drained[o] = Len(batch'[o]) + Cardinality(pending'[o]) + Len(merged')
      <4>1. Len(merged) \in Nat /\ Len(merged') = Len(merged) + 1
        BY <1>2, <2>1
      <4>2. Len(batch'[o]) = Len(batch[o]) /\ Len(batch[o]) \in Nat
        BY <2>4, <2>5
      <4>3. QED BY <2>3, <3>1, <3>2, <4>1, <4>2
    <3>5. QED BY <3>3, <3>4
  <2>7. \A r \in Side : r = s \/ r = o
    BY DEF Side
  <2>8. QED BY <2>1, <2>6, <2>7 DEF HalvesConserved, mergedEventsCount
<1>6. CASE StartTest
  <2>1. \A s \in Side : /\ drained'[s] = 0 /\ batch'[s] = <<>>
                        /\ pending'[s] = {} /\ merged' = <<>>
    BY <1>6 DEF StartTest, ResetDetachedMergeState, NothingPending, NothingCounted, EmptyBatch
  <2>2. Cardinality({}) = 0 /\ Len(<<>>) = 0
    BY FS_EmptySet
  <2>3. \A s \in Side :
          drained'[s] = 0 /\ Len(batch'[s]) = 0 /\ Cardinality(pending'[s]) = 0
    BY <2>1, <2>2
  <2>4. Len(merged') = 0
    BY <2>1, <2>2 DEF Side
  <2>5. QED BY <2>3, <2>4 DEF HalvesConserved, mergedEventsCount
<1>7. CASE UNCHANGED <<batch, drained, pending, merged>> /\ (InLoop' => InLoop)
  BY <1>7 DEF HalvesConserved, mergedEventsCount
<1>8. CASE ~InLoop'
  BY <1>8 DEF HalvesConserved
<1>9. \/ Drain \/ StartTest
      \/ \E s \in Side : StagePark(s)
      \/ \E s \in Side : StageMerge(s)
      \/ UNCHANGED <<batch, drained, pending, merged>> /\ (InLoop' => InLoop)
      \/ ~InLoop'
  BY DEF MergeNext, Thread, mergeVars, Exit, StageAbort, StageBuildFails, StageDone, GrowOld, ScanFails,
         ScanPasses, HandleStops, HandleEvent, HandleThrows, HaltTest, Abort, InLoop
<1>10. QED BY <1>3, <1>4, <1>5, <1>6, <1>7, <1>8, <1>9

-----------------------------------------------------------------------------
(* Even/odd windows                                                         *)

\* A half that passes the parity check has an even key.
LEMMA AcceptedKeyIsEven ==
  ASSUME MergeTypeOK, evenOdd, NEW s \in Side, Staging(s), ~WrongParity(s)
  PROVE  StagedKey(s) % 2 = 0
<1>1. StagedTag(s) \in Nat
  BY StagedType, TagAssumption
<1>2. StagedTag(s) % 2 = s
  BY DEF WrongParity
<1>3. CASE s = 0
  BY <1>2, <1>3 DEF StagedKey, BaseTag
<1>4. CASE s = 1
  <2>1. StagedKey(s) = StagedTag(s) - 1
    BY <1>4 DEF StagedKey, BaseTag
  <2>2. (StagedTag(s) - 1) % 2 = 0
    BY <1>1, <1>2, <1>4
  <2>3. QED BY <2>1, <2>2
<1>5. QED BY <1>3, <1>4 DEF Side

LEMMA EvenStep ==
  ASSUME MergeTypeOK, EvenWithNextOdd, [MergeNext]_mergeVars
  PROVE  EvenWithNextOdd'
<1>1. CASE UNCHANGED <<evenOdd, merged>>
  BY <1>1 DEF EvenWithNextOdd
<1>2. ASSUME NEW s \in Side, StageMerge(s) PROVE EvenWithNextOdd'
  <2>1. evenOdd' = evenOdd /\ merged' = Append(merged, StagedKey(s)) /\ merged \in Seq(Key)
    BY <1>2 DEF StageMerge, MergeTypeOK
  <2>2. evenOdd => StagedKey(s) % 2 = 0
    BY <1>2, AcceptedKeyIsEven DEF StageMerge, CanNeverPair
  <2>3. /\ Len(merged') = Len(merged) + 1 /\ Len(merged) \in Nat
        /\ \A i \in 1..Len(merged) : merged'[i] = merged[i]
        /\ merged'[Len(merged) + 1] = StagedKey(s)
    <3>1. StagedKey(s) \in Key
      BY <1>2, StagedType DEF StageMerge
    <3>2. QED BY <2>1, <3>1
  <2>4. ASSUME evenOdd, NEW i \in 1..Len(merged') PROVE merged'[i] % 2 = 0
    <3>1. i \in 1..Len(merged) \/ i = Len(merged) + 1
      BY <2>3
    <3>2. CASE i \in 1..Len(merged)
      BY <2>3, <2>4, <3>2 DEF EvenWithNextOdd
    <3>3. CASE i = Len(merged) + 1
      BY <2>2, <2>3, <2>4, <3>3
    <3>4. QED BY <3>1, <3>2, <3>3
  <2>5. QED BY <2>1, <2>4 DEF EvenWithNextOdd
<1>3. CASE StartTest
  BY <1>3 DEF StartTest, ResetDetachedMergeState, EvenWithNextOdd
<1>4. \/ StartTest
      \/ \E s \in Side : StageMerge(s)
      \/ UNCHANGED <<evenOdd, merged>>
  BY DEF MergeNext, Thread, mergeVars, pairing, Exit, Drain, StageAbort, StagePark, StageBuildFails,
         StageDone, GrowOld, ScanFails, ScanPasses, HandleStops, HandleEvent, HandleThrows, HaltTest
<1>5. QED BY <1>1, <1>2, <1>3, <1>4

-----------------------------------------------------------------------------
(* The theorems                                                             *)

LEMMA InvInit == MergeInit => IInv
<1> SUFFICES ASSUME MergeInit PROVE IInv
  OBVIOUS
<1>1. \A s \in Side : pending[s] = {} /\ batch[s] = <<>> /\ drained[s] = 0
  BY DEF MergeInit, NothingPending, NothingCounted, EmptyBatch
<1>2. PendingFinite
  BY <1>1, FS_EmptySet DEF PendingFinite
<1>3. HalvesConserved
  <2>1. Cardinality({}) = 0 /\ Len(<<>>) = 0
    BY FS_EmptySet
  <2>2. \A s \in Side : drained[s] = 0 /\ Len(batch[s]) = 0 /\ Cardinality(pending[s]) = 0
    BY <1>1, <2>1
  <2>3. Len(merged) = 0
    BY <2>1 DEF MergeInit
  <2>4. QED BY <2>2, <2>3 DEF HalvesConserved, mergedEventsCount
<1>4. PairsNeverWait /\ OrderKnown /\ MergedInOrder
  BY <1>1 DEF MergeInit, PairsNeverWait, OrderKnown, MergedInOrder, Side
<1>5. ToHandle /\ HandledFollowsMerged
  BY DEF MergeInit, ToHandle, HandledFollowsMerged
<1>6. QED BY <1>2, <1>3, <1>4, <1>5, TypeInit DEF IInv

LEMMA InvStep == IInv /\ [MergeNext]_mergeVars => IInv'
<1> SUFFICES ASSUME IInv, [MergeNext]_mergeVars PROVE IInv'
  OBVIOUS
<1>1. MergeTypeOK' /\ PendingFinite'
  BY TypeStep, PendingFiniteStep DEF IInv
<1>2. PairsNeverWait' /\ HalvesConserved'
  BY PairsNeverWaitStep, ConservedStep DEF IInv
<1>3. OrderKnown' /\ MergedInOrder'
  BY OrderStep DEF IInv
<1>4. ToHandle' /\ HandledFollowsMerged'
  BY HandlingStep DEF IInv, HandlingInv
<1>5. QED BY <1>1, <1>2, <1>3, <1>4 DEF IInv

LEMMA Invariance == MergeSpec => []IInv
BY InvInit, InvStep, PTL DEF MergeSpec

\* Every variable keeps its type, with any tags and in both merge modes.
THEOREM MergeTypeCorrect == MergeSpec => []MergeTypeOK
BY Invariance, PTL DEF IInv

\* Merged events come out in strictly increasing order of base tag.
THEOREM MergeOrder == MergeSpec => []MergedInOrder
BY Invariance, PTL DEF IInv

\* In even/odd mode every merged event is an even window with the next odd one, even
\* when a link delivers windows of the wrong parity.
THEOREM EvenOddPairs == MergeSpec => []EvenWithNextOdd
<1>1. MergeInit => EvenWithNextOdd
  BY DEF MergeInit, EvenWithNextOdd
<1>2. IInv /\ EvenWithNextOdd /\ [MergeNext]_mergeVars => EvenWithNextOdd'
  BY EvenStep DEF IInv
<1>3. QED BY <1>1, <1>2, Invariance, PTL DEF MergeSpec

\* The two halves of an event never both wait in the pending maps.
THEOREM Pairing == MergeSpec => []PairsNeverWait
BY Invariance, PTL DEF IInv

\* No half is lost and none used twice while the run goes on.
THEOREM Conservation == MergeSpec => []HalvesConserved
BY Invariance, PTL DEF IInv

\* What is handled is a prefix of what was merged, all of it at the top of the loop.
THEOREM Handling == MergeSpec => []HandledFollowsMerged
BY Invariance, PTL DEF IInv

\* A half staged with the right parity, whose tag is beyond everything its own side
\* delivered before, is never rejected.
THEOREM NoFalseReject == MergeSpec => RejectsOnlyDisorder
<1> DEFINE Justified ==
      \A s \in Side : StageAbort(s) => WrongParity(s) \/ StagedKey(s) <= newest[s]
<1>1. IInv /\ [MergeNext]_mergeVars => [Justified]_mergeVars
  <2> SUFFICES ASSUME IInv, NEW s \in Side, StageAbort(s), ~WrongParity(s)
               PROVE  StagedKey(s) <= newest[s]
    OBVIOUS
  <2>1. StagedKey(s) \in Int /\ newest[s] \in Int /\ lastMergedBaseTag \in Int
    <3>1. MergeTypeOK /\ Staging(s)
      BY DEF IInv, StageAbort
    <3>2. StagedKey(s) \in Key
      BY <3>1, StagedType
    <3>3. newest[s] \in Int /\ lastMergedBaseTag \in Key \cup {0}
      BY <3>1 DEF MergeTypeOK
    <3>4. \A k \in Key : k \in Int
      BY KeyIsInt
    <3>5. StagedKey(s) \in Int
      BY <3>2, <3>4
    <3>6. lastMergedBaseTag \in Int
      BY <3>3, <3>4
    <3>7. QED BY <3>3, <3>5, <3>6
  <2>2. CASE Passed(StagedKey(s))
    BY <2>1, <2>2 DEF Passed, IInv, OrderKnown
  <2>3. CASE StagedKey(s) \in pending[s]
    BY <2>3 DEF IInv, OrderKnown
  <2>4. QED BY <2>2, <2>3 DEF StageAbort, CanNeverPair
<1>2. QED BY <1>1, Invariance, PTL DEF MergeSpec, RejectsOnlyDisorder

---------------------------------------------------------------------------
(***************************************************************************)
(* Proofs about SubeventChecks for any EVB networks, tags, faults and      *)
(* starts: the types, that the checks do not stay silent over a loss, and  *)
(* that they raise no false alarm.                                         *)
(*                                                                         *)
(* While no mismatch is counted, no restart has kept old counters and the  *)
(* stride is the step of the traffic, the tag expected stands at one of    *)
(* four places to the traffic: nothing handled yet, behind the event being *)
(* delivered, inside it, or past it with all its sources seen.  From       *)
(* behind there is no way back without a mismatch, and past an event of    *)
(* which something is missing none at all.                                 *)
(*                                                                         *)
(* For the alarms, what was lost, doubled or restarted is a credit of      *)
(* mismatches.  It is never less than the debt: the mismatches still to    *)
(* come of the traffic as it stands, if nothing else goes wrong.  Under    *)
(* settings that are not the traffic's every subevent brings its credit.   *)
(***************************************************************************)

\* The fields TypeOK leaves out, and what the traffic has got to.
Types ==
  /\ TypeOK
  /\ faults \in [lost : Nat, doubled : Nat, stale : Nat, released : Nat, asEvents : Nat]
  /\ stream.left \subseteq Sources(stream.mode)
  /\ gaps \subseteq 0 .. stream.tag

\* A restart begins at the tag of the new traffic, or finds it out.
AnnouncedTag == mailbox /\ ~mode.evb => expected = 0

Silent == running /\ ~mailbox /\ mismatches = 0 /\ faults.released = 0 /\ StrideFits

\* EVB mode: only losses so far, so that the first subevent still defines the tag.
NothingHandled ==
  /\ next <= expected
  /\ seen = {}
  /\ stream.tag \in gaps <=> stream.left # Sources(mode)

\* The next subevent is a mismatch, whatever it is.
BehindTraffic == next < stream.tag

\* What has been delivered is what has been seen; what was lost will never be.
InsideEvent ==
  /\ next = stream.tag
  /\ seen \subseteq Sources(mode) \ stream.left
  /\ IF stream.tag \in gaps THEN seen \cup stream.left # Sources(mode)
     ELSE seen = Sources(mode) \ stream.left

EventPassed ==
  /\ next = stream.tag + Stride(mode)
  /\ stream.left = {} /\ seen = {}
  /\ stream.tag \notin gaps

\* No gap lies before the tag expected.
NoGapPassed == \A t \in gaps : t >= expected => next <= t

Position ==
  /\ stream.mode = mode
  /\ ~UsesSourceSet(mode) => seen = {}
  /\ IF mode.events THEN next <= expected
     ELSE IF Syncs THEN NothingHandled
     ELSE BehindTraffic \/ InsideEvent \/ EventPassed

SilentInv == AnnouncedTag /\ (Silent => Position /\ NoGapPassed)

-----------------------------------------------------------------------------
(* Sources and strides                                                      *)

\* The sources of an event are some, finitely many, and one unless their set is followed.
LEMMA SourcesOfMode ==
  ASSUME NEW m \in Mode
  PROVE  /\ Sources(m) \subseteq Source /\ Sources(m) # {} /\ IsFiniteSet(Sources(m))
         /\ ~UsesSourceSet(m) => \E s \in Source : Sources(m) = {s}
<1>1. Own(m) \subseteq Ids /\ Local \in Own(m) /\ Other(m) \subseteq Ids
  BY IdsAssumption DEF Own, Other, Mode
<1>2. IsFiniteSet(Own(m)) /\ IsFiniteSet(Other(m))
  BY <1>1, IdsAssumption, FS_Subset
<1>3. IsFiniteSet({0} \X Own(m)) /\ IsFiniteSet({1} \X Other(m))
  BY <1>2, FS_Singleton, FS_Product
<1>4. IsFiniteSet(Sources(m))
  BY <1>3, FS_Union DEF Sources
<1>5. <<0, Local>> \in Sources(m) /\ Sources(m) \subseteq Source
  BY <1>1 DEF Sources, Source
<1>6. ASSUME ~UsesSourceSet(m) PROVE \E s \in Source : Sources(m) = {s}
  <2>1. Own(m) = {Local} /\ Other(m) = {}
    BY <1>6 DEF UsesSourceSet, Own, Other
  <2>2. Sources(m) = {<<0, Local>>}
    BY <2>1 DEF Sources
  <2> QED BY <1>5, <2>2
<1> QED BY <1>4, <1>5, <1>6

LEMMA StrideIsPositive ==
  ASSUME NEW m \in Mode
  PROVE  /\ Stride(m) \in Nat /\ Stride(m) >= 1
         /\ Natural(m) \in Nat /\ Natural(m) >= 1
<1>1. IsFiniteSet(Own(m)) /\ Own(m) # {}
  <2>1. Own(m) \subseteq Ids /\ Local \in Own(m)
    BY IdsAssumption DEF Own
  <2> QED BY <2>1, IdsAssumption, FS_Subset
<1>2. Cardinality(Own(m)) \in Nat /\ Cardinality(Own(m)) # 0
  BY <1>1, FS_CardinalityType, FS_EmptySet
<1> QED BY <1>2, SkipAssumption DEF Stride, Natural

\* A set of sources is complete when it is all of them.
LEMMA CompleteIsAll ==
  ASSUME NEW m \in Mode, NEW S \in SUBSET Sources(m)
  PROVE  Cardinality(S) >= ExpectedSources(m) <=> S = Sources(m)
<1>1. IsFiniteSet(Sources(m))
  BY SourcesOfMode
<1>2. /\ IsFiniteSet(S) /\ Cardinality(S) <= Cardinality(Sources(m))
      /\ Cardinality(Sources(m)) = Cardinality(S) => Sources(m) = S
  BY <1>1, FS_Subset
<1>3. Cardinality(S) \in Nat /\ Cardinality(Sources(m)) \in Nat
  BY <1>1, <1>2, FS_CardinalityType
<1> QED BY <1>2, <1>3 DEF ExpectedSources

\* A subevent counts two mismatches at most, and none only if both checks pass.
LEMMA MismatchCount ==
  ASSUME NEW s, NEW t
  PROVE  /\ Mismatches(s, t) \in Nat
         /\ Mismatches(s, t) = 0 => ~EventMismatch(t) /\ TagOK(s, t)
<1> DEFINE M == {k \in {"event", "subevent"} :
                   IF k = "event" THEN EventMismatch(t) ELSE ~TagOK(s, t)}
<1>1. IsFiniteSet({"event"}) /\ IsFiniteSet({"event"} \cup {"subevent"})
  BY FS_Singleton, FS_AddElement
<1>2. {"event"} \cup {"subevent"} = {"event", "subevent"}
  OBVIOUS
<1>3. M \in SUBSET {"event", "subevent"}
  OBVIOUS
<1>4. IsFiniteSet(M)
  BY <1>1, <1>2, <1>3, FS_Subset
<1>5. Cardinality(M) \in Nat /\ (Cardinality(M) = 0 => M = {})
  BY <1>4, FS_CardinalityType, FS_EmptySet
<1>6. M = {} => ~EventMismatch(t) /\ TagOK(s, t)
  <2> SUFFICES ASSUME M = {} PROVE ~EventMismatch(t) /\ TagOK(s, t)
    OBVIOUS
  <2>1. "event" \notin M /\ "subevent" \notin M
    OBVIOUS
  <2>2. ~EventMismatch(t)
    BY <2>1
  <2>3. TagOK(s, t)
    BY <2>1
  <2> QED BY <2>2, <2>3
<1>7. Mismatches(s, t) = Cardinality(M)
  BY DEF Mismatches
<1> QED BY <1>5, <1>6, <1>7

-----------------------------------------------------------------------------
(* Types                                                                    *)

\* The modes initDetachedBufferTest and the initial state leave.
LEMMA PlainModes ==
  /\ \A m \in PlainMode : m \in Mode /\ m.merge = "off" /\ m.events = FALSE
  /\ \A m \in Mode : m.evb \in BOOLEAN /\ m.events \in BOOLEAN
BY DEF Mode, PlainMode

\* The part of the state that the handling of a subevent may change.
LEMMA HandleTypes ==
  ASSUME Types, NEW s \in Source, NEW c \in Int, c + 1 \in Nat,
         Handle(s, stream.tag, c)
  PROVE  /\ running' \in BOOLEAN /\ failed' \in {"no", "match", "emulator", "other"}
         /\ mode' \in Mode /\ activeMatch' \in BOOLEAN /\ check' \in BOOLEAN
         /\ mailbox' \in BOOLEAN /\ keep' \in BOOLEAN
         /\ expected' \in Nat /\ next' \in Nat /\ mismatches' \in Nat
         /\ synced' \in BOOLEAN /\ seen' \subseteq Source
         /\ nextCounter' \in [Ids -> Nat \cup {None}]
<1> DEFINE t == stream.tag
<1>1. t \in Nat /\ t + 1 \in Nat /\ t + Stride(mode) \in Nat
  BY StrideIsPositive DEF Types, TypeOK
<1>2. mismatches' \in Nat
  BY MismatchCount DEF Handle, Types, TypeOK
<1>3. /\ mode' \in Mode /\ activeMatch' \in BOOLEAN /\ check' \in BOOLEAN
      /\ mailbox' \in BOOLEAN /\ keep' \in BOOLEAN
  BY DEF Handle, Types, TypeOK
<1>4. Accepted(s, c) => nextCounter' \in [Ids -> Nat \cup {None}]
  BY DEF Accepted, Types, TypeOK
<1>5. CASE activeMatch /\ ~TagOK(s, t)
  BY <1>1, <1>2, <1>3, <1>5 DEF Handle, Stops, NextAfterEvent, Types, TypeOK
<1>6. CASE ~(activeMatch /\ ~TagOK(s, t))
  <2>1. Checks(s, t)
    BY <1>6 DEF Handle
  <2>2. expected' \in Nat /\ next' \in Nat /\ synced' \in BOOLEAN
    BY <1>1, <2>1 DEF Checks, Syncs, Types, TypeOK
  <2>3. seen' \subseteq Source
    BY <2>1 DEF Checks, SeenAfter, SeenSources, Types, TypeOK
  <2>4. \/ running' = FALSE /\ failed' \in {"emulator", "other"} /\ UNCHANGED nextCounter
        \/ Accepted(s, c)
    BY <1>6 DEF Handle, Stops
  <2>5. /\ running' \in BOOLEAN /\ failed' \in {"no", "match", "emulator", "other"}
        /\ nextCounter' \in [Ids -> Nat \cup {None}]
    BY <1>4, <2>4 DEF Accepted, Types, TypeOK
  <2> QED BY <1>2, <1>3, <2>2, <2>3, <2>5
<1> QED BY <1>5, <1>6

LEMMA InitTypes == Init => Types
<1> SUFFICES ASSUME Init PROVE Types
  OBVIOUS
<1>1. mode \in Mode /\ stream = [mode |-> mode, step |-> 1, tag |-> 0, left |-> {}]
  BY PlainModes DEF Init
<1>2. stream \in [mode : Mode, step : Nat \ {0}, tag : Nat, left : SUBSET Source]
  BY <1>1
<1>3. /\ faults \in [lost : Nat, doubled : Nat, stale : Nat, released : Nat, asEvents : Nat]
      /\ stream.left \subseteq Sources(stream.mode) /\ gaps \subseteq 0 .. stream.tag
  BY <1>1 DEF Init, NoFaults
<1>4. /\ nextCounter \in [Ids -> Nat \cup {None}]
      /\ counter \in [Source -> Nat]
  BY DEF Init
<1>5. TypeOK
  BY <1>1, <1>2, <1>4 DEF Init, TypeOK
<1> QED BY <1>3, <1>5 DEF Types

LEMMA ResetTypes ==
  ASSUME ResetCounters
  PROVE  /\ synced' = FALSE /\ seen' = {} /\ mismatches' = 0
         /\ nextCounter' \in [Ids -> Nat \cup {None}]
         /\ faults' \in [lost : Nat, doubled : Nat, stale : Nat, released : Nat, asEvents : Nat]
         /\ faults'.released = 0
BY DEF ResetCounters, NoFaults

LEMMA BeginsTypes ==
  ASSUME NEW m \in Mode, NEW dropped, NEW t \in Nat, Begins(m, dropped, t)
  PROVE  /\ stream' \in [mode : Mode, step : Nat \ {0}, tag : Nat, left : SUBSET Source]
         /\ stream'.left \subseteq Sources(stream'.mode)
         /\ gaps' \subseteq 0 .. stream'.tag
         /\ stream'.mode = m /\ stream'.tag = t /\ stream'.left = Sources(m) /\ gaps' = {}
<1>1. PICK k \in Nat \ {0} : k = IF dropped THEN Skip ELSE 1
  BY SkipAssumption
<1>2. Natural(m) * k \in Nat \ {0}
  BY StrideIsPositive
<1>3. stream' = [mode |-> m, step |-> Natural(m) * k, tag |-> t, left |-> Sources(m)]
      /\ gaps' = {}
  BY <1>1 DEF Begins
<1> QED BY <1>2, <1>3, SourcesOfMode

LEMMA MoreTypes ==
  ASSUME Types, MoreEvents
  PROVE  /\ stream' \in [mode : Mode, step : Nat \ {0}, tag : Nat, left : SUBSET Source]
         /\ stream'.left = Sources(stream'.mode)
         /\ stream'.mode = stream.mode /\ stream'.step = stream.step
         /\ stream'.tag = stream.tag + stream.step
         /\ stream'.tag > stream.tag
         /\ 0 .. stream.tag \subseteq 0 .. stream'.tag /\ stream.tag \in 0 .. stream'.tag
<1>1. stream \in [mode : Mode, step : Nat \ {0}, tag : Nat, left : SUBSET Source]
  BY DEF Types, TypeOK
<1>2. stream.mode \in Mode /\ stream.tag \in Nat /\ stream.step \in Nat \ {0}
  BY <1>1
<1>3. Sources(stream.mode) \subseteq Source
  BY <1>2, SourcesOfMode
<1>4. stream' = [stream EXCEPT !.tag = stream.tag + stream.step,
                               !.left = Sources(stream.mode)]
  BY DEF MoreEvents
<1>5. stream' = [mode |-> stream.mode, step |-> stream.step,
                 tag |-> stream.tag + stream.step, left |-> Sources(stream.mode)]
  BY <1>1, <1>4
<1>6. stream.tag + stream.step \in Nat /\ stream.tag + stream.step > stream.tag
  BY <1>2
<1> QED BY <1>2, <1>3, <1>5, <1>6

\* The counts of the faults.
LEMMA FaultCounts ==
  ASSUME Types
  PROVE  /\ faults.lost \in Nat /\ faults.doubled \in Nat /\ faults.stale \in Nat
         /\ faults.released \in Nat /\ faults.asEvents \in Nat /\ Stale \in {0, 1}
BY DEF Types, Stale

\* A loss, a double and a subevent delivered are added to their counts alone.
LEMMA LostTypes ==
  ASSUME Types, IsLost
  PROVE  /\ faults' \in [lost : Nat, doubled : Nat, stale : Nat, released : Nat, asEvents : Nat]
         /\ faults'.lost = faults.lost + 1 /\ faults'.doubled = faults.doubled
         /\ faults'.stale = faults.stale /\ faults'.released = faults.released
         /\ faults'.asEvents = faults.asEvents
BY DEF IsLost, Types

LEMMA RepeatedTypes ==
  ASSUME Types, NEW s, Repeat(s)
  PROVE  /\ faults' \in [lost : Nat, doubled : Nat, stale : Nat, released : Nat, asEvents : Nat]
         /\ faults'.lost = faults.lost /\ faults'.doubled = faults.doubled + 1
         /\ faults'.stale = faults.stale + Stale /\ faults'.released = faults.released
         /\ faults'.asEvents = faults.asEvents
<1>1. PICK k \in Nat : k = Stale
  BY FaultCounts
<1>2. faults' = [faults EXCEPT !.doubled = faults.doubled + 1, !.stale = faults.stale + k]
  BY <1>1 DEF Repeat
<1>3. faults' = [lost |-> faults.lost, doubled |-> faults.doubled + 1,
                 stale |-> faults.stale + k, released |-> faults.released,
                 asEvents |-> faults.asEvents]
  BY <1>2 DEF Types
<1> QED BY <1>1, <1>3, FaultCounts

LEMMA DeliveredTypes ==
  ASSUME Types, NEW s, Deliver(s)
  PROVE  /\ faults' \in [lost : Nat, doubled : Nat, stale : Nat, released : Nat, asEvents : Nat]
         /\ faults'.lost = faults.lost /\ faults'.doubled = faults.doubled
         /\ faults'.stale = faults.stale + Stale /\ faults'.released = faults.released
         /\ faults'.asEvents = faults.asEvents + IF mode.events THEN 1 ELSE 0
<1>1. PICK a \in Nat : a = Stale
  BY FaultCounts
<1>2. PICK b \in Nat : b = IF mode.events THEN 1 ELSE 0
  OBVIOUS
<1>3. faults' = [faults EXCEPT !.stale = faults.stale + a, !.asEvents = faults.asEvents + b]
  BY <1>1, <1>2 DEF Deliver
<1>4. faults' = [lost |-> faults.lost, doubled |-> faults.doubled,
                 stale |-> faults.stale + a, released |-> faults.released,
                 asEvents |-> faults.asEvents + b]
  BY <1>3 DEF Types
<1> QED BY <1>1, <1>2, <1>4, FaultCounts

\* A source fewer is left of the same event.
LEMMA TakeTypes ==
  ASSUME Types, NEW s \in Source, Taken(s)
  PROVE  /\ stream' \in [mode : Mode, step : Nat \ {0}, tag : Nat, left : SUBSET Source]
         /\ stream'.mode = stream.mode /\ stream'.tag = stream.tag
         /\ stream'.step = stream.step
         /\ stream'.left = stream.left \ {s}
         /\ stream'.left \subseteq Sources(stream'.mode)
         /\ stream.tag \in 0 .. stream.tag
         /\ counter' \in [Source -> Nat]
<1>1. stream \in [mode : Mode, step : Nat \ {0}, tag : Nat, left : SUBSET Source]
      /\ counter \in [Source -> Nat]
  BY DEF Types, TypeOK
<1>2. PICK e \in Source : e = Emulator(stream.mode, s)
  BY DEF Emulator, Source
<1>3. counter' = [counter EXCEPT ![e] = counter[e] + 1]
  BY <1>2 DEF Taken
<1>4. counter' \in [Source -> Nat]
  BY <1>1, <1>2, <1>3
<1> QED BY <1>1, <1>4 DEF Taken, Types

\* The emulator of a source is one.
LEMMA EmulatorType ==
  ASSUME NEW m, NEW s \in Source PROVE Emulator(m, s) \in Source /\ s[2] \in Ids
BY DEF Emulator, Source

\* Start and initDetachedBufferTest start a thread in a mode.
LEMMA StartsIn ==
  ASSUME Start \/ Launch
  PROVE  \E m \in Mode, dropped \in BOOLEAN : Starts(m, dropped) /\ activeMatch' \in BOOLEAN
<1>1. ASSUME Launch
      PROVE  \E m \in Mode, dropped \in BOOLEAN : Starts(m, dropped) /\ activeMatch' \in BOOLEAN
  <2>1. PICK m \in PlainMode : Starts(m, m.skip) /\ activeMatch' = FALSE
    BY <1>1 DEF Launch
  <2>2. m \in Mode /\ m.skip \in BOOLEAN
    BY DEF PlainMode, Mode
  <2> QED BY <2>1, <2>2
<1> QED BY <1>1 DEF Start

LEMMA NextTypes == Types /\ [Next]_vars => Types'
<1> SUFFICES ASSUME Types, [Next]_vars PROVE Types'
  OBVIOUS
<1> USE DEF settings, checker, traffic
<1>1. counter \in [Source -> Nat]
  BY DEF Types, TypeOK
<1>2. ASSUME NEW s \in Source, Deliver(s) PROVE Types'
  <2>1. PICK c \in Nat : c = counter[Emulator(stream.mode, s)]
    BY <1>1, EmulatorType
  <2>2. Handle(s, stream.tag, c) /\ c \in Int /\ c + 1 \in Nat
    BY <1>2, <2>1 DEF Deliver
  <2>3. Taken(s) /\ UNCHANGED gaps
    BY <1>2 DEF Deliver
  <2>4. gaps' \subseteq 0 .. stream'.tag
    BY <2>3, TakeTypes DEF Types
  <2> QED BY <1>2, <2>2, <2>3, <2>4, HandleTypes, TakeTypes, DeliveredTypes DEF Types, TypeOK
<1>3. ASSUME NEW s \in Source, Repeat(s) PROVE Types'
  <2>1. PICK c \in Nat : c = counter[Emulator(stream.mode, s)]
    BY <1>1, EmulatorType
  <2>2. Handle(s, stream.tag, c - 1) /\ c - 1 \in Int /\ (c - 1) + 1 \in Nat
    BY <1>3, <2>1 DEF Repeat
  <2>3. UNCHANGED <<stream, counter>> /\ gaps' = gaps \cup {stream.tag}
    BY <1>3 DEF Repeat
  <2>4. gaps' \subseteq 0 .. stream'.tag
    <3>1. stream' = stream /\ stream.tag \in Nat
      BY <2>3 DEF Types, TypeOK
    <3>2. stream.tag \in 0 .. stream.tag
      BY <3>1
    <3> QED BY <2>3, <3>1, <3>2 DEF Types
  <2> QED BY <1>3, <2>2, <2>3, <2>4, HandleTypes, RepeatedTypes DEF Types, TypeOK
<1>4. ASSUME NEW s \in Source, Lose(s) PROVE Types'
  <2>1. /\ Taken(s) /\ IsLost /\ gaps' = gaps \cup {stream.tag}
        /\ UNCHANGED <<running, settings, checker, failed, starts>>
    BY <1>4 DEF Lose, IsLost
  <2>2. gaps' \subseteq 0 .. stream'.tag
    BY <2>1, TakeTypes DEF Types
  <2> QED BY <2>1, <2>2, TakeTypes, LostTypes DEF Types, TypeOK
<1>5. CASE NextEvent
  <2>1. gaps' \subseteq 0 .. stream'.tag
    BY <1>5, MoreTypes DEF NextEvent, Types
  <2>2. counter' \in [Source -> Nat]
    BY <1>1, <1>5 DEF NextEvent
  <2> QED BY <1>5, <2>1, <2>2, MoreTypes DEF NextEvent, MoreEvents, Types, TypeOK
<1>6. CASE LoseEvent
  <2>1. counter' \in [Source -> Nat]
    <3>1. ASSUME NEW e \in Source
          PROVE  Cardinality({s \in stream.left : Emulator(stream.mode, s) = e}) \in Nat
      <4>1. IsFiniteSet(stream.left)
        BY SourcesOfMode, FS_Subset DEF Types, TypeOK
      <4>2. {s \in stream.left : Emulator(stream.mode, s) = e} \in SUBSET stream.left
        OBVIOUS
      <4> QED BY <4>1, <4>2, FS_Subset, FS_CardinalityType
    <3> QED BY <1>1, <1>6, <3>1 DEF LoseEvent
  <2>2. gaps' \subseteq 0 .. stream'.tag
    BY <1>6, MoreTypes DEF LoseEvent, IsLost, Types
  <2> QED BY <1>6, <2>1, <2>2, MoreTypes, LostTypes DEF LoseEvent, MoreEvents, Types, TypeOK
<1>7. CASE Start \/ Launch
  <2>1. PICK m \in Mode, dropped \in BOOLEAN : Starts(m, dropped) /\ activeMatch' \in BOOLEAN
    BY <1>7, StartsIn DEF Start
  <2>2. PICK t \in Nat : Begins(m, dropped, t)
    BY <2>1, StrideIsPositive DEF Starts
  <2> QED BY <2>1, <2>2, BeginsTypes, ResetTypes DEF Starts, Types, TypeOK
<1>8. CASE ReInitialize
  <2>1. mode' \in Mode
    BY <1>8, PlainModes DEF ReInitialize
  <2> QED BY <1>8, <2>1 DEF ReInitialize, Types, TypeOK
<1>9. CASE Restart
  <2>1. Begins(mode, mode.skip, 0) /\ mode \in Mode
    BY <1>9 DEF Restart, Types, TypeOK
  <2>2. counter' \in [Source -> Nat]
    BY <1>1, <1>9 DEF Restart
  <2>3. /\ faults' \in [lost : Nat, doubled : Nat, stale : Nat, released : Nat, asEvents : Nat]
        /\ synced' \in BOOLEAN /\ seen' \subseteq Source /\ mismatches' \in Nat
        /\ nextCounter' \in [Ids -> Nat \cup {None}]
    <3>1. CASE keep
      BY <1>9, <3>1 DEF Restart, Types, TypeOK
    <3>2. CASE ~keep
      <4>1. ResetCounters
        BY <1>9, <3>2 DEF Restart
      <4> QED BY <4>1, ResetTypes
    <3> QED BY <3>1, <3>2
  <2> QED BY <1>9, <2>1, <2>2, <2>3, BeginsTypes DEF Restart, Types, TypeOK
<1>10. CASE Halt
  BY <1>10 DEF Halt, Types, TypeOK
<1>11. CASE UNCHANGED vars
  BY <1>11 DEF vars, Types, TypeOK
<1> QED
  BY <1>2, <1>3, <1>4, <1>5, <1>6, <1>7, <1>8, <1>9, <1>10, <1>11 DEF Next

\* The fields of the checker, its settings and the traffic have their types.
THEOREM TypeCorrect == Spec => []TypeOK
<1>1. Types => TypeOK
  BY DEF Types
<1> QED
  BY InitTypes, NextTypes, <1>1, PTL DEF Spec

-----------------------------------------------------------------------------
(* The tag expected and the traffic                                         *)

\* A subevent that leaves the checks silent has met them silent, passed both tag checks,
\* and was not handled in the event mode, which hands it over after it has moved on.
LEMMA SilentHandling ==
  ASSUME Types, NEW s \in Source, NEW c, Handle(s, stream.tag, c),
         running, faults'.released = faults.released, stream'.step = stream.step, Silent'
  PROVE  /\ Silent /\ ~mode.events /\ mode' = mode
         /\ TagOK(s, stream.tag) /\ Checks(s, stream.tag)
<1> DEFINE t == stream.tag
<1>1. t \in Nat /\ mode \in Mode
  BY DEF Types, TypeOK
<1>2. mismatches' = mismatches + Mismatches(s, t) /\ mismatches' = 0 /\ mismatches \in Nat
  BY DEF Handle, Silent, Types, TypeOK
<1>3. mismatches = 0 /\ Mismatches(s, t) = 0
  BY <1>2, MismatchCount
<1>4. TagOK(s, t)
  BY <1>3, MismatchCount
<1>5. mailbox' = mailbox /\ mode' = mode /\ Checks(s, t)
  BY <1>4 DEF Handle
<1>6. ~mode.events
  <2> SUFFICES ASSUME mode.events PROVE FALSE
    OBVIOUS
  <2>1. ~Syncs
    BY <1>1 DEF Syncs, Mode
  <2>2. TagExpected(t) = t + 1
    BY <2>1 DEF TagExpected, NextAfterEvent
  <2> QED BY <1>1, <1>4, <2>2 DEF TagOK
<1> QED BY <1>3, <1>4, <1>5, <1>6 DEF Silent, StrideFits

\* What a silent check of a subevent makes of the tag expected.
LEMMA SilentChecks ==
  ASSUME Types, NEW s \in Sources(mode), TagOK(s, stream.tag), Checks(s, stream.tag),
         ~mode.events, SeenSources \subseteq Sources(mode),
         ~UsesSourceSet(mode) => SeenSources = {} /\ seen = {}
  PROVE  /\ ~Syncs => next = stream.tag
         /\ expected' = IF Syncs THEN stream.tag ELSE expected
         /\ s \notin SeenSources
         /\ mode.evb => synced'
         /\ IF SeenSources \cup {s} = Sources(mode)
            THEN next' = stream.tag + Stride(mode) /\ seen' = {}
            ELSE next' = stream.tag /\ seen' = SeenSources \cup {s}
<1> DEFINE t == stream.tag
<1>1. mode \in Mode
  BY DEF Types, TypeOK
<1>2. SeenAfter(s, t) = SeenSources \cup {s} /\ SeenAfter(s, t) \in SUBSET Sources(mode)
  BY DEF SeenAfter
<1>3. ~Syncs => next = t
  BY DEF TagOK, TagExpected, NextAfterEvent
<1>4. CASE UsesSourceSet(mode)
  <2>1. Complete(s, t) <=> SeenSources \cup {s} = Sources(mode)
    BY <1>1, <1>2, <1>4, CompleteIsAll DEF Complete
  <2> QED BY <1>2, <1>3, <1>4, <2>1 DEF TagOK, Checks, Syncs
<1>5. CASE ~UsesSourceSet(mode)
  <2>1. Complete(s, t)
    BY <1>5 DEF Complete
  <2>2. SeenSources \cup {s} = Sources(mode)
    BY <1>1, <1>5, SourcesOfMode
  <2> QED BY <1>3, <1>5, <2>1, <2>2 DEF Checks, Syncs, UsesSourceSet
<1> QED BY <1>4, <1>5

\* A subevent that passes extends what has been seen by its source, and moves the tag on
\* only if nothing of the event was lost.
LEMMA DeliverSilent ==
  ASSUME Types, SilentInv, NEW s \in Source, Deliver(s), Silent'
  PROVE  Position' /\ NoGapPassed'
<1> DEFINE t == stream.tag
<1>1. Handle(s, t, counter[Emulator(stream.mode, s)]) /\ running /\ s \in stream.left
  BY DEF Deliver, Due
<1>2. faults'.released = faults.released /\ stream'.step = stream.step
  BY DeliveredTypes, TakeTypes DEF Deliver
<1>3. Silent /\ ~mode.events /\ mode' = mode /\ TagOK(s, t) /\ Checks(s, t)
  BY <1>1, <1>2, SilentHandling
<1>4. Position /\ NoGapPassed
  BY <1>3 DEF SilentInv
<1>5. stream.mode = mode /\ mode \in Mode /\ t \in Nat /\ gaps \subseteq 0 .. t
  BY <1>4 DEF Position, Types, TypeOK
<1>6. /\ stream'.mode = mode /\ stream'.tag = t /\ stream'.left = stream.left \ {s}
      /\ stream.left \subseteq Sources(mode) /\ gaps' = gaps
  BY <1>5, TakeTypes DEF Deliver, Types
<1>7. Stride(mode) \in Nat /\ Stride(mode) >= 1
  BY <1>5, StrideIsPositive
<1>8. SeenSources \subseteq Sources(mode) \ stream.left
  BY <1>1, <1>3, <1>4, <1>6, <1>7 DEF Position, SeenSources, NothingHandled, BehindTraffic,
     InsideEvent, EventPassed, TagOK, TagExpected, NextAfterEvent, Types, TypeOK
<1>9. IF t \in gaps THEN SeenSources \cup stream.left # Sources(mode)
      ELSE SeenSources = Sources(mode) \ stream.left
  BY <1>1, <1>3, <1>4, <1>6, <1>7 DEF Position, SeenSources, NothingHandled, BehindTraffic,
     InsideEvent, EventPassed, TagOK, TagExpected, NextAfterEvent, Types, TypeOK
<1>10. ~UsesSourceSet(mode) => SeenSources = {} /\ seen = {}
  BY <1>4 DEF Position, SeenSources
<1>11. /\ ~Syncs => next = t
       /\ expected' = IF Syncs THEN t ELSE expected
       /\ s \notin SeenSources
       /\ mode.evb => synced'
       /\ IF SeenSources \cup {s} = Sources(mode)
          THEN next' = t + Stride(mode) /\ seen' = {}
          ELSE next' = t /\ seen' = SeenSources \cup {s}
  BY <1>1, <1>3, <1>6, <1>8, <1>10, SilentChecks
<1>12. ~Syncs' /\ ~mode'.events
  BY <1>3, <1>11 DEF Syncs
<1>13. CASE SeenSources \cup {s} = Sources(mode)
  <2>1. t \notin gaps
    BY <1>1, <1>6, <1>8, <1>9, <1>13
  <2>2. stream.left \ {s} = {}
    BY <1>6, <1>8, <1>13
  <2>3. EventPassed'
    BY <1>3, <1>6, <1>11, <1>13, <2>1, <2>2 DEF EventPassed
  <2>4. NoGapPassed'
    <3> SUFFICES ASSUME NEW g \in gaps, g >= expected' PROVE FALSE
      BY <1>6 DEF NoGapPassed
    <3>1. g \in 0 .. t /\ g # t
      BY <1>5, <2>1
    <3>2. CASE Syncs
      BY <1>5, <1>11, <3>1, <3>2
    <3>3. CASE ~Syncs
      <4>1. t <= g
        BY <1>4, <1>11, <3>3 DEF NoGapPassed
      <4> QED BY <1>5, <3>1, <4>1
    <3> QED BY <3>2, <3>3
  <2>5. Position'
    BY <1>3, <1>6, <1>11, <1>12, <1>13, <2>3 DEF Position
  <2> QED BY <2>4, <2>5
<1>14. CASE SeenSources \cup {s} # Sources(mode)
  <2>1. InsideEvent'
    <3>1. SeenSources \cup {s} \subseteq Sources(mode) \ (stream.left \ {s})
      BY <1>1, <1>6, <1>8
    <3>2. t \in gaps => (SeenSources \cup {s}) \cup (stream.left \ {s}) # Sources(mode)
      <4>1. (SeenSources \cup {s}) \cup (stream.left \ {s}) = SeenSources \cup stream.left
        BY <1>1
      <4> QED BY <1>9, <4>1
    <3>3. t \notin gaps => SeenSources \cup {s} = Sources(mode) \ (stream.left \ {s})
      BY <1>1, <1>6, <1>9
    <3> QED BY <1>3, <1>6, <1>11, <1>14, <3>1, <3>2, <3>3 DEF InsideEvent
  <2>2. UsesSourceSet(mode)
    BY <1>1, <1>5, <1>6, <1>10, <1>14, SourcesOfMode
  <2>3. NoGapPassed'
    <3> SUFFICES ASSUME NEW g \in gaps, g >= expected' PROVE t <= g
      BY <1>6, <1>11, <1>14 DEF NoGapPassed
    <3>1. CASE Syncs
      BY <1>11, <3>1
    <3>2. CASE ~Syncs
      BY <1>4, <1>11, <3>2 DEF NoGapPassed
    <3> QED BY <3>1, <3>2
  <2>4. Position'
    BY <1>3, <1>6, <1>12, <2>1, <2>2 DEF Position
  <2> QED BY <2>3, <2>4
<1> QED BY <1>13, <1>14

\* A source that delivers an event twice is always noticed.
LEMMA RepeatSilent ==
  ASSUME Types, SilentInv, NEW s \in Source, Repeat(s), Silent'
  PROVE  FALSE
<1> DEFINE t == stream.tag
<1>1. /\ Handle(s, t, counter[Emulator(stream.mode, s)] - 1) /\ running /\ t \notin gaps
      /\ s \in Sources(stream.mode) \ stream.left
  BY DEF Repeat
<1>2. faults'.released = faults.released /\ stream'.step = stream.step
  BY RepeatedTypes DEF Repeat
<1>3. Silent /\ ~mode.events /\ TagOK(s, t)
  BY <1>1, <1>2, SilentHandling
<1>4. Position /\ stream.mode = mode /\ mode \in Mode /\ t \in Nat
  BY <1>3 DEF SilentInv, Position, Types, TypeOK
<1>5. ~Syncs
  BY <1>1, <1>3, <1>4 DEF Position, NothingHandled
<1>6. next = t
  BY <1>3, <1>5 DEF TagOK, TagExpected, NextAfterEvent
<1>7. InsideEvent
  BY <1>3, <1>4, <1>5, <1>6, StrideIsPositive DEF Position, BehindTraffic, EventPassed
<1>8. s \in seen
  BY <1>1, <1>4, <1>7 DEF InsideEvent
<1>9. UsesSourceSet(mode)
  BY <1>4, <1>8 DEF Position
<1> QED BY <1>3, <1>5, <1>8, <1>9 DEF TagOK, SeenSources

LEMMA LoseSilent ==
  ASSUME Types, SilentInv, NEW s \in Source, Lose(s), Silent'
  PROVE  Position' /\ NoGapPassed'
<1> DEFINE t == stream.tag
<1>1. /\ s \in stream.left /\ ~stream.mode.events
      /\ UNCHANGED <<running, settings, checker, failed, starts>>
      /\ gaps' = gaps \cup {t} /\ Taken(s)
  BY DEF Lose, Due, IsLost
<1>2. Silent
  BY <1>1, LostTypes, TakeTypes DEF Lose, Silent, StrideFits, settings, checker
<1>3. Position /\ NoGapPassed
  BY <1>2 DEF SilentInv
<1>4. stream.mode = mode /\ mode \in Mode /\ t \in Nat /\ next \in Nat /\ expected \in Nat
  BY <1>3 DEF Position, Types, TypeOK
<1>5. /\ stream'.mode = mode /\ stream'.tag = t /\ stream'.left = stream.left \ {s}
      /\ stream.left \subseteq Sources(mode)
  BY <1>1, <1>4, TakeTypes DEF Types
<1>6. UNCHANGED <<mode, next, expected, seen>> /\ (Syncs' <=> Syncs)
  BY <1>1 DEF settings, checker, Syncs
<1>7. ~EventPassed
  BY <1>1 DEF EventPassed
<1>8. CASE Syncs
  <2>1. NothingHandled
    BY <1>1, <1>3, <1>4, <1>8 DEF Position
  <2>2. NothingHandled'
    BY <1>1, <1>5, <1>6, <2>1 DEF NothingHandled
  <2>3. NoGapPassed'
    BY <1>1, <1>3, <1>4, <1>6, <2>1 DEF NoGapPassed, NothingHandled
  <2> QED BY <1>1, <1>3, <1>4, <1>5, <1>6, <1>8, <2>2, <2>3 DEF Position
<1>9. CASE ~Syncs
  <2>1. BehindTraffic \/ InsideEvent
    BY <1>1, <1>3, <1>4, <1>7, <1>9 DEF Position
  <2>2. InsideEvent => InsideEvent'
    BY <1>1, <1>5, <1>6 DEF InsideEvent
  <2>3. BehindTraffic => BehindTraffic'
    BY <1>5, <1>6 DEF BehindTraffic
  <2>4. next <= t
    BY <1>4, <2>1 DEF BehindTraffic, InsideEvent
  <2>5. NoGapPassed'
    BY <1>1, <1>3, <1>6, <2>4 DEF NoGapPassed
  <2>6. Position'
    BY <1>1, <1>3, <1>4, <1>5, <1>6, <1>9, <2>1, <2>2, <2>3 DEF Position
  <2> QED BY <2>5, <2>6
<1> QED BY <1>8, <1>9

\* The traffic moves on to an event of which nothing is missing yet; the tag expected is
\* left behind it, unless the last event has passed or none was handled.
LEMMA MoreSilent ==
  ASSUME Types, SilentInv, MoreEvents, Silent,
         \/ stream.left = {} /\ gaps' = gaps
         \/ stream.left = Sources(stream.mode) /\ gaps' = gaps \cup {stream.tag}
  PROVE  Position' /\ NoGapPassed'
<1> DEFINE t == stream.tag
<1>1. Position /\ NoGapPassed
  BY DEF SilentInv
<1>2. /\ stream.mode = mode /\ mode \in Mode /\ t \in Nat /\ next \in Nat /\ expected \in Nat
      /\ gaps \subseteq 0 .. t
  BY <1>1 DEF Position, Types, TypeOK
<1>3. /\ UNCHANGED <<mode, next, expected, seen>> /\ (Syncs' <=> Syncs)
  BY DEF MoreEvents, settings, checker, Syncs
<1>4. /\ stream'.mode = mode /\ stream'.left = Sources(mode)
      /\ stream'.tag = t + Stride(mode) /\ stream'.tag > t /\ stream'.tag \in Nat
  BY <1>2, MoreTypes, StrideIsPositive DEF Silent, StrideFits
<1>5. stream'.tag \notin gaps'
  BY <1>2, <1>4
<1>6. EventPassed => gaps' = gaps
  BY <1>2, SourcesOfMode DEF EventPassed
<1>7. next <= expected => NoGapPassed'
  <2> SUFFICES ASSUME next <= expected, NEW g \in gaps', g >= expected PROVE next <= g
    BY <1>3 DEF NoGapPassed
  <2>1. g \in gaps \/ g = t
    OBVIOUS
  <2>2. g \in Nat
    <3>1. 0 .. t \subseteq Nat
      BY <1>2
    <3>2. gaps \subseteq Nat /\ t \in Nat
      BY <1>2, <3>1
    <3> HIDE DEF t
    <3> QED BY <2>1, <3>2
  <2> QED BY <1>2, <2>2
<1>8. CASE mode.events
  <2>1. next <= expected
    BY <1>1, <1>8 DEF Position
  <2>2. Position'
    BY <1>1, <1>3, <1>4, <1>8, <2>1 DEF Position
  <2> QED BY <1>7, <2>1, <2>2
<1>9. CASE ~mode.events /\ Syncs
  <2>1. NothingHandled
    BY <1>1, <1>9 DEF Position
  <2>2. NothingHandled'
    BY <1>3, <1>4, <1>5, <2>1 DEF NothingHandled
  <2>3. NoGapPassed'
    BY <1>7, <2>1 DEF NothingHandled
  <2> QED BY <1>1, <1>3, <1>4, <1>9, <2>2, <2>3 DEF Position
<1>10. CASE ~mode.events /\ ~Syncs
  <2>1. BehindTraffic \/ InsideEvent \/ EventPassed
    BY <1>1, <1>10 DEF Position
  <2>2. CASE BehindTraffic \/ InsideEvent
    <3>1. next <= t
      BY <1>2, <2>2 DEF BehindTraffic, InsideEvent
    <3>2. BehindTraffic'
      BY <1>2, <1>3, <1>4, <3>1 DEF BehindTraffic
    <3>3. NoGapPassed'
      BY <1>1, <1>3, <3>1 DEF NoGapPassed
    <3> QED BY <1>1, <1>3, <1>4, <1>10, <3>2, <3>3 DEF Position
  <2>3. CASE EventPassed
    <3>1. InsideEvent'
      BY <1>3, <1>4, <1>5, <2>3 DEF EventPassed, InsideEvent
    <3>2. NoGapPassed'
      BY <1>1, <1>3, <1>6, <2>3 DEF NoGapPassed
    <3> QED BY <1>1, <1>3, <1>4, <1>10, <3>1, <3>2 DEF Position
  <2> QED BY <2>1, <2>2, <2>3
<1> QED BY <1>8, <1>9, <1>10

\* Traffic that begins where the tag is expected, or finds it out.
LEMMA BeginsSilent ==
  ASSUME NEW t \in Nat, NEW dropped, mode' \in Mode, Begins(mode', dropped, t), seen' = {}, synced' = FALSE,
         next' = expected', next' \in Nat, ~mode'.evb => next' = t
  PROVE  Position' /\ NoGapPassed'
<1>1. /\ stream'.mode = mode' /\ stream'.tag = t /\ stream'.left = Sources(mode')
      /\ gaps' = {}
  BY BeginsTypes
<1>2. NoGapPassed'
  BY <1>1 DEF NoGapPassed
<1>3. next' <= expected'
  OBVIOUS
<1>4. CASE mode'.evb
  <2>1. NothingHandled'
    BY <1>1, <1>3 DEF NothingHandled
  <2> QED BY <1>1, <1>2, <1>3, <1>4, <2>1 DEF Position, Syncs
<1>5. CASE ~mode'.evb
  <2>1. InsideEvent'
    BY <1>1, <1>5 DEF InsideEvent
  <2> QED BY <1>1, <1>2, <1>3, <1>5, <2>1 DEF Position, Syncs
<1> QED BY <1>4, <1>5

\* The thread syncs in EVB mode only, and nothing else moves the tag announced.
LEMMA HandleAnnounces ==
  ASSUME AnnouncedTag, NEW s, NEW t, NEW c, Handle(s, t, c)
  PROVE  AnnouncedTag'
BY DEF AnnouncedTag, Handle, Checks, Syncs

LEMMA NextSilent == Types /\ Types' /\ SilentInv /\ [Next]_vars => SilentInv'
<1> SUFFICES ASSUME Types, Types', SilentInv, [Next]_vars PROVE SilentInv'
  OBVIOUS
<1> USE DEF settings, checker, traffic
<1>1. AnnouncedTag
  BY DEF SilentInv
<1>2. ASSUME NEW s \in Source, Deliver(s) PROVE SilentInv'
  <2>1. AnnouncedTag'
    BY <1>1, <1>2, HandleAnnounces DEF Deliver
  <2> QED BY <1>2, <2>1, DeliverSilent DEF SilentInv
<1>3. ASSUME NEW s \in Source, Repeat(s) PROVE SilentInv'
  <2>1. AnnouncedTag'
    BY <1>1, <1>3, HandleAnnounces DEF Repeat
  <2> QED BY <1>3, <2>1, RepeatSilent DEF SilentInv
<1>4. ASSUME NEW s \in Source, Lose(s) PROVE SilentInv'
  <2>1. AnnouncedTag'
    BY <1>1, <1>4 DEF Lose, AnnouncedTag
  <2> QED BY <1>4, <2>1, LoseSilent DEF SilentInv
<1>5. CASE NextEvent
  <2>1. AnnouncedTag'
    BY <1>1, <1>5 DEF NextEvent, MoreEvents, AnnouncedTag
  <2>2. MoreEvents /\ stream.left = {} /\ gaps' = gaps /\ (Silent' => Silent)
    BY <1>5, MoreTypes DEF NextEvent, MoreEvents, Silent, StrideFits
  <2> QED BY <2>1, <2>2, MoreSilent DEF SilentInv
<1>6. CASE LoseEvent
  <2>1. AnnouncedTag'
    BY <1>1, <1>6 DEF LoseEvent, MoreEvents, AnnouncedTag
  <2>2. /\ MoreEvents /\ stream.left = Sources(stream.mode)
        /\ gaps' = gaps \cup {stream.tag}
    BY <1>6 DEF LoseEvent, IsLost
  <2>3. Silent' => Silent
    BY <1>6, LostTypes, MoreTypes DEF LoseEvent, MoreEvents, Silent, StrideFits
  <2> QED BY <2>1, <2>2, <2>3, MoreSilent DEF SilentInv
<1>7. CASE Start \/ Launch
  <2>1. PICK m \in Mode, dropped \in BOOLEAN : Starts(m, dropped)
    BY <1>7, StartsIn
  <2>2. PICK t \in IF m.evb THEN {0, Natural(m)} ELSE {0} : Begins(m, dropped, t)
    BY <2>1 DEF Starts
  <2>3. t \in Nat /\ (~m.evb => t = 0) /\ mode' = m
    BY <2>1, <2>2, StrideIsPositive DEF Starts
  <2>4. seen' = {} /\ synced' = FALSE /\ next' = 0 /\ expected' = 0 /\ mailbox' = FALSE
    BY <2>1 DEF Starts, ResetCounters
  <2>5. Position' /\ NoGapPassed'
    BY <2>1, <2>2, <2>3, <2>4, BeginsSilent
  <2> QED BY <2>4, <2>5 DEF SilentInv, AnnouncedTag
<1>8. CASE ReInitialize
  BY <1>8 DEF ReInitialize, SilentInv, AnnouncedTag, Silent
<1>9. CASE Restart
  <2>1. mode' = mode /\ mode \in Mode /\ next' = expected /\ expected' = expected
    BY <1>9 DEF Restart, Types, TypeOK
  <2>2. Begins(mode', mode.skip, 0) /\ mailbox' = FALSE /\ mailbox
    BY <1>9, <2>1 DEF Restart
  <2>3. ~mode.evb => expected = 0
    BY <1>1, <2>2 DEF AnnouncedTag
  <2>4. Silent' => ~keep
    <3> SUFFICES ASSUME keep PROVE faults'.released # 0
      BY DEF Silent
    <3>1. faults' = [faults EXCEPT !.released = @ + 1]
      BY <1>9 DEF Restart
    <3>2. faults'.released = faults.released + 1 /\ faults.released \in Nat
      BY <3>1 DEF Types
    <3> QED BY <3>2
  <2>5. ~keep => seen' = {} /\ synced' = FALSE
    BY <1>9, ResetTypes DEF Restart
  <2>6. expected \in Nat
    BY DEF Types, TypeOK
  <2>7. Silent' => Position' /\ NoGapPassed'
    BY <2>1, <2>2, <2>3, <2>4, <2>5, <2>6, BeginsSilent
  <2> QED BY <2>2, <2>7 DEF SilentInv, AnnouncedTag
<1>10. CASE Halt
  BY <1>1, <1>10 DEF Halt, SilentInv, AnnouncedTag, Silent
<1>11. CASE UNCHANGED vars
  BY <1>11 DEF vars, SilentInv, AnnouncedTag, Silent, StrideFits, Position, NoGapPassed, Syncs,
     NothingHandled, BehindTraffic, InsideEvent, EventPassed
<1> QED
  BY <1>2, <1>3, <1>4, <1>5, <1>6, <1>7, <1>8, <1>9, <1>10, <1>11 DEF Next

\* The checks are not silent over a loss: while no mismatch is counted, no restart has kept
\* old counters and the stride is the step of the traffic, the tag expected has not passed an event, from the first one accepted
\* on, of which something was lost or doubled.
THEOREM SilenceIsTrue == Spec => []SilenceMeansComplete
<1>1. Init => SilentInv
  BY DEF Init, SilentInv, AnnouncedTag, Silent
<1>2. Types /\ SilentInv => SilenceMeansComplete
  BY DEF SilentInv, Silent, NoGapPassed, SilenceMeansComplete
<1> QED
  BY InitTypes, NextTypes, NextSilent, <1>1, <1>2, PTL DEF Spec

-----------------------------------------------------------------------------
(* What the mismatches are owed to                                          *)

One(b) == IF b THEN 1 ELSE 0

\* Causes counted and not used up by a mismatch.
Credit ==
  faults.lost + 2 * faults.doubled + faults.stale + faults.released + faults.asEvents
    - mismatches

\* What has been seen is what has been delivered, and more is to come.
InStep(m, sn, lf) == lf # {} /\ sn = Sources(m) \ lf

\* Something of the event will never be seen.
Short(m, sn, lf) == sn \subseteq Sources(m) \ lf /\ sn \cup lf # Sources(m)

\* Sources seen in another mode are kept.
Unused(m, sn) == ~UsesSourceSet(m) /\ sn # {}

\* The mismatches still to come if nothing else goes wrong, or more: in mode m, with the
\* first subevent of an EVB run to come or not, nx the tag expected, sn the sources seen,
\* tg the tag of the traffic and lf its sources left.  Sources kept from before a restart
\* are owed one, as the next restart may keep them again.
DebtOf(m, first, nx, sn, tg, lf) ==
  IF first THEN One(lf # Sources(m)) + One(sn # {})
  ELSE IF nx < tg THEN 1 + One(lf # {} /\ lf # Sources(m)) + One(Unused(m, sn))
  ELSE IF nx > tg /\ lf # {} THEN 1 + One(lf # Sources(m)) + One(sn # {})
  ELSE IF nx > tg THEN
         IF UsesSourceSet(m) /\ sn # {} THEN 2
         ELSE One(nx # tg + Stride(m)) + One(Unused(m, sn))
  ELSE IF ~UsesSourceSet(m) THEN One(lf = {}) + One(Unused(m, sn))
  ELSE IF InStep(m, sn, lf) THEN 0
  ELSE IF Short(m, sn, lf) THEN 1 ELSE 2

Debt == DebtOf(mode, Syncs, next, seen, stream.tag, stream.left)

\* A thread with other settings than the traffic's that owes nothing will still accept the
\* next subevent.
GoodPosition ==
  \/ next = stream.tag /\ stream.left # {} /\ seen = Sources(stream.mode) \ stream.left
  \/ next = stream.tag + stream.step /\ stream.left = {} /\ seen = {}

Settled ==
  \/ Credit >= 1
  \/ GoodPosition
  \/ ~synced /\ seen = {} /\ (mode.evb \/ mode.merge = "off")

CreditInv ==
  /\ Credit >= 0
  /\ running /\ ~mailbox => stream.mode = mode
  /\ running /\ mailbox => ~mode.events /\ mode.merge = "off"
  /\ running /\ ~mailbox /\ StrideFits => Credit >= Debt
  /\ running /\ (mailbox \/ ~StrideFits) => Settled

\* The subevent of source s and tag tg passes the check of its tag, or would but for the
\* event mode.
FitsIn(m, first, nx, sn, tg, s) ==
  first \/ (nx = tg /\ (UsesSourceSet(m) => s \notin sn))

Fits(s, t) == FitsIn(mode, Syncs, next, seen, t, s)

\* The sources seen with it.
SeenWith(m, first, nx, sn, tg, s) ==
  IF FitsIn(m, first, nx, sn, tg, s) THEN (IF first THEN {} ELSE sn) \cup {s} ELSE {s}

\* It leaves nx1 the tag expected and sn1 the sources seen, and completes its event or not.
Leaves(m, first, nx, sn, tg, s, full, nx1, sn1) ==
  LET now == SeenWith(m, first, nx, sn, tg, s)
  IN  /\ ~UsesSourceSet(m) => full /\ sn1 = sn
      /\ UsesSourceSet(m) => sn1 = IF full THEN {} ELSE now
      /\ UsesSourceSet(m) /\ now \subseteq Sources(m) => (full <=> now = Sources(m))
      /\ nx1 = IF full THEN tg + Stride(m) ELSE tg

LEMMA MismatchIs ==
  ASSUME mode \in Mode, NEW s, NEW t \in Nat
  PROVE  Mismatches(s, t) = One(~Fits(s, t)) + One(mode.events)
<1> DEFINE M == {k \in {"event", "subevent"} :
                   IF k = "event" THEN EventMismatch(t) ELSE ~TagOK(s, t)}
<1>1. mode.events => ~mode.evb /\ mode.merge = "off"
  BY DEF Mode
<1>2. ~mode.events => (TagOK(s, t) <=> Fits(s, t)) /\ ~EventMismatch(t)
  BY DEF TagOK, Fits, FitsIn, TagExpected, NextAfterEvent, SeenSources, EventMismatch, Syncs
<1>3. mode.events => ~TagOK(s, t) /\ (EventMismatch(t) <=> ~Fits(s, t))
  BY <1>1 DEF TagOK, Fits, FitsIn, TagExpected, NextAfterEvent, EventMismatch, Syncs,
     UsesSourceSet
<1>4. /\ Cardinality({}) = 0 /\ Cardinality({"event"}) = 1 /\ Cardinality({"subevent"}) = 1
      /\ Cardinality({"event", "subevent"}) = 2
  <2>1. IsFiniteSet({"event"}) /\ Cardinality({"event"}) = 1 /\ "subevent" \notin {"event"}
    BY FS_Singleton
  <2>2. Cardinality({"event"} \cup {"subevent"}) = 2
    BY <2>1, FS_AddElement
  <2>3. {"event"} \cup {"subevent"} = {"event", "subevent"}
    OBVIOUS
  <2> QED BY <2>2, <2>3, FS_Singleton, FS_EmptySet
<1>5. M = (IF EventMismatch(t) THEN {"event"} ELSE {})
            \cup (IF TagOK(s, t) THEN {} ELSE {"subevent"})
  OBVIOUS
<1>6. Mismatches(s, t) = Cardinality(M)
  BY DEF Mismatches
<1> HIDE DEF M
<1>7. CASE mode.events
  <2>1. CASE Fits(s, t)
    <3>1. M = {"subevent"}
      BY <1>3, <1>5, <1>7, <2>1
    <3> QED BY <1>4, <1>6, <1>7, <2>1, <3>1 DEF One
  <2>2. CASE ~Fits(s, t)
    <3>1. M = {"event", "subevent"}
      BY <1>3, <1>5, <1>7, <2>2
    <3> QED BY <1>4, <1>6, <1>7, <2>2, <3>1 DEF One
  <2> QED BY <2>1, <2>2
<1>8. CASE ~mode.events
  <2>1. CASE Fits(s, t)
    <3>1. M = {}
      BY <1>2, <1>5, <1>8, <2>1
    <3> QED BY <1>4, <1>6, <1>8, <2>1, <3>1 DEF One
  <2>2. CASE ~Fits(s, t)
    <3>1. M = {"subevent"}
      BY <1>2, <1>5, <1>8, <2>2
    <3> QED BY <1>4, <1>6, <1>8, <2>2, <3>1 DEF One
  <2> QED BY <2>1, <2>2
<1> QED BY <1>7, <1>8

\* A debt is a number, never beyond 2 inside an event.
LEMMA DebtRange ==
  ASSUME NEW m \in Mode, NEW first \in BOOLEAN, NEW nx \in Nat, NEW sn, NEW tg \in Nat, NEW lf
  PROVE  /\ DebtOf(m, first, nx, sn, tg, lf) \in Nat
         /\ ~first /\ nx = tg => DebtOf(m, first, nx, sn, tg, lf) <= 2
BY DEF DebtOf, One

\* What one subevent makes of the tag expected and the sources seen.
LEMMA HandledState ==
  ASSUME Types, NEW s \in Sources(mode), Checks(s, stream.tag), mode' = mode
  PROVE  /\ ~Syncs'
         /\ \E full \in BOOLEAN :
              Leaves(mode, Syncs, next, seen, stream.tag, s, full, next', seen')
<1> DEFINE t == stream.tag
           now == SeenWith(mode, Syncs, next, seen, t, s)
<1>1. mode \in Mode /\ t \in Nat /\ (mode.events => ~UsesSourceSet(mode))
  BY DEF Types, TypeOK, Mode, UsesSourceSet
<1>2. UsesSourceSet(mode) => SeenAfter(s, t) = now
  BY <1>1 DEF TagOK, FitsIn, SeenWith, TagExpected, NextAfterEvent, SeenSources, Syncs,
     SeenAfter
<1>3. Complete(s, t) \in BOOLEAN
  BY DEF Complete
<1>4. ~Syncs'
  BY DEF Checks, Syncs
<1>5. UsesSourceSet(mode) /\ now \subseteq Sources(mode)
        => (Complete(s, t) <=> now = Sources(mode))
  BY <1>1, <1>2, CompleteIsAll DEF Complete
<1>6. ~UsesSourceSet(mode) => Complete(s, t) /\ seen' = seen
  BY DEF Complete, Checks
<1>7. UsesSourceSet(mode) => seen' = IF Complete(s, t) THEN {} ELSE now
  BY <1>2 DEF Checks
<1>8. next' = IF Complete(s, t) THEN t + Stride(mode) ELSE t
  BY DEF Checks
<1> HIDE DEF now
<1>9. Leaves(mode, Syncs, next, seen, t, s, Complete(s, t), next', seen')
  BY <1>5, <1>6, <1>7, <1>8 DEF Leaves, now
<1> QED BY <1>3, <1>4, <1>9

\* An event that has passed leaves no debt.
LEMMA PassedDebt ==
  ASSUME NEW m \in Mode, NEW tg \in Nat, NEW nx, nx = tg + Stride(m)
  PROVE  DebtOf(m, FALSE, nx, {}, tg, {}) = 0
<1>1. nx > tg /\ ~(nx < tg)
  BY StrideIsPositive
<1> QED BY <1>1 DEF DebtOf, One, Unused

\* The first subevent seen of an event leaves a debt only if another was lost.
LEMMA FreshDebt ==
  ASSUME NEW m \in Mode, UsesSourceSet(m), NEW tg \in Nat,
         NEW s \in Sources(m), {s} # Sources(m),
         NEW lf \in SUBSET Sources(m), s \notin lf
  PROVE  DebtOf(m, FALSE, tg, {s}, tg, lf) <= One({s} \cup lf # Sources(m))
<1>1. {s} \cup lf = Sources(m) => InStep(m, {s}, lf)
  BY DEF InStep
<1>2. {s} \cup lf # Sources(m) => Short(m, {s}, lf)
  BY DEF Short
<1> QED BY <1>1, <1>2 DEF DebtOf, One

\* Right after a subevent the debt is 2 at most.
LEMMA HandledDebt ==
  ASSUME NEW m \in Mode, UsesSourceSet(m), NEW tg \in Nat, NEW lf, NEW sn,
         NEW nx, nx = tg \/ (nx = tg + Stride(m) /\ sn = {})
  PROVE  DebtOf(m, FALSE, nx, sn, tg, lf) <= 2
<1>1. Stride(m) \in Nat /\ Stride(m) >= 1
  BY StrideIsPositive
<1>2. CASE nx = tg
  BY <1>2, DebtRange
<1>3. CASE nx = tg + Stride(m) /\ sn = {}
  <2>1. ~(nx < tg) /\ nx > tg
    BY <1>1, <1>3
  <2> QED BY <1>3, <2>1 DEF DebtOf, One, Unused
<1> QED BY <1>2, <1>3

\* A mismatch of a subevent that was to come pays back what it counts.
LEMMA TakeDebt ==
  ASSUME NEW m \in Mode, NEW first \in BOOLEAN, first => UsesSourceSet(m),
         NEW nx \in Nat, NEW tg \in Nat, NEW sn,
         NEW lf \in SUBSET Sources(m), NEW s \in lf,
         NEW full \in BOOLEAN, NEW nx1, NEW sn1,
         Leaves(m, first, nx, sn, tg, s, full, nx1, sn1)
  PROVE  DebtOf(m, FALSE, nx1, sn1, tg, lf \ {s}) + One(~FitsIn(m, first, nx, sn, tg, s))
           <= DebtOf(m, first, nx, sn, tg, lf)
<1>a. PICK fits \in BOOLEAN : fits <=> FitsIn(m, first, nx, sn, tg, s)
  BY DEF FitsIn
<1>b. PICK now : now = IF fits THEN (IF first THEN {} ELSE sn) \cup {s} ELSE {s}
  OBVIOUS
<1>c. /\ ~UsesSourceSet(m) => full /\ sn1 = sn
      /\ UsesSourceSet(m) => sn1 = IF full THEN {} ELSE now
      /\ UsesSourceSet(m) /\ now \subseteq Sources(m) => (full <=> now = Sources(m))
      /\ nx1 = IF full THEN tg + Stride(m) ELSE tg
  BY <1>a, <1>b DEF Leaves, SeenWith
<1>d. fits <=> (first \/ (nx = tg /\ (UsesSourceSet(m) => s \notin sn)))
  BY <1>a DEF FitsIn
<1> USE <1>b, <1>c, <1>d
<1> DEFINE W == Sources(m)
           before == DebtOf(m, first, nx, sn, tg, lf)
           after  == DebtOf(m, FALSE, nx1, sn1, tg, lf \ {s})
<1>1. Stride(m) \in Nat /\ Stride(m) >= 1
  BY StrideIsPositive
<1>2. nx1 \in Nat /\ before \in Nat /\ after \in Nat
  <2>1. nx1 \in Nat
    BY <1>1
  <2> QED BY <2>1, DebtRange
<1> SUFFICES after + One(~fits) <= before
  BY <1>a DEF before, after, One
<1> HIDE DEF before, after
<1>3. CASE ~UsesSourceSet(m)
  <2>1. lf = W /\ lf \ {s} = {} /\ lf # {}
    BY <1>3, SourcesOfMode
  <2>2. nx1 = tg + Stride(m) /\ sn1 = sn /\ ~first /\ (fits <=> nx = tg)
    BY <1>3
  <2>3. after = One(Unused(m, sn))
    BY <1>1, <1>3, <2>1, <2>2 DEF DebtOf, One, after
  <2>4. before = One(~fits) + One(Unused(m, sn))
    BY <1>1, <1>3, <2>1, <2>2 DEF DebtOf, One, Unused, before
  <2> QED BY <2>3, <2>4 DEF One
<1>4. CASE UsesSourceSet(m) /\ now = {s}
  <2>1. after <= One(lf # W)
    <3>1. {s} \cup (lf \ {s}) = lf
      OBVIOUS
    <3>2. /\ s \in W /\ sn1 = IF full THEN {} ELSE {s}
          /\ full <=> {s} = W
      BY <1>4
    <3>3. PICK rest : rest = lf \ {s}
      OBVIOUS
    <3>4. s \notin rest /\ rest \in SUBSET W
      BY <3>3
    <3>5. CASE full
      <4>1. rest = {} /\ nx1 = tg + Stride(m) /\ sn1 = {}
        BY <3>2, <3>4, <3>5
      <4>2. after = DebtOf(m, FALSE, nx1, {}, tg, {})
        BY <3>3, <4>1 DEF after
      <4>3. DebtOf(m, FALSE, nx1, {}, tg, {}) = 0
        BY <4>1, PassedDebt
      <4>4. after = 0
        BY <4>2, <4>3
      <4> QED BY <4>4 DEF One
    <3>6. CASE ~full
      <4>1. nx1 = tg /\ sn1 = {s} /\ {s} # W
        BY <3>2, <3>6
      <4>2. DebtOf(m, FALSE, tg, {s}, tg, rest) <= One({s} \cup rest # W)
        BY <1>4, <3>2, <3>4, <4>1, FreshDebt
      <4> QED BY <3>1, <3>3, <4>1, <4>2 DEF after
    <3> QED BY <3>5, <3>6
  <2>2. CASE first
    BY <1>2, <2>1, <2>2 DEF DebtOf, One, before
  <2>3. CASE ~first /\ nx # tg
    BY <1>2, <2>1, <2>3 DEF DebtOf, One, Unused, before
  <2>4. CASE ~first /\ nx = tg /\ s \in sn
    <3>1. ~InStep(m, sn, lf) /\ ~Short(m, sn, lf)
      BY <2>4 DEF InStep, Short
    <3>2. before = 2
      BY <1>4, <2>4, <3>1 DEF DebtOf, before
    <3> QED BY <1>2, <2>1, <3>2 DEF One
  <2>5. CASE ~first /\ nx = tg /\ s \notin sn
    <3>1. fits /\ sn = {}
      BY <1>4, <2>5
    <3>2. lf = W => after = 0
      BY <1>2, <2>1 DEF One
    <3>3. lf # W => before >= 1
      BY <1>4, <2>5, <3>1 DEF DebtOf, InStep, Short, before
    <3> QED BY <1>2, <2>1, <3>1, <3>2, <3>3 DEF One
  <2> QED BY <2>2, <2>3, <2>4, <2>5
<1>5. CASE UsesSourceSet(m) /\ now # {s}
  <2>1. fits /\ ~first /\ nx = tg /\ s \notin sn /\ now = sn \cup {s}
    BY <1>5
  <2>2. after <= 2
    BY <1>5, HandledDebt DEF after
  <2>3. CASE InStep(m, sn, lf)
    <3>1. now = W \ (lf \ {s}) /\ now \subseteq W
      BY <2>1, <2>3 DEF InStep
    <3>2. after = 0
      <4>1. CASE full
        <5>1. lf \ {s} = {} /\ nx1 = tg + Stride(m) /\ sn1 = {}
          BY <1>5, <3>1, <4>1
        <5> QED BY <1>1, <5>1 DEF DebtOf, One, Unused, after
      <4>2. CASE ~full
        <5>1. InStep(m, now, lf \ {s})
          BY <1>5, <3>1, <4>2 DEF InStep
        <5>2. nx1 = tg /\ sn1 = now
          BY <1>5, <4>2
        <5> QED BY <1>5, <5>1, <5>2 DEF DebtOf, after
      <4> QED BY <4>1, <4>2
    <3> QED BY <1>2, <2>1, <3>2 DEF One
  <2>4. CASE ~InStep(m, sn, lf) /\ Short(m, sn, lf)
    <3>1. now \subseteq W \ (lf \ {s}) /\ now \subseteq W
      BY <2>1, <2>4 DEF Short
    <3>2. now \cup (lf \ {s}) = sn \cup lf
      BY <2>1
    <3>3. now # W
      BY <2>4, <3>1, <3>2 DEF Short
    <3>4. ~full /\ Short(m, now, lf \ {s})
      BY <1>5, <2>4, <3>1, <3>2, <3>3 DEF Short
    <3>5. after <= 1
      <4>1. nx1 = tg /\ sn1 = now
        BY <1>5, <3>4
      <4> QED BY <1>5, <3>4, <4>1 DEF DebtOf, after
    <3>6. before = 1
      BY <1>5, <2>1, <2>4 DEF DebtOf, before
    <3> QED BY <1>2, <2>1, <3>5, <3>6 DEF One
  <2>5. CASE ~InStep(m, sn, lf) /\ ~Short(m, sn, lf)
    <3>1. before = 2
      BY <1>5, <2>1, <2>5 DEF DebtOf, before
    <3> QED BY <1>2, <2>1, <2>2, <3>1 DEF One
  <2> QED BY <2>3, <2>4, <2>5
<1> QED BY <1>3, <1>4, <1>5

\* A double counts its two mismatches in advance.
LEMMA RepeatDebt ==
  ASSUME NEW m \in Mode, NEW first \in BOOLEAN, first => UsesSourceSet(m),
         NEW nx \in Nat, NEW tg \in Nat, NEW sn,
         NEW lf \in SUBSET Sources(m), NEW s \in Sources(m) \ lf,
         NEW full \in BOOLEAN, NEW nx1, NEW sn1,
         Leaves(m, first, nx, sn, tg, s, full, nx1, sn1)
  PROVE  DebtOf(m, FALSE, nx1, sn1, tg, lf) + One(~FitsIn(m, first, nx, sn, tg, s))
             + One(m.events)
           <= DebtOf(m, first, nx, sn, tg, lf) + 2
<1>a. PICK fits \in BOOLEAN : fits <=> FitsIn(m, first, nx, sn, tg, s)
  BY DEF FitsIn
<1>b. PICK now : now = IF fits THEN (IF first THEN {} ELSE sn) \cup {s} ELSE {s}
  OBVIOUS
<1>c. /\ ~UsesSourceSet(m) => full /\ sn1 = sn
      /\ UsesSourceSet(m) => sn1 = IF full THEN {} ELSE now
      /\ UsesSourceSet(m) /\ now \subseteq Sources(m) => (full <=> now = Sources(m))
      /\ nx1 = IF full THEN tg + Stride(m) ELSE tg
  BY <1>a, <1>b DEF Leaves, SeenWith
<1> USE <1>b, <1>c
<1> DEFINE W == Sources(m)
           before == DebtOf(m, first, nx, sn, tg, lf)
           after  == DebtOf(m, FALSE, nx1, sn1, tg, lf)
<1>1. Stride(m) \in Nat /\ Stride(m) >= 1
  BY StrideIsPositive
<1>2. nx1 \in Nat /\ before \in Nat /\ after \in Nat
  <2>1. nx1 \in Nat
    BY <1>1
  <2> QED BY <2>1, DebtRange
<1> SUFFICES after + One(~fits) + One(m.events) <= before + 2
  BY <1>a DEF before, after, One
<1> HIDE DEF before, after
<1>3. CASE ~UsesSourceSet(m)
  <2>1. lf = {}
    BY <1>3, SourcesOfMode
  <2>2. nx1 = tg + Stride(m) /\ sn1 = sn /\ ~first
    BY <1>3
  <2>3. after = One(Unused(m, sn))
    BY <1>1, <1>3, <2>1, <2>2 DEF DebtOf, One, after
  <2>4. before >= One(Unused(m, sn))
    BY <1>1, <1>3, <2>1, <2>2 DEF DebtOf, One, Unused, before
  <2> QED BY <1>2, <2>3, <2>4 DEF One
<1>4. CASE UsesSourceSet(m)
  <2>1. ~m.events
    BY <1>4 DEF Mode, UsesSourceSet
  <2>2. CASE fits
    <3>1. after <= 2
      BY <1>4, HandledDebt DEF after
    <3> QED BY <1>2, <2>1, <2>2, <3>1 DEF One
  <2>3. CASE ~fits
    <3>1. after <= 1
      <4>1. CASE full
        <5>1. lf = {} /\ nx1 = tg + Stride(m) /\ sn1 = {}
          BY <1>4, <2>3, <4>1
        <5>2. after = DebtOf(m, FALSE, nx1, {}, tg, {})
          BY <5>1 DEF after
        <5>3. DebtOf(m, FALSE, nx1, {}, tg, {}) = 0
          BY <5>1, PassedDebt
        <5>4. after = 0
          BY <5>2, <5>3
        <5> QED BY <5>4
      <4>2. CASE ~full
        <5>1. nx1 = tg /\ sn1 = {s} /\ {s} # W
          BY <1>4, <2>3, <4>2
        <5>2. DebtOf(m, FALSE, tg, {s}, tg, lf) <= One({s} \cup lf # W)
          BY <1>4, <5>1, FreshDebt
        <5>3. after = DebtOf(m, FALSE, tg, {s}, tg, lf)
          BY <5>1 DEF after
        <5>4. One({s} \cup lf # W) \in {0, 1}
          BY DEF One
        <5>5. after <= 1
          <6> DEFINE a == One({s} \cup lf # W)
          <6>1. after <= a /\ a \in {0, 1}
            BY <5>2, <5>3, <5>4
          <6> HIDE DEF a
          <6> QED BY <1>2, <6>1
        <5> QED BY <5>5
      <4> QED BY <4>1, <4>2
    <3> QED BY <1>2, <2>1, <2>3, <3>1 DEF One
  <2> QED BY <2>2, <2>3
<1> QED BY <1>3, <1>4

\* A mismatch of a subevent that was to come was owed.
LEMMA MismatchOwed ==
  ASSUME NEW m \in Mode, NEW nx \in Nat, NEW tg \in Nat, NEW sn,
         NEW lf \in SUBSET Sources(m), NEW s \in lf,
         ~(nx = tg /\ (UsesSourceSet(m) => s \notin sn))
  PROVE  DebtOf(m, FALSE, nx, sn, tg, lf) >= 1
<1>1. nx = tg => UsesSourceSet(m) /\ ~InStep(m, sn, lf) /\ ~Short(m, sn, lf)
  BY DEF InStep, Short
<1>2. CASE nx = tg
  BY <1>1, <1>2 DEF DebtOf
<1>3. CASE nx # tg
  BY <1>3 DEF DebtOf, One
<1> QED BY <1>2, <1>3

\* A loss is at most one mismatch.
LEMMA LoseDebt ==
  ASSUME NEW m \in Mode, NEW first \in BOOLEAN, NEW nx \in Nat, NEW tg \in Nat, NEW sn,
         NEW lf \in SUBSET Sources(m), NEW s \in lf, NEW rest, rest = lf \ {s}
  PROVE  DebtOf(m, first, nx, sn, tg, rest) <= DebtOf(m, first, nx, sn, tg, lf) + 1
<1>1. rest # Sources(m) /\ lf # {}
  OBVIOUS
<1>2. CASE first
  BY <1>2 DEF DebtOf, One
<1>3. CASE ~first /\ nx # tg
  BY <1>1, <1>3 DEF DebtOf, One, Unused
<1>4. CASE ~first /\ nx = tg /\ ~UsesSourceSet(m)
  BY <1>4 DEF DebtOf, One
<1>5. CASE ~first /\ nx = tg /\ UsesSourceSet(m)
  <2>1. InStep(m, sn, lf) => Short(m, sn, rest)
    BY DEF InStep, Short
  <2>2. Short(m, sn, lf) => Short(m, sn, rest)
    BY DEF Short
  <2> QED BY <1>5, <2>1, <2>2 DEF DebtOf
<1> QED BY <1>2, <1>3, <1>4, <1>5

\* The next event begins: what is not yet paid is behind the traffic.
LEMMA NextDebt ==
  ASSUME NEW m \in Mode, NEW first \in BOOLEAN, NEW nx \in Nat, NEW tg \in Nat, NEW sn,
         NEW lf, NEW tg1, tg1 = tg + Stride(m)
  PROVE  /\ lf = {} => DebtOf(m, first, nx, sn, tg1, Sources(m)) <= DebtOf(m, first, nx, sn, tg, lf)
         /\ lf = Sources(m) =>
              DebtOf(m, first, nx, sn, tg1, Sources(m)) <= DebtOf(m, first, nx, sn, tg, lf) + 1
<1>1. Stride(m) \in Nat /\ Stride(m) >= 1 /\ Sources(m) # {}
  BY StrideIsPositive, SourcesOfMode
<1>2. tg1 \in Nat /\ tg1 > tg
  BY <1>1
<1>3. CASE first
  BY <1>1, <1>3 DEF DebtOf, One
<1>4. CASE ~first /\ nx < tg
  BY <1>1, <1>2, <1>4 DEF DebtOf, One
<1>5. CASE ~first /\ nx = tg
  <2>1. nx < tg1 /\ ~(nx < tg) /\ ~(nx > tg)
    BY <1>2, <1>5
  <2>2. DebtOf(m, first, nx, sn, tg1, Sources(m)) = 1 + One(Unused(m, sn))
    BY <1>1, <1>5, <2>1 DEF DebtOf, One
  <2>3. UsesSourceSet(m) /\ lf = {} => ~InStep(m, sn, lf)
    BY DEF InStep
  <2> QED BY <1>1, <1>5, <2>1, <2>2, <2>3 DEF DebtOf, One, Unused
<1>6. CASE ~first /\ nx > tg
  <2>1. CASE nx = tg1
    <3>1. sn = {} => InStep(m, sn, Sources(m))
      BY <1>1 DEF InStep
    <3> QED BY <1>1, <1>2, <1>6, <2>1, <3>1 DEF DebtOf, One, Unused
  <2>2. CASE nx # tg1
    BY <1>1, <1>2, <1>6, <2>2 DEF DebtOf, One, Unused
  <2> QED BY <2>1, <2>2
<1> QED BY <1>3, <1>4, <1>5, <1>6

\* Without a debt the next subevent will be accepted.
LEMMA NoDebt ==
  ASSUME NEW m \in Mode, NEW first \in BOOLEAN, NEW nx \in Nat, NEW tg \in Nat, NEW sn,
         NEW lf \in SUBSET Sources(m), DebtOf(m, first, nx, sn, tg, lf) = 0
  PROVE  \/ first /\ sn = {}
         \/ nx = tg /\ lf # {} /\ sn = Sources(m) \ lf
         \/ nx = tg + Stride(m) /\ lf = {} /\ sn = {}
<1>1. CASE first
  BY <1>1 DEF DebtOf, One
<1>2. CASE ~first /\ nx < tg
  BY <1>2 DEF DebtOf, One
<1>3. CASE ~first /\ nx > tg
  BY <1>3 DEF DebtOf, One, Unused
<1>4. CASE ~first /\ nx = tg /\ UsesSourceSet(m)
  BY <1>4 DEF DebtOf, InStep
<1>5. CASE ~first /\ nx = tg /\ ~UsesSourceSet(m)
  <2>1. lf # {} /\ sn = {}
    BY <1>5 DEF DebtOf, One, Unused
  <2>2. lf = Sources(m)
    BY <1>5, <2>1, SourcesOfMode
  <2> QED BY <1>5, <2>1, <2>2
<1> QED BY <1>1, <1>2, <1>3, <1>4, <1>5

\* Traffic that begins anew: owed are the sources kept and a tag that is not the traffic's.
LEMMA NewDebt ==
  ASSUME NEW m \in Mode, NEW first \in BOOLEAN, NEW nx \in Nat, NEW tg \in Nat, NEW sn
  PROVE  /\ DebtOf(m, first, nx, sn, tg, Sources(m)) <= 2
         /\ sn = {} => DebtOf(m, first, nx, sn, tg, Sources(m)) <= 1
         /\ sn = {} /\ (first \/ nx = tg) => DebtOf(m, first, nx, sn, tg, Sources(m)) = 0
<1>1. Sources(m) # {}
  BY SourcesOfMode
<1>2. sn = {} => InStep(m, sn, Sources(m))
  BY <1>1 DEF InStep
<1>3. CASE first
  BY <1>1, <1>3 DEF DebtOf, One
<1>4. CASE ~first /\ nx # tg
  BY <1>1, <1>4 DEF DebtOf, One, Unused
<1>5. CASE ~first /\ nx = tg
  BY <1>1, <1>2, <1>5 DEF DebtOf, One, Unused
<1> QED BY <1>3, <1>4, <1>5

\* The parts of the state the credit and the debt are made of.
LEMMA CreditTypes ==
  ASSUME Types
  PROVE  /\ Credit \in Int /\ mismatches \in Nat
         /\ faults.lost \in Nat /\ faults.doubled \in Nat /\ faults.stale \in Nat
         /\ faults.released \in Nat /\ faults.asEvents \in Nat
         /\ mode \in Mode /\ mode.events \in BOOLEAN /\ mode.evb \in BOOLEAN
         /\ Syncs \in BOOLEAN /\ (Syncs => UsesSourceSet(mode))
         /\ next \in Nat /\ stream.tag \in Nat
         /\ stream.left \in SUBSET Sources(stream.mode)
         /\ mailbox \in BOOLEAN /\ Debt \in Nat
<1>1. /\ faults.lost \in Nat /\ faults.doubled \in Nat /\ faults.stale \in Nat
      /\ faults.released \in Nat /\ faults.asEvents \in Nat /\ mismatches \in Nat
  BY DEF Types, TypeOK
<1>2. /\ mode \in Mode /\ next \in Nat /\ stream.tag \in Nat /\ synced \in BOOLEAN
      /\ stream.left \in SUBSET Sources(stream.mode) /\ mailbox \in BOOLEAN
  BY DEF Types, TypeOK
<1>3. mode.events \in BOOLEAN /\ mode.evb \in BOOLEAN
  BY <1>2, PlainModes
<1>4. Syncs \in BOOLEAN /\ (Syncs => UsesSourceSet(mode))
  BY <1>2, <1>3 DEF Syncs, UsesSourceSet
<1>5. Debt \in Nat
  BY <1>2, <1>4, DebtRange DEF Debt
<1>6. Credit \in Int
  BY <1>1 DEF Credit
<1> QED BY <1>1, <1>2, <1>3, <1>4, <1>5, <1>6

LEMMA DeliverCredit ==
  ASSUME Types, CreditInv, NEW s \in Source, Deliver(s)
  PROVE  CreditInv'
<1> DEFINE t == stream.tag
<1>1. PICK c : c = counter[Emulator(stream.mode, s)]
  OBVIOUS
<1>2. Handle(s, t, c) /\ running /\ s \in stream.left /\ Credit >= 0
  BY <1>1 DEF Deliver, Due, CreditInv
<1>3. UNCHANGED <<mode, mailbox>> /\ mismatches' = mismatches + One(~Fits(s, t)) + One(mode.events)
  <2>1. Mismatches(s, t) = One(~Fits(s, t)) + One(mode.events)
    BY MismatchIs, CreditTypes
  <2>2. UNCHANGED <<mode, mailbox>> /\ mismatches' = mismatches + Mismatches(s, t)
    BY <1>2 DEF Handle
  <2>3. One(~Fits(s, t)) \in Nat /\ One(mode.events) \in Nat
    BY DEF One
  <2> QED BY <2>1, <2>2, <2>3, CreditTypes
<1>4. Credit' = Credit + Stale - One(~Fits(s, t))
  <2>1. /\ faults'.lost = faults.lost /\ faults'.doubled = faults.doubled
        /\ faults'.released = faults.released
        /\ faults'.stale = faults.stale + Stale
        /\ faults'.asEvents = faults.asEvents + One(mode.events)
    BY DeliveredTypes DEF One
  <2>2. One(~Fits(s, t)) \in Nat /\ One(mode.events) \in Nat /\ Stale \in Nat
    BY FaultCounts DEF One
  <2> QED BY <1>3, <2>1, <2>2, CreditTypes DEF Credit
<1>5. /\ stream'.mode = stream.mode /\ stream'.tag = t /\ stream'.left = stream.left \ {s}
      /\ stream'.step = stream.step /\ (StrideFits' <=> StrideFits)
  BY <1>3, TakeTypes DEF Deliver, StrideFits
<1>6. running' => Checks(s, t)
  BY <1>2 DEF Handle, Stops
<1>7. running' /\ ~mailbox' => stream'.mode = mode'
  BY <1>2, <1>3, <1>5 DEF CreditInv
<1>8. running' /\ mailbox' => ~mode'.events /\ mode'.merge = "off"
  BY <1>2, <1>3 DEF CreditInv
<1>9. CASE ~mailbox /\ StrideFits
  <2>1. stream.mode = mode /\ Credit >= Debt /\ stream.left \in SUBSET Sources(mode)
    BY <1>2, <1>9, CreditTypes DEF CreditInv
  <2>2. ~Fits(s, t) => Debt >= 1
    <3> SUFFICES ASSUME ~Fits(s, t) PROVE Debt >= 1
      OBVIOUS
    <3>1. Syncs = FALSE /\ ~(next = t /\ (UsesSourceSet(mode) => s \notin seen))
      BY CreditTypes DEF Fits, FitsIn
    <3> QED BY <1>2, <2>1, <3>1, MismatchOwed, CreditTypes DEF Debt
  <2>3. Stale = 0
    BY <1>9 DEF Stale
  <2>4. Credit' >= 0
    BY <1>4, <2>1, <2>2, <2>3, CreditTypes DEF One
  <2>5. ASSUME running' PROVE Credit' >= Debt'
    <3>1. PICK full \in BOOLEAN :
            ~Syncs' /\ Leaves(mode, Syncs, next, seen, t, s, full, next', seen')
      BY <1>2, <1>3, <1>6, <2>1, <2>5, HandledState
    <3>2. Debt' = DebtOf(mode, FALSE, next', seen', t, stream.left \ {s})
      BY <1>3, <1>5, <3>1 DEF Debt, DebtOf
    <3>4. DebtOf(mode, FALSE, next', seen', t, stream.left \ {s}) + One(~Fits(s, t)) <= Debt
      <4>1. PICK m, first, nx, sn, tg, lf :
              /\ m = mode /\ first = Syncs /\ nx = next /\ sn = seen /\ tg = t
              /\ lf = stream.left
        OBVIOUS
      <4>2. PICK nx1, sn1 : nx1 = next' /\ sn1 = seen'
        OBVIOUS
      <4>3. /\ m \in Mode /\ first \in BOOLEAN /\ nx \in Nat /\ tg \in Nat
            /\ lf \in SUBSET Sources(m) /\ s \in lf /\ (first => UsesSourceSet(m))
            /\ Leaves(m, first, nx, sn, tg, s, full, nx1, sn1)
        BY <1>2, <2>1, <3>1, <4>1, <4>2, CreditTypes
      <4>4. DebtOf(m, FALSE, nx1, sn1, tg, lf \ {s}) + One(~FitsIn(m, first, nx, sn, tg, s))
              <= DebtOf(m, first, nx, sn, tg, lf)
        BY <4>3, TakeDebt
      <4> QED BY <4>1, <4>2, <4>4 DEF Debt, Fits
    <3>5. Debt' \in Int
      <4>1. next' \in Nat /\ t \in Nat /\ mode \in Mode
        BY <3>1, CreditTypes, StrideIsPositive DEF Leaves
      <4>2. DebtOf(mode, FALSE, next', seen', t, stream.left \ {s}) \in Nat
        BY <4>1, DebtRange
      <4>3. Debt' \in Nat
        BY <3>2, <4>2, Zenon
      <4> QED BY <4>3
    <3>6. Debt' + One(~Fits(s, t)) <= Debt
      BY <3>2, <3>4
    <3> QED BY <1>4, <2>1, <2>3, <3>5, <3>6, CreditTypes DEF One
  <2> QED BY <1>3, <1>5, <1>7, <1>8, <1>9, <2>4, <2>5 DEF CreditInv
<1>10. CASE mailbox \/ ~StrideFits
  <2>1. Settled
    BY <1>2, <1>10 DEF CreditInv
  <2>2. Stale = 1
    BY <1>10 DEF Stale
  <2>3. Credit' \in Int /\ Credit' >= Credit /\ (Fits(s, t) => Credit' >= 1)
    BY <1>2, <1>4, <2>2, CreditTypes DEF One
  <2>4. GoodPosition => Fits(s, t)
    BY <1>2 DEF GoodPosition, Fits, FitsIn
  <2>5. ASSUME ~synced, seen = {}, mode.evb \/ mode.merge = "off", running', ~Fits(s, t)
        PROVE  ~synced' /\ seen' = {}
    <3>1. ~Syncs /\ ~UsesSourceSet(mode)
      BY <2>5 DEF Fits, FitsIn, Syncs, UsesSourceSet
    <3> QED BY <1>6, <2>5, <3>1 DEF Checks
  <2>6. running' => Settled'
    <3>1. Credit >= 1 => Credit' >= 1
      BY <1>2, <2>3, CreditTypes
    <3> QED BY <1>3, <2>1, <2>3, <2>4, <2>5, <3>1 DEF Settled
  <2>7. Credit' >= 0
    BY <1>2, <2>3, CreditTypes
  <2> QED BY <1>3, <1>5, <1>7, <1>8, <1>10, <2>6, <2>7 DEF CreditInv
<1> QED BY <1>9, <1>10

LEMMA RepeatCredit ==
  ASSUME Types, CreditInv, NEW s \in Source, Repeat(s)
  PROVE  CreditInv'
<1> DEFINE t == stream.tag
<1>a. PICK c : c = counter[Emulator(stream.mode, s)] - 1
  OBVIOUS
<1>1. Handle(s, t, c) /\ running /\ ~mailbox /\ Credit >= 0 /\ UNCHANGED stream
  BY <1>a DEF Repeat, CreditInv
<1>2. /\ stream.mode = mode /\ (StrideFits => Credit >= Debt)
      /\ stream.left \in SUBSET Sources(mode) /\ s \in Sources(mode) \ stream.left
  BY <1>1, CreditTypes DEF CreditInv, Repeat
<1>3. UNCHANGED <<mode, mailbox>> /\ mismatches' = mismatches + One(~Fits(s, t)) + One(mode.events)
  <2>1. Mismatches(s, t) = One(~Fits(s, t)) + One(mode.events)
    BY MismatchIs, CreditTypes
  <2>2. UNCHANGED <<mode, mailbox>> /\ mismatches' = mismatches + Mismatches(s, t)
    BY <1>1 DEF Handle
  <2>3. One(~Fits(s, t)) \in Nat /\ One(mode.events) \in Nat
    BY DEF One
  <2> QED BY <2>1, <2>2, <2>3, CreditTypes
<1>4. Credit' = Credit + 2 + Stale - One(~Fits(s, t)) - One(mode.events)
  <2>1. /\ faults'.lost = faults.lost /\ faults'.doubled = faults.doubled + 1
        /\ faults'.released = faults.released /\ faults'.stale = faults.stale + Stale
        /\ faults'.asEvents = faults.asEvents
    BY RepeatedTypes
  <2>2. One(~Fits(s, t)) \in Nat /\ One(mode.events) \in Nat /\ Stale \in Nat
    BY FaultCounts DEF One
  <2> QED BY <1>3, <2>1, <2>2, CreditTypes DEF Credit
<1>5. Credit' >= 0
  BY <1>1, <1>4, CreditTypes, FaultCounts DEF One
<1>6. StrideFits' <=> StrideFits
  BY <1>1, <1>3 DEF StrideFits
<1>7. ASSUME running', StrideFits PROVE Credit' >= Debt'
  <2>1. Checks(s, t)
    BY <1>1, <1>7 DEF Handle, Stops
  <2>2. PICK full \in BOOLEAN :
          ~Syncs' /\ Leaves(mode, Syncs, next, seen, t, s, full, next', seen')
    BY <1>2, <1>3, <2>1, HandledState
  <2>3. Debt' = DebtOf(mode, FALSE, next', seen', t, stream.left)
    BY <1>1, <1>3, <2>2 DEF Debt, DebtOf
  <2>4. DebtOf(mode, FALSE, next', seen', t, stream.left) + One(~Fits(s, t)) + One(mode.events)
          <= Debt + 2
    <3>1. PICK m, first, nx, sn, tg, lf :
            /\ m = mode /\ first = Syncs /\ nx = next /\ sn = seen /\ tg = t
            /\ lf = stream.left
      OBVIOUS
    <3>2. PICK nx1, sn1 : nx1 = next' /\ sn1 = seen'
      OBVIOUS
    <3>3. /\ m \in Mode /\ first \in BOOLEAN /\ nx \in Nat /\ tg \in Nat
          /\ lf \in SUBSET Sources(m) /\ s \in Sources(m) \ lf
          /\ (first => UsesSourceSet(m))
          /\ Leaves(m, first, nx, sn, tg, s, full, nx1, sn1)
      BY <1>2, <2>2, <3>1, <3>2, CreditTypes
    <3>4. DebtOf(m, FALSE, nx1, sn1, tg, lf) + One(~FitsIn(m, first, nx, sn, tg, s))
              + One(m.events)
            <= DebtOf(m, first, nx, sn, tg, lf) + 2
      BY <3>3, RepeatDebt
    <3> QED BY <3>1, <3>2, <3>4 DEF Debt, Fits
  <2>5. Debt' \in Int
    <3>1. next' \in Nat /\ t \in Nat /\ mode \in Mode
      BY <2>2, CreditTypes, StrideIsPositive DEF Leaves
    <3>2. DebtOf(mode, FALSE, next', seen', t, stream.left) \in Nat
      BY <3>1, DebtRange
    <3>3. Debt' \in Nat
      BY <2>3, <3>2, Zenon
    <3> QED BY <3>3
  <2>6. Debt' + One(~Fits(s, t)) + One(mode.events) <= Debt + 2
    BY <2>3, <2>4
  <2>7. Stale = 0 /\ Credit >= Debt
    BY <1>1, <1>2, <1>7 DEF Stale
  <2> QED BY <1>4, <2>5, <2>6, <2>7, CreditTypes DEF One
<1>8. ASSUME ~StrideFits PROVE Settled'
  <2>1. Stale = 1
    BY <1>8 DEF Stale
  <2> QED BY <1>1, <1>4, <2>1, CreditTypes DEF One, Settled
<1> QED BY <1>1, <1>2, <1>3, <1>5, <1>6, <1>7, <1>8 DEF CreditInv

\* A loss adds to the credit what it may add to the debt.
LEMMA FaultCredit ==
  ASSUME Types, IsLost, UNCHANGED mismatches
  PROVE  Credit' = Credit + 1
BY LostTypes, CreditTypes DEF Credit

LEMMA LoseCredit ==
  ASSUME Types, CreditInv, NEW s \in Source, Lose(s)
  PROVE  CreditInv'
<1>1. /\ UNCHANGED <<running, mode, mailbox, synced, next, seen>> /\ (Syncs' <=> Syncs)
      /\ s \in stream.left /\ running
  BY DEF Lose, Due, settings, checker, Syncs
<1>2. Credit' = Credit + 1 /\ Credit >= 0
  BY FaultCredit DEF Lose, CreditInv, checker
<1>3. /\ stream'.mode = stream.mode /\ stream'.tag = stream.tag
      /\ stream'.left = stream.left \ {s} /\ stream'.step = stream.step
  BY TakeTypes DEF Lose
<1>4. ASSUME ~mailbox, StrideFits PROVE Credit' >= Debt'
  <2>1. stream.mode = mode /\ Credit >= Debt
    BY <1>1, <1>4 DEF CreditInv
  <2>2. PICK rest : rest = stream.left \ {s}
    OBVIOUS
  <2>3. DebtOf(mode, Syncs, next, seen, stream.tag, rest) <= Debt + 1
    BY <1>1, <2>1, <2>2, LoseDebt, CreditTypes DEF Debt
  <2>4. Debt' = DebtOf(mode, Syncs, next, seen, stream.tag, rest)
    BY <1>1, <1>3, <2>2 DEF Debt, DebtOf
  <2>5. DebtOf(mode, Syncs, next, seen, stream.tag, rest) \in Nat
    BY DebtRange, CreditTypes
  <2>6. Credit' >= DebtOf(mode, Syncs, next, seen, stream.tag, rest)
    BY <1>2, <2>1, <2>3, <2>5, CreditTypes
  <2> QED BY <2>1, <2>4, <2>6
<1>5. Credit' >= 0 /\ Settled'
  BY <1>2, CreditTypes DEF Settled
<1>6. StrideFits' <=> StrideFits
  BY <1>1, <1>3 DEF StrideFits
<1> QED BY <1>1, <1>3, <1>4, <1>5, <1>6 DEF CreditInv

\* The traffic moves on: after a lost event with one more to the credit.
LEMMA MoreCredit ==
  ASSUME Types, CreditInv, MoreEvents, running,
         \/ stream.left = {} /\ UNCHANGED faults
         \/ stream.left = Sources(stream.mode) /\ IsLost
  PROVE  CreditInv'
<1>1. /\ UNCHANGED <<running, mode, mailbox, synced, next, seen, mismatches>> /\ (Syncs' <=> Syncs)
  BY DEF MoreEvents, settings, checker, Syncs
<1>2. /\ stream'.mode = stream.mode /\ stream'.left = Sources(stream.mode)
      /\ stream'.tag = stream.tag + stream.step /\ stream'.step = stream.step
  BY MoreTypes
<1>3. Credit \in Int /\ Credit >= 0 /\ Debt \in Nat
  BY CreditTypes DEF CreditInv
<1>4. \/ stream.left = {} /\ Credit' = Credit
      \/ stream.left = Sources(stream.mode) /\ Credit' = Credit + 1
  <2>1. UNCHANGED faults => Credit' = Credit
    BY <1>1 DEF Credit
  <2> QED BY <1>1, <2>1, FaultCredit
<1>5. ASSUME ~mailbox, StrideFits PROVE Credit' >= Debt'
  <2>1. stream.mode = mode /\ Credit >= Debt
    BY <1>5 DEF CreditInv
  <2>2. PICK tg1 : tg1 = stream.tag + Stride(mode)
    OBVIOUS
  <2>3. tg1 \in Nat
    BY <2>2, CreditTypes, StrideIsPositive
  <2>4. PICK d : d = DebtOf(mode, Syncs, next, seen, tg1, Sources(mode))
    OBVIOUS
  <2>5. d \in Nat
    BY <2>3, <2>4, DebtRange, CreditTypes
  <2>6. /\ stream.left = {} => d <= Debt
        /\ stream.left = Sources(mode) => d <= Debt + 1
    BY <2>2, <2>4, NextDebt, CreditTypes DEF Debt
  <2>7. Debt' = d
    BY <1>1, <1>2, <1>5, <2>1, <2>2, <2>4 DEF Debt, DebtOf, StrideFits
  <2>8. Credit' >= d
    BY <1>3, <1>4, <2>1, <2>5, <2>6
  <2> QED BY <2>1, <2>7, <2>8
<1>6. ASSUME stream.left = {}, GoodPosition PROVE GoodPosition'
  <2>1. next = stream'.tag /\ seen = {} /\ stream'.left # {}
    BY <1>2, <1>6, SourcesOfMode DEF GoodPosition, Types, TypeOK
  <2> QED BY <1>1, <1>2, <2>1 DEF GoodPosition
<1>7. Credit' >= 0
  BY <1>3, <1>4
<1>8. Settled => Settled'
  BY <1>1, <1>3, <1>4, <1>6 DEF Settled
<1>9. StrideFits' <=> StrideFits
  BY <1>1, <1>2 DEF StrideFits
<1> QED BY <1>1, <1>2, <1>5, <1>7, <1>8, <1>9 DEF CreditInv

\* Reset counters leave neither credit nor debt.
LEMMA ResetCredit ==
  ASSUME ResetCounters, NEW t \in Nat, NEW dropped, mode' \in Mode,
         Begins(mode', dropped, t), ~mailbox',
         next' \in Nat, ~mode'.evb => next' = t
  PROVE  CreditInv'
<1>1. /\ seen' = {} /\ synced' = FALSE /\ mismatches' = 0 /\ faults' = NoFaults
  BY DEF ResetCounters
<1>2. Credit' = 0
  BY <1>1 DEF Credit, NoFaults
<1>3. stream'.mode = mode' /\ stream'.tag = t /\ stream'.left = Sources(mode')
  BY BeginsTypes
<1>4. PICK m, first, nx, sn : m = mode' /\ first = Syncs' /\ nx = next' /\ sn = seen'
  OBVIOUS
<1>5. m \in Mode /\ first \in BOOLEAN /\ nx \in Nat /\ sn = {} /\ (first \/ nx = t)
  <2>1. mode'.evb \in BOOLEAN
    BY PlainModes
  <2>2. Syncs' <=> mode'.evb
    BY <1>1 DEF Syncs
  <2>3. Syncs' \in BOOLEAN
    BY <1>1, <2>1 DEF Syncs
  <2> QED BY <1>1, <1>4, <2>2, <2>3
<1>6. DebtOf(m, first, nx, sn, t, Sources(m)) = 0
  BY <1>5, NewDebt
<1>7. Debt' = DebtOf(m, first, nx, sn, t, Sources(m))
  BY <1>3, <1>4 DEF Debt
<1>8. Settled'
  <2>1. CASE mode'.evb
    BY <1>1, <2>1 DEF Settled
  <2>2. CASE ~mode'.evb
    <3>1. Sources(mode') # {}
      BY SourcesOfMode
    <3>2. GoodPosition'
      BY <1>1, <1>3, <2>2, <3>1 DEF GoodPosition
    <3> QED BY <3>2 DEF Settled
  <2> QED BY <2>1, <2>2
<1> QED BY <1>2, <1>3, <1>6, <1>7, <1>8 DEF CreditInv

LEMMA RestartCredit ==
  ASSUME Types, AnnouncedTag, CreditInv, Restart
  PROVE  CreditInv'
<1>1. /\ mode' = mode /\ mode \in Mode /\ Begins(mode', mode.skip, 0) /\ ~mailbox' /\ mailbox
      /\ next' = expected /\ expected \in Nat /\ running
  BY DEF Restart, Types, TypeOK
<1>2. CASE ~keep
  <2>1. ResetCounters
    BY <1>2 DEF Restart
  <2>2. ~mode'.evb => next' = 0
    BY <1>1 DEF AnnouncedTag
  <2> QED BY <1>1, <2>1, <2>2, ResetCredit
<1>3. CASE keep
  <2>1. UNCHANGED <<synced, seen, mismatches>> /\ faults' = [faults EXCEPT !.released = @ + 1]
    BY <1>3 DEF Restart
  <2>2. Credit' = Credit + 1
    <3>1. /\ faults'.lost = faults.lost /\ faults'.doubled = faults.doubled
          /\ faults'.released = faults.released + 1 /\ faults'.stale = faults.stale
          /\ faults'.asEvents = faults.asEvents
      BY <2>1 DEF Types
    <3> QED BY <2>1, <3>1, CreditTypes DEF Credit
  <2>3. stream'.mode = mode /\ stream'.tag = 0 /\ stream'.left = Sources(mode)
    BY <1>1, BeginsTypes
  <2>4. Credit >= 0 /\ (Credit >= 1 \/ seen = {})
    <3>1. stream.left \in {{}, Sources(stream.mode)}
      BY DEF Restart
    <3>2. GoodPosition => seen = {}
      BY <3>1 DEF GoodPosition
    <3> QED BY <1>1, <3>2 DEF CreditInv, Settled
  <2>5. PICK first, nx, sn : first = Syncs' /\ nx = next' /\ sn = seen'
    OBVIOUS
  <2>6. first \in BOOLEAN /\ nx \in Nat /\ sn = seen
    <3>1. Syncs' <=> Syncs
      BY <1>1, <2>1 DEF Syncs
    <3>2. Syncs' \in BOOLEAN
      BY DEF Syncs
    <3> QED BY <1>1, <2>1, <2>5, <3>2
  <2>7. PICK d : d = DebtOf(mode, first, nx, sn, 0, Sources(mode))
    OBVIOUS
  <2>8. d \in Nat /\ d <= 2 /\ (seen = {} => d <= 1)
    BY <1>1, <2>6, <2>7, NewDebt, DebtRange
  <2>9. Debt' = d
    BY <1>1, <2>3, <2>5, <2>7 DEF Debt
  <2>10. Credit' >= d /\ Credit' >= 0
    BY <2>2, <2>4, <2>8, CreditTypes
  <2>11. Settled'
    BY <2>2, <2>4, CreditTypes DEF Settled
  <2> QED BY <1>1, <2>3, <2>9, <2>10, <2>11 DEF CreditInv
<1> QED BY <1>2, <1>3

LEMMA NextCredit == Types /\ SilentInv /\ CreditInv /\ [Next]_vars => CreditInv'
<1> SUFFICES ASSUME Types, SilentInv, CreditInv, [Next]_vars PROVE CreditInv'
  OBVIOUS
<1>1. CASE NextEvent
  BY <1>1, MoreCredit DEF NextEvent
<1>2. CASE LoseEvent
  BY <1>2, MoreCredit DEF LoseEvent
<1>3. CASE Start \/ Launch
  <2>1. PICK m \in Mode, dropped \in BOOLEAN : Starts(m, dropped)
    BY <1>3, StartsIn
  <2>2. mode' = m /\ next' = 0 /\ ~mailbox' /\ ResetCounters
    BY <2>1 DEF Starts
  <2>3. PICK t \in IF m.evb THEN {0, Natural(m)} ELSE {0} : Begins(m, dropped, t)
    BY <2>1 DEF Starts
  <2>4. t \in Nat /\ (~m.evb => next' = t)
    BY <2>2, <2>3, StrideIsPositive
  <2> QED BY <2>2, <2>3, <2>4, ResetCredit
<1>4. CASE ReInitialize
  <2>1. /\ running /\ mailbox' /\ ~mode'.events /\ mode'.merge = "off"
        /\ UNCHANGED <<running, next, synced, seen, mismatches, stream, faults>>
    BY <1>4, PlainModes DEF ReInitialize, checker, traffic
  <2>2. Credit' = Credit /\ (GoodPosition' <=> GoodPosition)
    BY <2>1 DEF Credit, GoodPosition
  <2>3. Credit >= 1 \/ GoodPosition \/ (~synced /\ seen = {})
    <3>1. CASE mailbox \/ ~StrideFits
      BY <2>1, <3>1 DEF CreditInv, Settled
    <3>2. CASE ~mailbox /\ StrideFits /\ Credit # 0
      BY <3>2, CreditTypes DEF CreditInv
    <3>3. CASE ~mailbox /\ StrideFits /\ Credit = 0
      <4>1. stream.mode = mode /\ Debt = 0
        BY <2>1, <3>3, CreditTypes DEF CreditInv
      <4>2. PICK first, lf : first = Syncs /\ lf = stream.left
        OBVIOUS
      <4>3. \/ first /\ seen = {}
            \/ next = stream.tag /\ lf # {} /\ seen = Sources(mode) \ lf
            \/ next = stream.tag + Stride(mode) /\ lf = {} /\ seen = {}
        BY <4>1, <4>2, NoDebt, CreditTypes DEF Debt
      <4> QED BY <3>3, <4>1, <4>2, <4>3 DEF GoodPosition, Syncs, StrideFits
    <3> QED BY <3>1, <3>2, <3>3
  <2>4. Credit' >= 0 /\ Settled'
    BY <2>1, <2>2, <2>3 DEF CreditInv, Settled
  <2> QED BY <2>1, <2>4 DEF CreditInv
<1>5. CASE Halt
  BY <1>5 DEF Halt, CreditInv, Credit, checker
<1>6. CASE UNCHANGED vars
  <2>1. UNCHANGED <<running, mode, mailbox, synced, next, seen, mismatches, stream, faults>>
    BY <1>6 DEF vars, settings, checker, traffic
  <2>2. /\ Credit' = Credit /\ Debt' = Debt /\ (GoodPosition' <=> GoodPosition)
        /\ (StrideFits' <=> StrideFits)
    BY <2>1 DEF Credit, Debt, Syncs, GoodPosition, StrideFits
  <2>3. Settled' <=> Settled
    BY <2>1, <2>2 DEF Settled
  <2> QED BY <2>1, <2>2, <2>3 DEF CreditInv
<1> QED
  BY <1>1, <1>2, <1>3, <1>4, <1>5, <1>6, DeliverCredit, RepeatCredit, LoseCredit,
     RestartCredit DEF Next, SilentInv

-----------------------------------------------------------------------------
(* The ROC emulator check                                                   *)

\* Nothing that could break the counters has happened.
Unbroken ==
  faults.lost = 0 /\ faults.doubled = 0 /\ faults.stale = 0 /\ faults.released = 0

\* The emulators are told apart, and none counts what is dropped.
Numbered == ~Dropped /\ ~SharedIds(stream.mode)

\* Then every stream is continued by the next block, and none is kept without the check.
EmulatorInv ==
  /\ running => failed = "no"
  /\ failed = "emulator" => ~Unbroken \/ ~Numbered
  /\ running /\ ~mailbox => stream.mode = mode
  /\ running /\ ~mailbox /\ Unbroken /\ Numbered =>
       \A s \in Sources(mode) :
         /\ nextCounter[s[2]] \in {None, counter[Emulator(mode, s)]}
         /\ ~check => nextCounter[s[2]] = None

\* Sources with one key have one emulator, unless the two DTCs of a merge share their id.
LEMMA OneKey ==
  ASSUME NEW m \in Mode, ~SharedIds(m), NEW r \in Sources(m), NEW s \in Sources(m)
  PROVE  r[2] = s[2] <=> Emulator(m, r) = Emulator(m, s)
<1>1. r \in Source /\ s \in Source
  BY SourcesOfMode
<1>2. r = <<r[1], r[2]>> /\ s = <<s[1], s[2]>>
  BY <1>1 DEF Source
<1>3. CASE m.merge = "evenodd"
  BY <1>3 DEF Emulator
<1>4. CASE m.merge = "off"
  <2>1. r[1] = 0 /\ s[1] = 0
    BY <1>4 DEF Sources, Other
  <2> QED BY <1>2, <1>4, <2>1 DEF Emulator
<1>5. CASE m.merge = "matching"
  <2>1. /\ (r[1] = 0 /\ r[2] = Local) \/ (r[1] = 1 /\ r[2] = Peer)
        /\ (s[1] = 0 /\ s[2] = Local) \/ (s[1] = 1 /\ s[2] = Peer)
    <3>1. Own(m) = {Local} /\ Other(m) = {Peer}
      BY <1>5 DEF Own, Other
    <3>2. Sources(m) = {<<0, Local>>, <<1, Peer>>}
      BY <3>1 DEF Sources
    <3> QED BY <3>2
  <2>2. Peer # Local
    BY <1>5 DEF SharedIds
  <2> QED BY <1>2, <1>5, <2>1, <2>2 DEF Emulator
<1> QED BY <1>3, <1>4, <1>5 DEF Mode

LEMMA SomePositive ==
  ASSUME NEW a \in Nat, NEW b \in Nat, NEW c \in Nat, NEW d \in Nat,
         a # 0 \/ b # 0 \/ d # 0 \/ c # 0
  PROVE  a + b + c + d > 0
OBVIOUS

\* An emulator check that fails has met a counter that does not continue.
LEMMA HandleEnds ==
  ASSUME NEW s \in Source, NEW t, NEW c, Handle(s, t, c)
  PROVE  /\ mailbox' = mailbox /\ check' = check
         /\ \/ running' = FALSE /\ UNCHANGED nextCounter
               /\ (failed' = "emulator" => check /\ ~Continues(s, c))
            \/ Accepted(s, c)
BY DEF Handle, Stops

\* A delivered block continues its stream and leaves it to be continued.
LEMMA DeliverEmulator ==
  ASSUME Types, EmulatorInv, NEW s \in Source, Deliver(s)
  PROVE  EmulatorInv'
<1> DEFINE m == mode
<1>1. PICK e \in Source : e = Emulator(stream.mode, s)
  BY EmulatorType
<1>2. PICK c \in Nat : c = counter[e]
  BY DEF Types, TypeOK
<1>3. /\ running /\ failed = "no" /\ Handle(s, stream.tag, c)
      /\ counter' = [counter EXCEPT ![e] = c + 1]
  BY <1>1, <1>2 DEF Deliver, Taken, EmulatorInv
<1>4. /\ mailbox' = mailbox /\ check' = check /\ mode' = mode
      /\ \/ running' = FALSE /\ UNCHANGED nextCounter
            /\ (failed' = "emulator" => check /\ ~Continues(s, c))
         \/ Accepted(s, c)
  BY <1>3, HandleEnds DEF Handle
<1>5. /\ stream'.mode = stream.mode /\ stream'.step = stream.step
      /\ s \in stream.left /\ stream.left \subseteq Sources(stream.mode)
  BY TakeTypes DEF Deliver, Due, Types
<1>6. Numbered' <=> Numbered
  BY <1>5 DEF Numbered, Dropped
<1>7. running' /\ ~mailbox' => stream'.mode = mode'
  BY <1>3, <1>4, <1>5 DEF EmulatorInv
<1>8. running' => failed' = "no"
  BY <1>3, <1>4 DEF Accepted
<1>9. CASE ~(Unbroken' /\ Numbered)
  <2>1. failed' = "emulator" => ~Unbroken' \/ ~Numbered'
    BY <1>6, <1>9
  <2> QED BY <1>6, <1>7, <1>8, <1>9, <2>1 DEF EmulatorInv
<1>10. CASE Unbroken' /\ Numbered
  <2>1. Unbroken /\ ~mailbox
    BY <1>10, DeliveredTypes, FaultCounts DEF Unbroken, Stale
  <2>2. stream.mode = m /\ m \in Mode /\ s \in Sources(m) /\ ~SharedIds(m)
    BY <1>3, <1>5, <1>10, <2>1 DEF EmulatorInv, Numbered, Types, TypeOK
  <2>3. \A r \in Sources(m) : /\ nextCounter[r[2]] \in {None, counter[Emulator(m, r)]}
                              /\ ~check => nextCounter[r[2]] = None
    BY <1>3, <1>10, <2>1 DEF EmulatorInv
  <2>4. Continues(s, c)
    BY <1>1, <1>2, <2>2, <2>3 DEF Continues
  <2>5. failed' # "emulator"
    BY <1>3, <1>4, <2>4 DEF Accepted
  <2>6. ASSUME Accepted(s, c), NEW r \in Sources(m)
        PROVE  /\ nextCounter'[r[2]] \in {None, counter'[Emulator(m, r)]}
               /\ ~check => nextCounter'[r[2]] = None
    <3>1. r \in Source /\ Emulator(m, r) \in Source /\ r[2] \in Ids /\ s[2] \in Ids
      BY <2>2, SourcesOfMode, EmulatorType
    <3>2. /\ nextCounter \in [Ids -> Nat \cup {None}] /\ counter \in [Source -> Nat]
      BY DEF Types, TypeOK
    <3>3. nextCounter'[r[2]] = IF r[2] = s[2] /\ check THEN c + 1 ELSE nextCounter[r[2]]
      BY <2>6, <3>1, <3>2 DEF Accepted
    <3>4. counter'[Emulator(m, r)] = IF Emulator(m, r) = e THEN c + 1
                                     ELSE counter[Emulator(m, r)]
      BY <1>3, <3>1, <3>2
    <3>5. r[2] = s[2] <=> Emulator(m, r) = e
      BY <1>1, <2>2, OneKey
    <3> QED BY <2>3, <3>3, <3>4, <3>5
  <2>7. CASE running' = FALSE
    BY <1>8, <2>5, <2>7 DEF EmulatorInv
  <2>8. CASE Accepted(s, c)
    <3>1. \A r \in Sources(mode') : /\ nextCounter'[r[2]] \in {None, counter'[Emulator(mode', r)]}
                                    /\ ~check' => nextCounter'[r[2]] = None
      BY <1>4, <2>6, <2>8
    <3> QED BY <1>7, <1>8, <2>5, <3>1 DEF EmulatorInv
  <2> QED BY <1>4, <2>7, <2>8
<1> QED BY <1>9, <1>10

LEMMA NextEmulator == Types /\ Types' /\ EmulatorInv /\ [Next]_vars => EmulatorInv'
<1> SUFFICES ASSUME Types, Types', EmulatorInv, [Next]_vars PROVE EmulatorInv'
  OBVIOUS
<1> USE DEF settings, checker, traffic
<1>1. ASSUME NEW s \in Source, Deliver(s) PROVE EmulatorInv'
  BY <1>1, DeliverEmulator
<1>2. ASSUME NEW s \in Source, Repeat(s) PROVE EmulatorInv'
  <2>1. PICK c : c = counter[Emulator(stream.mode, s)] - 1
    OBVIOUS
  <2>2. running /\ failed = "no" /\ Handle(s, stream.tag, c) /\ UNCHANGED stream
    BY <1>2, <2>1 DEF Repeat, EmulatorInv
  <2>3. ~Unbroken'
    BY <1>2, RepeatedTypes, FaultCounts DEF Unbroken
  <2>4. running' = FALSE \/ failed' = failed
    BY <2>2, HandleEnds DEF Accepted
  <2>5. mode' = mode /\ mailbox' = mailbox
    BY <2>2 DEF Handle
  <2> QED BY <2>2, <2>3, <2>4, <2>5 DEF EmulatorInv
<1>3. ASSUME NEW s \in Source, Lose(s) PROVE EmulatorInv'
  <2>1. ~Unbroken'
    BY <1>3, LostTypes, FaultCounts DEF Lose, Unbroken
  <2>2. stream'.mode = stream.mode
    BY <1>3, TakeTypes DEF Lose
  <2> QED BY <1>3, <2>1, <2>2 DEF Lose, EmulatorInv
<1>4. CASE NextEvent
  <2>1. stream'.mode = stream.mode /\ (Numbered' <=> Numbered) /\ (Numbered => counter' = counter)
    BY <1>4, MoreTypes DEF NextEvent, Numbered, Dropped
  <2> QED BY <1>4, <2>1 DEF NextEvent, MoreEvents, EmulatorInv, Unbroken
<1>5. CASE LoseEvent
  <2>1. ~Unbroken'
    BY <1>5, LostTypes, FaultCounts DEF LoseEvent, Unbroken
  <2>2. stream'.mode = stream.mode
    BY <1>5, MoreTypes DEF LoseEvent
  <2> QED BY <1>5, <2>1, <2>2 DEF LoseEvent, MoreEvents, EmulatorInv
<1>6. CASE Start \/ Launch
  <2>1. PICK m \in Mode, dropped \in BOOLEAN : Starts(m, dropped)
    BY <1>6, StartsIn
  <2>2. failed' = "no" /\ mode' = m /\ \A i \in Ids : nextCounter'[i] = None
    BY <2>1 DEF Starts, ResetCounters
  <2>3. stream'.mode = m
    BY <2>1, BeginsTypes, StrideIsPositive DEF Starts
  <2>4. \A s \in Sources(m) : nextCounter'[s[2]] = None
    BY <2>2, SourcesOfMode, EmulatorType
  <2> QED BY <2>2, <2>3, <2>4 DEF EmulatorInv
<1>7. CASE ReInitialize
  BY <1>7 DEF ReInitialize, EmulatorInv, Unbroken, Numbered, Dropped
<1>8. CASE Restart
  <2>1. /\ running /\ UNCHANGED <<running, failed, mode>> /\ failed = "no" /\ mode \in Mode
        /\ Begins(mode, mode.skip, 0)
    BY <1>8 DEF Restart, EmulatorInv, Types, TypeOK
  <2>2. stream'.mode = mode'
    BY <2>1, BeginsTypes
  <2>3. CASE keep
    <3>1. ~Unbroken'
      BY <1>8, <2>3, FaultCounts DEF Restart, Unbroken, Types
    <3> QED BY <2>1, <2>2, <3>1 DEF EmulatorInv
  <2>4. CASE ~keep
    <3>1. \A i \in Ids : nextCounter'[i] = None
      BY <1>8, <2>4 DEF Restart, ResetCounters
    <3>2. \A s \in Sources(mode) : nextCounter'[s[2]] = None
      BY <2>1, <3>1, SourcesOfMode, EmulatorType
    <3> QED BY <2>1, <2>2, <3>2 DEF EmulatorInv
  <2> QED BY <2>3, <2>4
<1>9. CASE Halt
  BY <1>9 DEF Halt, EmulatorInv, Unbroken, Numbered, Dropped
<1>10. CASE UNCHANGED vars
  BY <1>10 DEF vars, EmulatorInv, Unbroken, Numbered, Dropped
<1> QED
  BY <1>1, <1>2, <1>3, <1>4, <1>5, <1>6, <1>7, <1>8, <1>9, <1>10 DEF Next

\* There is no false alarm: the mismatches counted are no more than the losses, doubles,
\* restarts and subevents under other settings account for, and an emulator check fails
\* only after one of them, or where events are dropped or two sources have one id.
THEOREM NoFalseAlarms == Spec => []AlarmsHaveCauses
<1>1. Init => SilentInv /\ CreditInv /\ EmulatorInv
  BY DEF Init, SilentInv, AnnouncedTag, Silent, CreditInv, Credit, NoFaults, EmulatorInv
<1>2. Types /\ CreditInv /\ EmulatorInv => AlarmsHaveCauses
  <2> SUFFICES ASSUME Types, CreditInv, EmulatorInv PROVE AlarmsHaveCauses
    OBVIOUS
  <2>1. Credit >= 0
    BY DEF CreditInv
  <2>2. mismatches <= faults.lost + 2 * faults.doubled
                        + faults.stale + faults.released + faults.asEvents
    BY <2>1, CreditTypes DEF Credit
  <2>3. failed = "emulator"
          => \/ faults.lost + faults.doubled + faults.released + faults.stale > 0
             \/ Dropped \/ SharedIds(stream.mode)
    <3> SUFFICES ASSUME failed = "emulator", ~Dropped, ~SharedIds(stream.mode)
                 PROVE  faults.lost + faults.doubled + faults.released + faults.stale > 0
      OBVIOUS
    <3>1. \/ faults.lost # 0 \/ faults.doubled # 0
          \/ faults.stale # 0 \/ faults.released # 0
      BY DEF EmulatorInv, Unbroken, Numbered
    <3> QED BY <3>1, FaultCounts, SomePositive
  <2> QED BY <2>2, <2>3 DEF AlarmsHaveCauses
<1> QED
  BY InitTypes, NextTypes, NextSilent, NextCredit, NextEmulator, <1>1, <1>2, PTL DEF Spec
=============================================================================
