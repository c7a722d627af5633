-------------------------- MODULE FlashUploadProofs --------------------------
(***************************************************************************)
(* Proofs about FlashUpload for any ROCs, any size of the image, any       *)
(* numbers of attempts and tries, and any number of faults and foreign     *)
(* accesses, wherever they fall.                                           *)
(***************************************************************************)
EXTENDS FlashUpload, TLAPS

USE SizeAssumption, OptAssumption, TryAssumption

Blocks == [Block -> [Record -> Content]]
Stages == {"send", "wait", "ok", "err", "again", "out"}
States == {"Selected", "Uploading", "Verified", "Failed"}
Ops    == {"probe", "probeRead", "erase", "write", "crc", "read", "image", "done"}

-----------------------------------------------------------------------------
(* Sequences of commands and replies                                        *)

LEMMA Staling ==
  /\ \A c \in Commands : /\ Stale(c) \in Commands /\ ~Stale(c).fresh
                         /\ Stale(c).act = c.act /\ Stale(c).seg = c.seg
                         /\ Stale(c).rec = c.rec /\ Stale(c).tagged = c.tagged
  /\ \A x \in Replies : /\ Stale(x) \in Replies /\ ~Stale(x).fresh
                        /\ Stale(x).kind = x.kind /\ Stale(x).ok = x.ok
                        /\ Stale(x).seg = x.seg /\ Stale(x).rec = x.rec
BY DEF Stale, Commands, Replies

LEMMA AgedTypes ==
  /\ \A s \in Seq(Commands) : Aged(s) \in Seq(Commands)
  /\ \A s \in Seq(Replies) : Aged(s) \in Seq(Replies)
<1>1. ASSUME NEW s \in Seq(Commands) PROVE Aged(s) \in Seq(Commands)
  <2>1. \A i \in 1..Len(s) : Stale(s[i]) \in Commands
    BY Staling
  <2>2. Aged(s) \in [1..Len(s) -> Commands] /\ Len(s) \in Nat
    BY <2>1 DEF Aged
  <2> QED
    BY <2>2
<1>2. ASSUME NEW s \in Seq(Replies) PROVE Aged(s) \in Seq(Replies)
  <2>1. \A i \in 1..Len(s) : Stale(s[i]) \in Replies
    BY Staling
  <2>2. Aged(s) \in [1..Len(s) -> Replies] /\ Len(s) \in Nat
    BY <2>1 DEF Aged
  <2> QED
    BY <2>2
<1> QED
  BY <1>1, <1>2

LEMMA Appending ==
  ASSUME NEW S, NEW s \in Seq(S), NEW c \in S
  PROVE  /\ Append(s, c) \in Seq(S) /\ Len(Append(s, c)) = Len(s) + 1 /\ Len(s) \in Nat
         /\ DOMAIN s = 1..Len(s) /\ DOMAIN Append(s, c) = 1..(Len(s) + 1)
         /\ \A i \in 1..Len(s) : Append(s, c)[i] = s[i]
         /\ Append(s, c)[Len(s) + 1] = c
OBVIOUS

LEMMA Tailing ==
  ASSUME NEW S, NEW s \in Seq(S), s # <<>>
  PROVE  /\ Tail(s) \in Seq(S) /\ Head(s) = s[1] /\ Head(s) \in S
         /\ Len(s) \in Nat /\ Len(s) > 0
         /\ DOMAIN s = 1..Len(s) /\ DOMAIN Tail(s) = 1..(Len(s) - 1)
         /\ \A i \in 1..(Len(s) - 1) : Tail(s)[i] = s[i + 1]
OBVIOUS

-----------------------------------------------------------------------------
(* Types                                                                    *)

LEMMA CommandTypes ==
  ASSUME TypeOK, op # "done", NEW r \in Roc
  PROVE  /\ Command(op, seg, rec, Tagged(r)) \in Commands
         /\ Command("other", Protected, 1, FALSE) \in Commands
<1>1. Tagged(r) \in BOOLEAN
  BY DEF Tagged, TypeOK
<1> QED
  BY <1>1 DEF TypeOK, Command, Commands, Segment, Record, Protected

LEMMA ReplyTypes ==
  ASSUME NEW r, NEW c \in Commands, NEW ok \in BOOLEAN
  PROVE  Reply(r, c, ok) \in Replies
BY DEF Reply, Replies, Commands

LEMMA InitTypes == Init => TypeOK
<1> SUFFICES ASSUME Init PROVE TypeOK
  OBVIOUS
<1>1. flash \in [Roc -> Blocks]
  BY DEF Init, Content, Blocks
<1>2. queue \in [Roc -> Seq(Commands)] /\ fifo \in [Roc -> Seq(Replies)]
  BY DEF Init
<1>3. seg \in Segment /\ rec \in Record /\ attempt \in Nat /\ round \in Nat /\ faults \in Nat
  BY DEF Init, Segment, Record
<1>4. /\ exec \in [Roc -> BOOLEAN] /\ state \in [Roc -> States] /\ newMiv \in [Roc -> BOOLEAN]
      /\ op \in Ops /\ stage \in [Roc -> Stages] /\ sawBusy \in [Roc -> BOOLEAN]
  BY DEF Init, States, Ops, Stages
<1>5. todo \subseteq Roc /\ err \subseteq Roc /\ solid \subseteq Roc /\ writeImage \in BOOLEAN
  BY DEF Init
<1> QED
  BY <1>1, <1>2, <1>3, <1>4, <1>5 DEF TypeOK, Blocks, States, Ops, Stages

\* What the end of command c does to the flash of r.
LEMMA ErasesFlash ==
  ASSUME TypeOK, NEW r \in Roc, NEW c, EffectErase(r, c)
  PROVE  /\ flash' \in [Roc -> Blocks]
         /\ \A q \in Roc : q # r => flash'[q] = flash[q]
         /\ \A b \in Block : flash'[r][b] = IF b \in ErasedBlocks(r, c)
                                            THEN [i \in Record |-> "erased"] ELSE flash[r][b]
<1> DEFINE erased == [i \in Record |-> "erased"]
           new == [b \in Block |-> IF b \in ErasedBlocks(r, c) THEN erased ELSE flash[r][b]]
<1>1. flash \in [Roc -> Blocks]
  BY DEF TypeOK, Blocks
<1>2. flash' = [flash EXCEPT ![r] = new]
  BY DEF EffectErase
<1>3. erased \in [Record -> Content]
  BY DEF Content
<1>4. new \in Blocks
  <2>1. \A b \in Block : flash[r][b] \in [Record -> Content]
    BY <1>1 DEF Blocks
  <2> HIDE DEF erased
  <2> QED
    BY <1>3, <2>1 DEF Blocks
<1>5. flash'[r] = new
  BY <1>1, <1>2
<1> HIDE DEF new
<1>6. flash' \in [Roc -> Blocks] /\ \A q \in Roc : q # r => flash'[q] = flash[q]
  BY <1>1, <1>2, <1>4
<1>7. \A b \in Block : flash'[r][b] = IF b \in ErasedBlocks(r, c) THEN erased ELSE flash[r][b]
  BY <1>5 DEF new
<1> QED
  BY <1>6, <1>7

\* One record of one block of the flash of r becomes x.
Becomes(r, b, i, x) == flash' = [flash EXCEPT ![r][b][i] = x]

LEMMA WritesFlash ==
  ASSUME TypeOK, NEW r \in Roc, NEW b \in Block, NEW i \in Record, NEW x \in Content,
         Becomes(r, b, i, x)
  PROVE  /\ flash' \in [Roc -> Blocks]
         /\ \A q \in Roc : q # r => flash'[q] = flash[q]
         /\ flash'[r][b][i] = x
         /\ \A d \in Block, k \in Record :
              d # b \/ k # i => flash'[r][d][k] = flash[r][d][k]
<1>1. flash \in [Roc -> Blocks] /\ flash[r] \in Blocks /\ flash[r][b] \in [Record -> Content]
  BY DEF TypeOK, Blocks
<1> DEFINE row == [flash[r][b] EXCEPT ![i] = x]
           new == [flash[r] EXCEPT ![b] = row]
<1>2. flash' = [flash EXCEPT ![r] = new]
  BY DEF Becomes
<1>3. row \in [Record -> Content] /\ \A k \in Record : row[k] = IF k = i THEN x ELSE flash[r][b][k]
  BY <1>1
<1> HIDE DEF row
<1>4. new \in Blocks /\ \A d \in Block : new[d] = IF d = b THEN row ELSE flash[r][d]
  BY <1>1, <1>3 DEF Blocks
<1> HIDE DEF new
<1>5. flash' \in [Roc -> Blocks] /\ flash'[r] = new /\ \A q \in Roc : q # r => flash'[q] = flash[q]
  BY <1>1, <1>2, <1>4
<1>6. new[b][i] = x
  BY <1>3, <1>4
<1>7. \A d \in Block, k \in Record : d # b \/ k # i => new[d][k] = flash[r][d][k]
  <2> SUFFICES ASSUME NEW d \in Block, NEW k \in Record, d # b \/ k # i
               PROVE  new[d][k] = flash[r][d][k]
    OBVIOUS
  <2>1. CASE d = b
    BY <1>3, <1>4, <2>1
  <2>2. CASE d # b
    BY <1>4, <2>2
  <2> QED
    BY <2>1, <2>2
<1> QED
  BY <1>5, <1>6, <1>7

\* The flash of r after the end of the command it executes.
LEMMA FinishesFlash ==
  ASSUME TypeOK, NEW r \in Roc, NEW ok \in BOOLEAN, queue[r] # <<>>, Finish(r, ok)
  PROVE  /\ flash' \in [Roc -> Blocks]
         /\ \A q \in Roc : q # r => flash'[q] = flash[q]
         /\ Head(queue[r]).act \notin {"erase", "write"} => flash'[r] = flash[r]
<1> DEFINE c == Head(queue[r])
<1>1. c \in Commands
  BY Tailing DEF TypeOK
<1> HIDE DEF c
<1>2. flash \in [Roc -> Blocks]
  BY DEF TypeOK, Blocks
<1>3. c.seg \in Block /\ c.rec \in Record /\ flash[r][c.seg][c.rec] \in Content
  BY <1>1, <1>2 DEF Commands, Block, Beyond, Blocks
<1>4. CASE c.act = "erase" /\ ok
  BY <1>4, ErasesFlash DEF Finish, c
<1>5. CASE c.act = "write"
  <2>1. \E x \in Content : Becomes(r, c.seg, c.rec, x)
    <3>1. CASE ok
      <4>1. EffectWrite(r, c)
        BY <1>5, <3>1 DEF Finish, c
      <4>2. flash' = [flash EXCEPT ![r][c.seg][c.rec] =
                        IF flash[r][c.seg][c.rec] \in {"erased", "image"} THEN "image" ELSE "bad"]
        BY <4>1 DEF EffectWrite
      <4> QED
        BY <4>2 DEF Content, Becomes
    <3>2. CASE ~ok
      BY <1>5, <3>2 DEF Finish, c, Content, Becomes
    <3> QED
      BY <3>1, <3>2
  <2> QED
    BY <1>3, <1>5, <2>1, WritesFlash DEF c
<1>6. CASE c.act # "write" /\ ~(c.act = "erase" /\ ok)
  BY <1>2, <1>6 DEF Finish, c
<1> QED
  BY <1>4, <1>5, <1>6

LEMMA MivTypes ==
  ASSUME TypeOK, NEW r \in Roc, Take(r) \/ MivFinish(r) \/ OtherCommand(r) \/ OtherReads(r),
         exec[r] => queue[r] # <<>>
  PROVE  TypeOK'
<1>0. queue[r] \in Seq(Commands) /\ fifo[r] \in Seq(Replies)
  BY DEF TypeOK
<1>1. CASE Take(r)
  BY <1>1 DEF Take, TypeOK, result, program, options
<1>2. ASSUME NEW ok \in BOOLEAN, Finish(r, ok) PROVE faults' \in Nat => TypeOK'
  <2>1. exec[r] /\ queue[r] # <<>>
    BY <1>2 DEF Finish
  <2>2. flash' \in [Roc -> Blocks]
    BY <1>2, <2>1, FinishesFlash
  <2>3. queue' \in [Roc -> Seq(Commands)] /\ exec' \in [Roc -> BOOLEAN]
    BY <1>0, <1>2, <2>1, Tailing DEF Finish, TypeOK
  <2>4. \A b \in BOOLEAN : Reply(r, Head(queue[r]), b) \in Replies
    BY <1>0, <2>1, Tailing, ReplyTypes
  <2>5. \A b \in BOOLEAN : Append(fifo[r], Reply(r, Head(queue[r]), b)) \in Seq(Replies)
    BY <1>0, <2>4, Appending
  <2>6. fifo' \in [Roc -> Seq(Replies)]
    <3>1. CASE Answers(r, Head(queue[r]))
      <4>1. \E b \in BOOLEAN : fifo' = [fifo EXCEPT ![r] = Append(fifo[r], Reply(r, Head(queue[r]), b))]
        BY <1>2, <3>1 DEF Finish, SegmentHolds, ImageHolds, Holds
      <4> QED
        BY <2>5, <4>1 DEF TypeOK
    <3>2. CASE ~Answers(r, Head(queue[r]))
      BY <1>2, <3>2 DEF Finish, TypeOK
    <3> QED
      BY <3>1, <3>2
  <2>7. UNCHANGED <<result, program, stage, round, sawBusy, options>>
    BY <1>2 DEF Finish
  <2> QED
    BY <2>2, <2>3, <2>6, <2>7 DEF TypeOK, Blocks, result, program, options
<1>3. CASE MivFinish(r)
  <2>1. faults' \in Nat
    <3>1. faults' = faults \/ faults' = faults + 1
      BY <1>3 DEF MivFinish
    <3> QED
      BY <3>1 DEF TypeOK
  <2> QED
    BY <1>2, <1>3, <2>1 DEF MivFinish
<1>4. CASE OtherCommand(r)
  <2>1. Command("other", Protected, 1, FALSE) \in Commands
    BY DEF Command, Commands, Protected, Record
  <2>2. Append(queue[r], Command("other", Protected, 1, FALSE)) \in Seq(Commands)
    BY <1>0, <2>1, Appending
  <2>3. queue' \in [Roc -> Seq(Commands)]
    <3>1. queue \in [Roc -> Seq(Commands)]
      BY DEF TypeOK
    <3>2. queue' = [queue EXCEPT ![r] = Append(queue[r], Command("other", Protected, 1, FALSE))]
      BY <1>4 DEF OtherCommand
    <3> QED
      BY <2>2, <3>1, <3>2
  <2>4. faults' \in Nat
    BY <1>4 DEF OtherCommand, TypeOK
  <2>5. UNCHANGED <<flash, exec, fifo, result, program, stage, round, sawBusy, options>>
    BY <1>4 DEF OtherCommand
  <2> QED
    BY <2>3, <2>4, <2>5 DEF TypeOK, result, program, options
<1>5. CASE OtherReads(r)
  <2>1. fifo' \in [Roc -> Seq(Replies)] /\ faults' \in Nat
    BY <1>5 DEF OtherReads, TypeOK
  <2>2. UNCHANGED <<flash, queue, exec, result, program, stage, round, sawBusy, options>>
    BY <1>5 DEF OtherReads
  <2> QED
    BY <2>1, <2>2 DEF TypeOK, result, program, options
<1> QED
  BY <1>1, <1>3, <1>4, <1>5

LEMMA StageTypes ==
  ASSUME TypeOK, NEW r \in Roc, NEW s \in Stages, SetStage(r, s)
  PROVE  stage' \in [Roc -> Stages]
BY DEF SetStage, TypeOK, Stages

LEMMA DeliverTypes ==
  ASSUME TypeOK, NEW r \in Roc, op # "done", Deliver(r)
  PROVE  queue' \in [Roc -> Seq(Commands)] /\ fifo' \in [Roc -> Seq(Replies)]
<1>0. queue[r] \in Seq(Commands) /\ fifo[r] \in Seq(Replies)
  BY DEF TypeOK
<1>1. Aged(queue[r]) \in Seq(Commands) /\ Aged(fifo[r]) \in Seq(Replies)
  BY <1>0, AgedTypes
<1>2. Append(Aged(queue[r]), Command(op, seg, rec, Tagged(r))) \in Seq(Commands)
  BY <1>1, CommandTypes, Appending
<1> QED
  BY <1>1, <1>2 DEF Deliver, TypeOK

LEMMA SendTypes ==
  ASSUME TypeOK, NEW r \in Roc, op # "done",
         SendOk(r) \/ SendLost(r) \/ DrainStale(r) \/ SendNotIdle(r) \/ SendThrows(r)
  PROVE  TypeOK'
<1>0. Missed \in Stages
  BY DEF Missed, Stages
<1>1. CASE SendOk(r)
  <2>1. stage' \in [Roc -> Stages]
    BY <1>1, StageTypes DEF SendOk, Stages
  <2>2. queue' \in [Roc -> Seq(Commands)] /\ fifo' \in [Roc -> Seq(Replies)]
    BY <1>1, DeliverTypes DEF SendOk
  <2>3. sawBusy' \in [Roc -> BOOLEAN]
    BY <1>1 DEF SendOk, TypeOK
  <2>4. UNCHANGED <<flash, exec, result, program, round, faults, options>>
    BY <1>1 DEF SendOk
  <2> QED
    BY <2>1, <2>2, <2>3, <2>4 DEF TypeOK, Stages, result, program, options
<1>2. CASE SendLost(r)
  <2>1. stage' \in [Roc -> Stages]
    BY <1>2, StageTypes DEF SendLost, Stages
  <2>2. Aged(queue[r]) \in Seq(Commands)
    BY AgedTypes DEF TypeOK
  <2>3. queue' \in [Roc -> Seq(Commands)] /\ sawBusy' \in [Roc -> BOOLEAN] /\ faults' \in Nat
    BY <1>2, <2>2 DEF SendLost, TypeOK
  <2>4. UNCHANGED <<flash, exec, fifo, result, program, round, options>>
    BY <1>2 DEF SendLost
  <2> QED
    BY <2>1, <2>3, <2>4 DEF TypeOK, Stages, result, program, options
<1>3. CASE DrainStale(r)
  <2>1. fifo' \in [Roc -> Seq(Replies)]
    BY <1>3 DEF DrainStale, TypeOK
  <2>2. UNCHANGED <<flash, queue, exec, result, program, stage, round, sawBusy, faults, options>>
    BY <1>3 DEF DrainStale
  <2> QED
    BY <2>1, <2>2 DEF TypeOK, result, program, options
<1>4. CASE SendNotIdle(r)
  <2>1. stage' \in [Roc -> Stages]
    BY <1>0, <1>4, StageTypes DEF SendNotIdle
  <2>2. UNCHANGED <<miv, result, program, round, sawBusy, faults, options>>
    BY <1>4 DEF SendNotIdle
  <2> QED
    BY <2>1, <2>2 DEF TypeOK, Stages, miv, result, program, options
<1>5. CASE SendThrows(r)
  <2>1. stage' \in [Roc -> Stages]
    BY <1>0, <1>5, StageTypes DEF SendThrows
  <2>2. queue' \in [Roc -> Seq(Commands)] /\ fifo' \in [Roc -> Seq(Replies)]
    <3>1. UNCHANGED <<queue, fifo>> \/ Deliver(r)
      BY <1>5 DEF SendThrows
    <3> QED
      BY <3>1, DeliverTypes DEF TypeOK
  <2>3. faults' \in Nat
    BY <1>5 DEF SendThrows, TypeOK
  <2>4. UNCHANGED <<flash, exec, result, program, round, sawBusy, options>>
    BY <1>5 DEF SendThrows
  <2> QED
    BY <2>1, <2>2, <2>3, <2>4 DEF TypeOK, Stages, result, program, options
<1> QED
  BY <1>1, <1>2, <1>3, <1>4, <1>5

LEMMA WaitTypes ==
  ASSUME TypeOK, NEW r \in Roc,
         Collect(r) \/ ReplyLost(r) \/ WaitTimeout(r) \/ PollBusy(r) \/ AcceptDone(r)
  PROVE  TypeOK'
<1>0. Missed \in Stages /\ "ok" \in Stages
  BY DEF Missed, Stages
<1>1. CASE Collect(r)
  <2>1. \E s \in Stages : SetStage(r, s)
    BY <1>0, <1>1 DEF Collect
  <2>2. stage' \in [Roc -> Stages]
    BY <2>1, StageTypes
  <2>3. fifo' \in [Roc -> Seq(Replies)]
    BY <1>1 DEF Collect, TypeOK
  <2>4. Accepts(r, fifo[r][1]) \in BOOLEAN
    <3>1. fifo[r] \in Seq(Replies) /\ Len(fifo[r]) = 1
      BY <1>1 DEF TypeOK, Collect, ReplyThere
    <3>2. fifo[r][1] \in Replies
      BY <3>1
    <3> QED
      BY <3>2 DEF Accepts, Replies
  <2>5. newMiv' \in [Roc -> BOOLEAN]
    BY <1>1, <2>4 DEF Collect, TypeOK
  <2>6. UNCHANGED <<flash, queue, exec, state, program, round, sawBusy, faults, options>>
    BY <1>1 DEF Collect
  <2> QED
    BY <2>2, <2>3, <2>5, <2>6 DEF TypeOK, Stages, program, options
<1>2. CASE ReplyLost(r)
  <2>1. \E s \in Stages : SetStage(r, s)
    BY <1>0, <1>2 DEF ReplyLost
  <2>2. stage' \in [Roc -> Stages]
    BY <2>1, StageTypes
  <2>3. fifo' \in [Roc -> Seq(Replies)]
    <3>1. fifo \in [Roc -> Seq(Replies)] /\ <<>> \in Seq(Replies)
      BY DEF TypeOK
    <3>2. fifo' = fifo \/ fifo' = [fifo EXCEPT ![r] = <<>>]
      BY <1>2 DEF ReplyLost
    <3> QED
      BY <3>1, <3>2
  <2>4. faults' \in Nat
    BY <1>2 DEF ReplyLost, TypeOK
  <2>5. UNCHANGED <<flash, queue, exec, result, program, round, sawBusy, options>>
    BY <1>2 DEF ReplyLost
  <2> QED
    BY <2>2, <2>3, <2>4, <2>5 DEF TypeOK, Stages, result, program, options
<1>3. CASE WaitTimeout(r) \/ AcceptDone(r)
  <2>1. \E s \in Stages : SetStage(r, s)
    BY <1>0, <1>3 DEF WaitTimeout, AcceptDone
  <2>2. stage' \in [Roc -> Stages]
    BY <2>1, StageTypes
  <2>3. UNCHANGED <<miv, result, program, round, sawBusy, faults, options>>
    BY <1>3 DEF WaitTimeout, AcceptDone
  <2> QED
    BY <2>2, <2>3 DEF TypeOK, Stages, miv, result, program, options
<1>4. CASE PollBusy(r)
  <2>1. sawBusy' \in [Roc -> BOOLEAN]
    BY <1>4 DEF PollBusy, TypeOK
  <2>2. UNCHANGED <<miv, result, program, stage, round, faults, options>>
    BY <1>4 DEF PollBusy
  <2> QED
    BY <2>1, <2>2 DEF TypeOK, miv, result, program, options
<1> QED
  BY <1>1, <1>2, <1>3, <1>4

LEMMA BeginTypes ==
  ASSUME NEW o \in Ops, NEW rs, TypeOK, Begin(o, rs)
  PROVE  op' \in Ops /\ stage' \in [Roc -> Stages] /\ round' \in Nat
BY DEF Begin, Stages

LEMMA AttemptTypes ==
  ASSUME NEW rs \in SUBSET Roc, TypeOK, StartAttempt(rs)
  PROVE  /\ todo' \subseteq Roc /\ err' \subseteq Roc /\ rec' \in Record
         /\ op' \in Ops /\ stage' \in [Roc -> Stages] /\ round' \in Nat
<1>1. FirstOp \in Ops
  BY DEF FirstOp, Ops
<1>2. op' \in Ops /\ stage' \in [Roc -> Stages] /\ round' \in Nat
  BY <1>1, BeginTypes DEF StartAttempt
<1>3. todo' \subseteq Roc /\ err' \subseteq Roc /\ rec' \in Record
  BY DEF StartAttempt, Record
<1> QED
  BY <1>2, <1>3

LEMMA FailTypes ==
  ASSUME TypeOK, NEW rs, FailAll(rs)
  PROVE  state' \in [Roc -> States]
BY DEF FailAll, TypeOK, States

LEMMA NextSegmentTypes ==
  ASSUME TypeOK, NEW rs \in SUBSET Roc, NextSegment(rs)
  PROVE  /\ state' \in [Roc -> States] /\ attempt' \in Nat /\ seg' \in Segment
         /\ todo' \subseteq Roc /\ err' \subseteq Roc /\ rec' \in Record
         /\ op' \in Ops /\ stage' \in [Roc -> Stages] /\ round' \in Nat
<1> DEFINE left == {r \in Roc : Alive(r)} \ rs
<1>0. left \in SUBSET Roc
  OBVIOUS
<1>1. state' \in [Roc -> States] /\ attempt' \in Nat
  BY FailTypes DEF NextSegment
<1>2. CASE seg < NSeg /\ left # {}
  <2>1. seg' = seg + 1 /\ StartAttempt(left)
    BY <1>2 DEF NextSegment
  <2>2. seg' \in Segment
    BY <1>2, <2>1 DEF TypeOK, Segment
  <2> HIDE DEF left
  <2> QED
    BY <1>0, <1>1, <2>1, <2>2, AttemptTypes
<1>3. CASE ~(seg < NSeg /\ left # {})
  <2>1. /\ seg' = seg /\ rec' = 1 /\ todo' = left /\ err' = {}
        /\ \E rr : Begin("image", rr)
    BY <1>3 DEF NextSegment
  <2>2. op' \in Ops /\ stage' \in [Roc -> Stages] /\ round' \in Nat
    BY <2>1, BeginTypes DEF Ops
  <2>3. rec' \in Record /\ seg' \in Segment
    BY <2>1 DEF TypeOK, Record
  <2> HIDE DEF left
  <2> QED
    BY <1>0, <1>1, <2>1, <2>2, <2>3
<1> QED
  BY <1>2, <1>3

LEMMA ProgramTypes ==
  ASSUME TypeOK,
         \/ NextRound \/ AfterProbe \/ AfterProbeRead \/ AfterErase
         \/ AfterWrite \/ AfterCrc \/ AfterRead \/ AfterImage
  PROVE  TypeOK'
<1>0. Bad \subseteq Roc /\ err \cup Bad \in SUBSET Roc
  BY DEF Bad, TypeOK
<1>1. CASE NextRound
  <2>1. stage' \in [Roc -> Stages] /\ round' \in Nat
    BY <1>1 DEF NextRound, TypeOK, Stages
  <2>2. UNCHANGED <<miv, result, program, sawBusy, faults, options>>
    BY <1>1 DEF NextRound
  <2> QED
    BY <2>1, <2>2 DEF TypeOK, Stages, miv, result, program, options
<1>2. CASE AfterProbe
  <2>1. op' \in Ops /\ stage' \in [Roc -> Stages] /\ round' \in Nat
    BY <1>2, BeginTypes DEF AfterProbe, Ops
  <2>2. state' \in [Roc -> States]
    BY <1>2, FailTypes DEF AfterProbe
  <2>3. UNCHANGED <<miv, newMiv, seg, rec, attempt, todo, err, sawBusy, faults, options>>
    BY <1>2 DEF AfterProbe
  <2> QED
    BY <2>1, <2>2, <2>3 DEF TypeOK, Ops, States, Stages, miv, options
<1>3. CASE AfterProbeRead
  <2> DEFINE rs == {r \in Roc : Alive(r)} \ Bad
  <2>1. rs \in SUBSET Roc /\ StartAttempt(rs)
    BY <1>3 DEF AfterProbeRead
  <2>2. state' \in [Roc -> States]
    BY <1>3 DEF AfterProbeRead, States
  <2>3. UNCHANGED <<miv, newMiv, seg, attempt, sawBusy, faults, options>>
    BY <1>3 DEF AfterProbeRead
  <2> HIDE DEF rs
  <2>4. /\ todo' \subseteq Roc /\ err' \subseteq Roc /\ rec' \in Record
        /\ op' \in Ops /\ stage' \in [Roc -> Stages] /\ round' \in Nat
    BY <2>1, AttemptTypes
  <2> QED
    BY <2>2, <2>3, <2>4 DEF TypeOK, Ops, States, Stages, miv, options
<1>4. CASE AfterErase
  <2>1. op' \in Ops /\ stage' \in [Roc -> Stages] /\ round' \in Nat
    BY <1>4, BeginTypes DEF AfterErase, Ops
  <2>2. err' \subseteq Roc
    BY <1>0, <1>4 DEF AfterErase
  <2>3. UNCHANGED <<miv, result, seg, rec, attempt, todo, sawBusy, faults, options>>
    BY <1>4 DEF AfterErase
  <2> QED
    BY <2>1, <2>2, <2>3 DEF TypeOK, Ops, Stages, miv, result, options
<1>5. CASE AfterWrite
  <2>1. op' \in Ops /\ stage' \in [Roc -> Stages] /\ round' \in Nat
    BY <1>5, BeginTypes DEF AfterWrite, Ops
  <2>2. rec' \in Record
    <3>1. rec' = 1 \/ (rec < NRec /\ rec' = rec + 1)
      BY <1>5 DEF AfterWrite
    <3> QED
      BY <3>1 DEF TypeOK, Record
  <2>3. err' \subseteq Roc
    BY <1>0, <1>5 DEF AfterWrite
  <2>4. UNCHANGED <<miv, result, seg, attempt, todo, sawBusy, faults, options>>
    BY <1>5 DEF AfterWrite
  <2> QED
    BY <2>1, <2>2, <2>3, <2>4 DEF TypeOK, Ops, Stages, miv, result, options
<1>6. CASE AfterCrc
  <2>1. op' \in Ops /\ stage' \in [Roc -> Stages] /\ round' \in Nat
    BY <1>6, BeginTypes DEF AfterCrc, Ops
  <2>2. err' \subseteq Roc
    BY <1>0, <1>6 DEF AfterCrc
  <2>3. UNCHANGED <<miv, result, seg, rec, attempt, todo, sawBusy, faults, options>>
    BY <1>6 DEF AfterCrc
  <2> QED
    BY <2>1, <2>2, <2>3 DEF TypeOK, Ops, Stages, miv, result, options
<1>7. CASE AfterRead
  <2> DEFINE e == err \cup Bad
  <2>1. UNCHANGED <<miv, newMiv, sawBusy, faults, options>>
    BY <1>7 DEF AfterRead
  <2>2. /\ state' \in [Roc -> States] /\ attempt' \in Nat /\ seg' \in Segment
        /\ todo' \subseteq Roc /\ err' \subseteq Roc /\ rec' \in Record
        /\ op' \in Ops /\ stage' \in [Roc -> Stages] /\ round' \in Nat
    <3>1. CASE rec < NRec
      <4>1. /\ err' = e /\ rec' = rec + 1 /\ \E rr : Begin("read", rr)
            /\ UNCHANGED <<state, seg, attempt, todo>>
        BY <1>7, <3>1 DEF AfterRead
      <4>2. op' \in Ops /\ stage' \in [Roc -> Stages] /\ round' \in Nat
        BY <4>1, BeginTypes DEF Ops
      <4>3. rec' \in Record
        BY <3>1, <4>1 DEF TypeOK, Record
      <4> QED
        BY <1>0, <4>1, <4>2, <4>3 DEF TypeOK, States
    <3>2. CASE ~(rec < NRec)
      <4>1. EndOfAttempt(e)
        BY <1>7, <3>2 DEF AfterRead
      <4>2. NextSegment(e) \/ (attempt' = attempt + 1 /\ StartAttempt(e) /\ UNCHANGED <<state, seg>>)
        BY <4>1 DEF EndOfAttempt
      <4> HIDE DEF e
      <4>3. e \in SUBSET Roc
        BY <1>0 DEF e
      <4>4. CASE NextSegment(e)
        BY <4>3, <4>4, NextSegmentTypes
      <4>5. CASE attempt' = attempt + 1 /\ StartAttempt(e) /\ UNCHANGED <<state, seg>>
        <5>1. /\ todo' \subseteq Roc /\ err' \subseteq Roc /\ rec' \in Record
              /\ op' \in Ops /\ stage' \in [Roc -> Stages] /\ round' \in Nat
          BY <4>3, <4>5, AttemptTypes
        <5>2. attempt' \in Nat /\ seg' \in Segment /\ state' \in [Roc -> States]
          BY <4>5 DEF TypeOK, States
        <5> QED
          BY <5>1, <5>2
      <4> QED
        BY <4>2, <4>4, <4>5
    <3> QED
      BY <3>1, <3>2
  <2> QED
    BY <2>1, <2>2 DEF TypeOK, Ops, States, Stages, miv, options
<1>8. CASE AfterImage
  <2>1. op' \in Ops /\ stage' \in [Roc -> Stages] /\ round' \in Nat
    BY <1>8, BeginTypes DEF AfterImage, Ops
  <2>2. state' \in [Roc -> States]
    BY <1>8 DEF AfterImage, TypeOK, States
  <2>3. UNCHANGED <<miv, newMiv, seg, rec, attempt, todo, err, sawBusy, faults, options>>
    BY <1>8 DEF AfterImage
  <2> QED
    BY <2>1, <2>2, <2>3 DEF TypeOK, Ops, States, Stages, miv, options
<1> QED
  BY <1>1, <1>2, <1>3, <1>4, <1>5, <1>6, <1>7, <1>8

-----------------------------------------------------------------------------
(* The inductive invariant                                                  *)

\* Commands of the session, those that change the flash, and the replies that can be
\* taken for the answer to the last command sent.
Ours(c)        == c.act # "other"
Destructive(c) == c.act \in {"erase", "write"}
Answering(x)   == x.fresh /\ x.kind \in {"ack", "crc"}

\* About the commands q that a ROC has received.
NothingOurs(q) == \A i \in DOMAIN q : ~Ours(q[i])
Clean(q)       == \A i \in DOMAIN q : ~Destructive(q[i])
AllFresh(q)    == \A i \in DOMAIN q : Ours(q[i]) => q[i].fresh
LastFresh(q)   == \A i, j \in DOMAIN q : i < j /\ Ours(q[i]) /\ Ours(q[j]) => ~q[i].fresh
Confined(q, s) == \A i \in DOMAIN q : Destructive(q[i]) => q[i].seg = s
Within(q, w)   == \A i \in DOMAIN q :
                    /\ Destructive(q[i]) => w /\ q[i].seg \in Segment
                    /\ ~Ours(q[i]) => q[i].seg = Protected
FreshIs(q, o, s, n, t) ==
  \A i \in DOMAIN q : Ours(q[i]) /\ q[i].fresh =>
    q[i].act = o /\ q[i].seg = s /\ q[i].rec = n /\ q[i].tagged = t

\* About the flash d of a ROC.
Erased(d, s)     == \A i \in Record : d[s][i] = "erased"
ErasedAfter(d, s, n) == \A i \in Record : i > n => d[s][i] = "erased"
Filled(d, s)     == \A i \in Record : d[s][i] = "image"
FilledTo(d, s, n) == \A i \in Record : i <= n => d[s][i] = "image"

\* About the replies f of a ROC.
Unanswered(f)  == \A i \in DOMAIN f : ~Answering(f[i])
NoneGood(f)    == \A i \in DOMAIN f : ~(Answering(f[i]) /\ f[i].ok)
ReadFrom(f, d) == \A i \in DOMAIN f :
                    f[i].kind = "data" /\ f[i].ok /\ f[i].seg \in Segment =>
                      d[f[i].seg][f[i].rec] = "image"

Probing == op \in {"probe", "probeRead"}
Writing == op \in {"erase", "write"}
Current == todo \ err

\* Where the session is.
ProgramInv ==
  /\ Probing => seg = 1 /\ todo = Roc /\ err = {}
  /\ Writing => writeImage
  /\ op \in {"erase", "crc"} => rec = 1
  /\ op \in {"image", "done"} => err = {}
  /\ err \subseteq todo

\* Which ROCs take part in the operation, and what has been found out about them.
StageInv(r) ==
  /\ stage[r] \in {"send", "wait", "again"} => Alive(r)
  /\ op = "probe" => state[r] = "Selected"
  /\ op = "probeRead" => /\ state[r] \in {"Selected", "Failed"}
                         /\ ~newMiv[r] /\ Alive(r) <=> stage[r] # "out"
  /\ ~Probing => state[r] # "Selected" /\ (r \in todo /\ op # "done" => Alive(r))
  /\ ~Probing /\ op # "done" => state[r] # "Verified"
  /\ Writing => (stage[r] # "out" <=> r \in Current)
  /\ op = "crc" => (stage[r] # "out" <=> r \in Current /\ newMiv[r])
  /\ op = "read" => (stage[r] # "out" <=> r \in Current /\ ~newMiv[r])
  /\ op \in {"image", "done"} /\ Alive(r) => r \in todo
  /\ op = "done" => stage[r] = "out"
  /\ stage[r] = "again" => op \in Asked

\* Of the commands a ROC has received only the last can be the one that is waited for,
\* and what may still change the flash of a ROC that is not given up is for the segment
\* at hand.
QueueInv(r) ==
  /\ exec[r] => queue[r] # <<>>
  /\ LastFresh(queue[r])
  /\ Within(queue[r], writeImage)
  /\ stage[r] = "wait" => FreshIs(queue[r], op, seg, rec, Tagged(r))
  /\ Alive(r) => Confined(queue[r], seg)

\* What the command of this round does to the flash of r, or finds there.
Effect(r) ==
  /\ op = "erase" => Erased(flash[r], seg)
  /\ op = "write" => flash[r][seg][rec] = "image"
  /\ op = "crc" => Filled(flash[r], seg)

\* A reply that answers the last command came after all that was received before it.
ReplyInv(r) ==
  /\ NothingOurs(queue[r]) \/ Unanswered(fifo[r])
  /\ stage[r] = "wait" => Effect(r) \/ NoneGood(fifo[r])
  /\ stage[r] = "wait" /\ op = "read" => ReadFrom(fifo[r], flash[r])

\* Before a ROC goes on to the next erase or write, nothing of the session is left to
\* do for it, by its acknowledgement or by DONE.
CommandOver(r) ==
  /\ Writing /\ stage[r] = "ok" => NothingOurs(queue[r])
  /\ Writing /\ stage[r] = "wait" /\ sawBusy[r] /\ ~exec[r] => NothingOurs(queue[r])
  /\ op = "write" /\ stage[r] = "send" => NothingOurs(queue[r])
  /\ op = "write" /\ stage[r] = "wait" => AllFresh(queue[r])

\* What a new MiV has acknowledged of this segment is there, and the rest of the segment
\* is still erased.
WrittenInv(r) ==
  newMiv[r] =>
    /\ Writing /\ stage[r] = "ok" => Effect(r)
    /\ op = "write" /\ stage[r] \in {"send", "wait", "ok"} => ErasedAfter(flash[r], seg, rec)
    /\ op = "write" /\ (stage[r] = "send" \/ (stage[r] = "wait" /\ ~NothingOurs(queue[r]))) =>
         flash[r][seg][rec] = "erased"

\* The segment at hand is no longer written to, and no command that does is left over.
Settled(r) == Probing \/ r \notin todo \/ (r \notin err /\ ~Writing)

\* What has been verified of a ROC that is not given up is there, to stay.
VerifiedInv(r) ==
  Alive(r) =>
    /\ Settled(r) => Clean(queue[r])
    /\ \A s \in Segment : s < seg => Filled(flash[r], s)
    /\ r \notin todo => Filled(flash[r], seg)
    /\ op = "crc" /\ r \in Current /\ newMiv[r] /\ stage[r] = "ok" => Filled(flash[r], seg)
    /\ op = "read" /\ r \in Current /\ newMiv[r] => Filled(flash[r], seg)
    /\ op = "read" /\ r \in Current /\ ~newMiv[r] =>
         /\ FilledTo(flash[r], seg, rec - 1)
         /\ stage[r] = "ok" => flash[r][seg][rec] = "image"
    /\ op \in {"image", "done"} => \A s \in Segment : Filled(flash[r], s)

RocInv(r) == StageInv(r) /\ QueueInv(r) /\ ReplyInv(r) /\ CommandOver(r)
               /\ WrittenInv(r) /\ VerifiedInv(r)

Inv == TypeOK /\ ProgramInv /\ \A r \in Roc : RocInv(r)

-----------------------------------------------------------------------------
(* What the moves of a queue keep                                           *)

\* The first command ends.
LEMMA TailQueue ==
  ASSUME NEW q \in Seq(Commands), q # <<>>, NEW s, NEW w, NEW o, NEW n, NEW t
  PROVE  /\ NothingOurs(q) => NothingOurs(Tail(q))
         /\ Clean(q) => Clean(Tail(q))
         /\ AllFresh(q) => AllFresh(Tail(q))
         /\ LastFresh(q) => LastFresh(Tail(q))
         /\ Confined(q, s) => Confined(Tail(q), s)
         /\ Within(q, w) => Within(Tail(q), w)
         /\ FreshIs(q, o, s, n, t) => FreshIs(Tail(q), o, s, n, t)
<1>1. /\ DOMAIN q = 1..Len(q) /\ DOMAIN Tail(q) = 1..(Len(q) - 1) /\ Len(q) \in Nat
      /\ \A i \in 1..(Len(q) - 1) : Tail(q)[i] = q[i + 1]
  BY Tailing
<1>2. /\ \A i \in DOMAIN Tail(q) : i + 1 \in DOMAIN q /\ Tail(q)[i] = q[i + 1]
      /\ \A i, j \in DOMAIN Tail(q) : i < j => i + 1 < j + 1
  BY <1>1
<1>3. NothingOurs(q) => NothingOurs(Tail(q))
  BY <1>2 DEF NothingOurs
<1>4. Clean(q) => Clean(Tail(q))
  BY <1>2 DEF Clean
<1>5. AllFresh(q) => AllFresh(Tail(q))
  BY <1>2 DEF AllFresh
<1>6. LastFresh(q) => LastFresh(Tail(q))
  BY <1>2 DEF LastFresh
<1>7. Confined(q, s) => Confined(Tail(q), s)
  BY <1>2 DEF Confined
<1>8. Within(q, w) => Within(Tail(q), w)
  BY <1>2 DEF Within
<1>9. FreshIs(q, o, s, n, t) => FreshIs(Tail(q), o, s, n, t)
  BY <1>2 DEF FreshIs
<1> QED
  BY <1>3, <1>4, <1>5, <1>6, <1>7, <1>8, <1>9

\* What the first command is.
LEMMA HeadOfQueue ==
  ASSUME NEW q \in Seq(Commands), q # <<>>, NEW s, NEW w, NEW o, NEW n, NEW t
  PROVE  /\ NothingOurs(q) => ~Ours(Head(q))
         /\ Clean(q) => ~Destructive(Head(q))
         /\ AllFresh(q) /\ Ours(Head(q)) => Head(q).fresh
         /\ LastFresh(q) /\ Ours(Head(q)) /\ Head(q).fresh => NothingOurs(Tail(q))
         /\ Confined(q, s) /\ Destructive(Head(q)) => Head(q).seg = s
         /\ Within(q, w) => /\ Destructive(Head(q)) => w /\ Head(q).seg \in Segment
                            /\ ~Ours(Head(q)) => Head(q).seg = Protected
         /\ FreshIs(q, o, s, n, t) /\ Ours(Head(q)) /\ Head(q).fresh =>
              Head(q).act = o /\ Head(q).seg = s /\ Head(q).rec = n /\ Head(q).tagged = t
<1>1. /\ Head(q) = q[1] /\ 1 \in DOMAIN q
      /\ \A i \in DOMAIN Tail(q) : i + 1 \in DOMAIN q /\ 1 < i + 1 /\ Tail(q)[i] = q[i + 1]
  BY Tailing
<1>2. LastFresh(q) /\ Ours(Head(q)) /\ Head(q).fresh => NothingOurs(Tail(q))
  BY <1>1 DEF LastFresh, NothingOurs
<1>3. FreshIs(q, o, s, n, t) /\ Ours(Head(q)) /\ Head(q).fresh =>
        Head(q).act = o /\ Head(q).seg = s /\ Head(q).rec = n /\ Head(q).tagged = t
  BY <1>1 DEF FreshIs
<1>4. Within(q, w) => /\ Destructive(Head(q)) => w /\ Head(q).seg \in Segment
                      /\ ~Ours(Head(q)) => Head(q).seg = Protected
  BY <1>1 DEF Within
<1>5. /\ NothingOurs(q) => ~Ours(Head(q))
      /\ Clean(q) => ~Destructive(Head(q))
      /\ AllFresh(q) /\ Ours(Head(q)) => Head(q).fresh
      /\ Confined(q, s) /\ Destructive(Head(q)) => Head(q).seg = s
  BY <1>1 DEF NothingOurs, Clean, AllFresh, Confined
<1> QED
  BY <1>2, <1>3, <1>4, <1>5

\* A command of another user arrives.
LEMMA ForeignQueue ==
  ASSUME NEW q \in Seq(Commands), NEW c \in Commands, ~Ours(c), c.seg = Protected,
         NEW s, NEW w, NEW o, NEW n, NEW t
  PROVE  /\ NothingOurs(q) <=> NothingOurs(Append(q, c))
         /\ Clean(q) => Clean(Append(q, c))
         /\ AllFresh(q) => AllFresh(Append(q, c))
         /\ LastFresh(q) => LastFresh(Append(q, c))
         /\ Confined(q, s) => Confined(Append(q, c), s)
         /\ Within(q, w) => Within(Append(q, c), w)
         /\ FreshIs(q, o, s, n, t) => FreshIs(Append(q, c), o, s, n, t)
<1> DEFINE p == Append(q, c)
<1>1. /\ DOMAIN q = 1..Len(q) /\ DOMAIN p = 1..(Len(q) + 1) /\ Len(q) \in Nat
      /\ \A i \in 1..Len(q) : p[i] = q[i]
      /\ p[Len(q) + 1] = c
  BY Appending
<1> HIDE DEF p
<1>2. /\ \A i \in DOMAIN p : p[i] = c \/ (i \in DOMAIN q /\ p[i] = q[i])
      /\ \A i \in DOMAIN q : i \in DOMAIN p /\ p[i] = q[i]
  BY <1>1
<1>3. ~Destructive(c)
  BY DEF Ours, Destructive
<1>4. NothingOurs(q) <=> NothingOurs(p)
  BY <1>2 DEF NothingOurs
<1>5. Clean(q) => Clean(p)
  BY <1>2, <1>3 DEF Clean
<1>6. AllFresh(q) => AllFresh(p)
  BY <1>2 DEF AllFresh
<1>7. LastFresh(q) => LastFresh(p)
  BY <1>2 DEF LastFresh
<1>8. Confined(q, s) => Confined(p, s)
  BY <1>2, <1>3 DEF Confined
<1>9. Within(q, w) => Within(p, w)
  BY <1>2, <1>3 DEF Within
<1>10. FreshIs(q, o, s, n, t) => FreshIs(p, o, s, n, t)
  BY <1>2 DEF FreshIs
<1> QED
  BY <1>4, <1>5, <1>6, <1>7, <1>8, <1>9, <1>10 DEF p

\* A new tag goes out, and the command with it or not.
LEMMA AgedQueue ==
  ASSUME NEW q \in Seq(Commands), NEW s, NEW w
  PROVE  /\ Aged(q) \in Seq(Commands)
         /\ \A i \in DOMAIN Aged(q) : ~Aged(q)[i].fresh
         /\ NothingOurs(q) => NothingOurs(Aged(q))
         /\ Clean(q) => Clean(Aged(q))
         /\ Confined(q, s) => Confined(Aged(q), s)
         /\ Within(q, w) => Within(Aged(q), w)
<1>1. /\ DOMAIN Aged(q) = DOMAIN q
      /\ \A i \in DOMAIN q : Aged(q)[i] = Stale(q[i])
  BY DEF Aged
<1>2. \A i \in DOMAIN q : q[i] \in Commands
  OBVIOUS
<1>3. \A i \in DOMAIN q : /\ Aged(q)[i].act = q[i].act /\ Aged(q)[i].seg = q[i].seg
                          /\ ~Aged(q)[i].fresh
  BY <1>1, <1>2, Staling
<1>4. NothingOurs(q) => NothingOurs(Aged(q))
  BY <1>1, <1>3 DEF NothingOurs, Ours
<1>5. Clean(q) => Clean(Aged(q))
  BY <1>1, <1>3 DEF Clean, Destructive
<1>6. Confined(q, s) => Confined(Aged(q), s)
  BY <1>1, <1>3 DEF Confined, Destructive
<1>7. Within(q, w) => Within(Aged(q), w)
  BY <1>1, <1>3 DEF Within, Destructive, Ours
<1> QED
  BY <1>1, <1>3, <1>4, <1>5, <1>6, <1>7, AgedTypes

\* What is not fresh is not waited for.
LEMMA StaleQueue ==
  ASSUME NEW q, \A i \in DOMAIN q : ~q[i].fresh, NEW o, NEW s, NEW n, NEW t
  PROVE  /\ LastFresh(q)
         /\ FreshIs(q, o, s, n, t)
         /\ NothingOurs(q) => AllFresh(q)
BY DEF LastFresh, FreshIs, NothingOurs, AllFresh

\* The command of the round arrives behind what has been received before.
LEMMA SentQueue ==
  ASSUME NEW q \in Seq(Commands), \A i \in DOMAIN q : ~q[i].fresh,
         NEW c \in Commands, c.fresh, Ours(c), NEW s, NEW w
  PROVE  /\ LastFresh(Append(q, c))
         /\ FreshIs(Append(q, c), c.act, c.seg, c.rec, c.tagged)
         /\ NothingOurs(q) => AllFresh(Append(q, c))
         /\ Clean(q) /\ ~Destructive(c) => Clean(Append(q, c))
         /\ Confined(q, s) /\ (Destructive(c) => c.seg = s) => Confined(Append(q, c), s)
         /\ Within(q, w) /\ (Destructive(c) => w /\ c.seg \in Segment) => Within(Append(q, c), w)
<1> DEFINE p == Append(q, c)
<1>1. /\ DOMAIN q = 1..Len(q) /\ DOMAIN p = 1..(Len(q) + 1) /\ Len(q) \in Nat
      /\ \A i \in 1..Len(q) : p[i] = q[i]
      /\ p[Len(q) + 1] = c
  BY Appending
<1> HIDE DEF p
<1>2. \A i \in DOMAIN p : (i = Len(q) + 1 /\ p[i] = c) \/ (i \in DOMAIN q /\ p[i] = q[i])
  BY <1>1
<1>3. \A i, j \in DOMAIN p : i < j => i \in DOMAIN q /\ p[i] = q[i]
  BY <1>1
<1>4. LastFresh(p)
  BY <1>3 DEF LastFresh
<1>5. FreshIs(p, c.act, c.seg, c.rec, c.tagged)
  BY <1>2 DEF FreshIs
<1>6. NothingOurs(q) => AllFresh(p)
  BY <1>2 DEF NothingOurs, AllFresh
<1>7. Clean(q) /\ ~Destructive(c) => Clean(p)
  BY <1>2 DEF Clean
<1>8. Confined(q, s) /\ (Destructive(c) => c.seg = s) => Confined(p, s)
  BY <1>2 DEF Confined
<1>9. Within(q, w) /\ (Destructive(c) => w /\ c.seg \in Segment) => Within(p, w)
  BY <1>2 DEF Within
<1> QED
  BY <1>4, <1>5, <1>6, <1>7, <1>8, <1>9 DEF p

LEMMA EmptyQueue ==
  ASSUME NEW s, NEW w, NEW o, NEW n, NEW t
  PROVE  /\ NothingOurs(<<>>) /\ Clean(<<>>) /\ AllFresh(<<>>) /\ LastFresh(<<>>)
         /\ Confined(<<>>, s) /\ Within(<<>>, w) /\ FreshIs(<<>>, o, s, n, t)
BY DEF NothingOurs, Clean, AllFresh, LastFresh, Confined, Within, FreshIs

LEMMA EmptyFifo ==
  ASSUME NEW d
  PROVE  Unanswered(<<>>) /\ NoneGood(<<>>) /\ ReadFrom(<<>>, d)
BY DEF Unanswered, NoneGood, ReadFrom

LEMMA CleanOfForeign ==
  ASSUME NEW q, NothingOurs(q)
  PROVE  Clean(q)
BY DEF NothingOurs, Clean, Ours, Destructive

LEMMA NoReplies ==
  ASSUME NEW f, DOMAIN f = {}, NEW d
  PROVE  Unanswered(f) /\ NoneGood(f) /\ ReadFrom(f, d)
BY DEF Unanswered, NoneGood, ReadFrom

\* A reply arrives.
LEMMA RepliedFifo ==
  ASSUME NEW f \in Seq(Replies), NEW x \in Replies, NEW d
  PROVE  /\ Unanswered(f) /\ ~Answering(x) => Unanswered(Append(f, x))
         /\ NoneGood(f) /\ ~(Answering(x) /\ x.ok) => NoneGood(Append(f, x))
         /\ ReadFrom(f, d) /\ (x.kind = "data" /\ x.ok /\ x.seg \in Segment =>
                                 d[x.seg][x.rec] = "image") => ReadFrom(Append(f, x), d)
<1> DEFINE p == Append(f, x)
<1>1. /\ DOMAIN f = 1..Len(f) /\ DOMAIN p = 1..(Len(f) + 1) /\ Len(f) \in Nat
      /\ \A i \in 1..Len(f) : p[i] = f[i]
      /\ p[Len(f) + 1] = x
  BY Appending
<1> HIDE DEF p
<1>2. \A i \in DOMAIN p : p[i] = x \/ (i \in DOMAIN f /\ p[i] = f[i])
  BY <1>1
<1>3. Unanswered(f) /\ ~Answering(x) => Unanswered(p)
  BY <1>2 DEF Unanswered
<1>4. NoneGood(f) /\ ~(Answering(x) /\ x.ok) => NoneGood(p)
  BY <1>2 DEF NoneGood
<1>5. ReadFrom(f, d) /\ (x.kind = "data" /\ x.ok /\ x.seg \in Segment =>
                           d[x.seg][x.rec] = "image") => ReadFrom(p, d)
  BY <1>2 DEF ReadFrom
<1> QED
  BY <1>3, <1>4, <1>5 DEF p

-----------------------------------------------------------------------------
(* Steps of a ROC                                                           *)

\* The program and the options, as far as the invariant looks at them.
SameProgram == UNCHANGED <<op, seg, rec, todo, err, writeImage>>

LEMMA Unchanged ==
  ASSUME UNCHANGED <<program, options>>
  PROVE  SameProgram
BY DEF SameProgram, program, options

\* A step of another ROC, or none.
LEMMA Frame ==
  ASSUME NEW r \in Roc, RocInv(r), SameProgram,
         flash'[r] = flash[r], queue'[r] = queue[r], exec'[r] = exec[r], fifo'[r] = fifo[r],
         state'[r] = state[r], newMiv'[r] = newMiv[r], stage'[r] = stage[r],
         sawBusy'[r] = sawBusy[r]
  PROVE  RocInv(r)'
<1>1. StageInv(r)'
  BY DEF RocInv, StageInv, SameProgram, Alive, Probing, Writing, Current, Asked
<1>2. QueueInv(r)'
  BY DEF RocInv, QueueInv, SameProgram, Alive, Tagged
<1>3. ReplyInv(r)'
  BY DEF RocInv, ReplyInv, SameProgram, Effect
<1>4. CommandOver(r)'
  BY DEF RocInv, CommandOver, SameProgram, Writing
<1>5. WrittenInv(r)'
  BY DEF RocInv, WrittenInv, SameProgram, Writing, Effect
<1>6. VerifiedInv(r)'
  BY DEF RocInv, VerifiedInv, SameProgram, Alive, Settled, Probing, Writing, Current
<1> QED
  BY <1>1, <1>2, <1>3, <1>4, <1>5, <1>6 DEF RocInv

\* Of the entries of a ROC the MiV changes only those of its flash, commands and replies.
LEMMA MivStageInv ==
  ASSUME NEW r \in Roc, RocInv(r), SameProgram,
         state'[r] = state[r], newMiv'[r] = newMiv[r], stage'[r] = stage[r]
  PROVE  StageInv(r)'
BY DEF RocInv, StageInv, SameProgram, Alive, Probing, Writing, Current, Asked

LEMMA TakeInv ==
  ASSUME TypeOK, NEW r \in Roc, RocInv(r), Take(r)
  PROVE  RocInv(r)'
<1>1. /\ SameProgram /\ queue[r] # <<>> /\ exec'[r]
      /\ UNCHANGED <<flash, queue, fifo, state, newMiv, stage, sawBusy>>
  BY Unchanged DEF Take, result, TypeOK
<1>2. StageInv(r)'
  BY <1>1, MivStageInv
<1>3. QueueInv(r)'
  BY <1>1 DEF RocInv, QueueInv, SameProgram, Alive, Tagged
<1>4. ReplyInv(r)'
  BY <1>1 DEF RocInv, ReplyInv, SameProgram, Effect
<1>5. CommandOver(r)'
  BY <1>1 DEF RocInv, CommandOver, SameProgram, Writing
<1>6. WrittenInv(r)'
  BY <1>1 DEF RocInv, WrittenInv, SameProgram, Writing, Effect
<1>7. VerifiedInv(r)'
  BY <1>1 DEF RocInv, VerifiedInv, SameProgram, Alive, Settled, Probing, Writing, Current
<1> QED
  BY <1>2, <1>3, <1>4, <1>5, <1>6, <1>7 DEF RocInv

LEMMA OtherCommandInv ==
  ASSUME TypeOK, NEW r \in Roc, RocInv(r), OtherCommand(r)
  PROVE  RocInv(r)'
<1> DEFINE q == queue[r]
           c == Command("other", Protected, 1, FALSE)
<1>1. /\ SameProgram /\ ~exec[r] /\ fifo[r] = <<>> /\ queue'[r] = Append(q, c)
      /\ UNCHANGED <<flash, exec, fifo, state, newMiv, stage, sawBusy>>
  BY Unchanged DEF OtherCommand, LooksIdle, result, TypeOK
<1>2. q \in Seq(Commands) /\ c \in Commands /\ ~Ours(c) /\ c.seg = Protected
  <2>1. q \in Seq(Commands)
    BY DEF TypeOK
  <2>2. c \in Commands
    BY DEF Command, Commands, Protected, Record
  <2>3. ~Ours(c) /\ c.seg = Protected
    BY DEF Command, Ours
  <2> QED
    BY <2>1, <2>2, <2>3
<1> HIDE DEF q, c
<1>3. /\ NothingOurs(queue'[r]) <=> NothingOurs(q)
      /\ Clean(q) => Clean(queue'[r])
      /\ AllFresh(q) => AllFresh(queue'[r])
      /\ LastFresh(q) => LastFresh(queue'[r])
      /\ Confined(q, seg) => Confined(queue'[r], seg)
      /\ Within(q, writeImage) => Within(queue'[r], writeImage)
      /\ FreshIs(q, op, seg, rec, Tagged(r)) => FreshIs(queue'[r], op, seg, rec, Tagged(r))
  BY <1>1, <1>2, ForeignQueue
<1>4. StageInv(r)'
  BY <1>1, MivStageInv
<1>5. QueueInv(r)'
  BY <1>1, <1>3 DEF RocInv, QueueInv, SameProgram, Alive, Tagged, q
<1>6. ReplyInv(r)'
  BY <1>1, EmptyFifo DEF RocInv, ReplyInv, SameProgram, Effect
<1>7. CommandOver(r)'
  BY <1>1, <1>3 DEF RocInv, CommandOver, SameProgram, Writing, q
<1>8. WrittenInv(r)'
  BY <1>1, <1>3 DEF RocInv, WrittenInv, SameProgram, Writing, Effect, q
<1>9. VerifiedInv(r)'
  BY <1>1, <1>3 DEF RocInv, VerifiedInv, SameProgram, Alive, Settled, Probing, Writing, Current, q
<1> QED
  BY <1>4, <1>5, <1>6, <1>7, <1>8, <1>9 DEF RocInv

\* The replies are read by another user, or drained by waitIdle.
LEMMA DrainInv ==
  ASSUME TypeOK, NEW r \in Roc, RocInv(r), OtherReads(r) \/ DrainStale(r)
  PROVE  RocInv(r)'
<1>1. /\ SameProgram /\ fifo'[r] = <<>>
      /\ UNCHANGED <<flash, queue, exec, state, newMiv, stage, sawBusy>>
  BY Unchanged DEF OtherReads, DrainStale, result, TypeOK
<1>2. StageInv(r)'
  BY <1>1, MivStageInv
<1>3. QueueInv(r)'
  BY <1>1 DEF RocInv, QueueInv, SameProgram, Alive, Tagged
<1>4. ReplyInv(r)'
  BY <1>1, EmptyFifo DEF RocInv, ReplyInv, SameProgram, Effect
<1>5. CommandOver(r)'
  BY <1>1 DEF RocInv, CommandOver, SameProgram, Writing
<1>6. WrittenInv(r)'
  BY <1>1 DEF RocInv, WrittenInv, SameProgram, Writing, Effect
<1>7. VerifiedInv(r)'
  BY <1>1 DEF RocInv, VerifiedInv, SameProgram, Alive, Settled, Probing, Writing, Current
<1> QED
  BY <1>2, <1>3, <1>4, <1>5, <1>6, <1>7 DEF RocInv

\* What the end of the first command does to the segments below its own, and to its own.
LEMMA FinishEffects ==
  ASSUME TypeOK, NEW r \in Roc, NEW ok \in BOOLEAN, queue[r] # <<>>, Finish(r, ok),
         NEW c, c = Head(queue[r]), c.seg \in Segment, c.rec \in Record
  PROVE  /\ \A s \in Segment : s < c.seg /\ Filled(flash[r], s) => Filled(flash'[r], s)
         /\ c.act = "erase" /\ ok => Erased(flash'[r], c.seg)
         /\ c.act = "write" /\ ErasedAfter(flash[r], c.seg, c.rec) =>
              ErasedAfter(flash'[r], c.seg, c.rec)
         /\ c.act = "write" /\ ok /\ flash[r][c.seg][c.rec] = "erased" =>
              flash'[r][c.seg][c.rec] = "image"
<1>0. Segment \subseteq Block /\ c.seg \in Block /\ Segment \subseteq Nat
  BY DEF Segment, Block, Beyond
<1>1. CASE c.act = "erase" /\ ok
  <2>1. \A b \in Block : flash'[r][b] = IF b \in ErasedBlocks(r, c)
                                        THEN [i \in Record |-> "erased"] ELSE flash[r][b]
    BY <1>1, ErasesFlash DEF Finish
  <2>2. c.seg \in ErasedBlocks(r, c) /\ \A s \in Segment : s < c.seg => s \notin ErasedBlocks(r, c)
    <3>1. \A s \in Segment : s < c.seg => s # c.seg /\ s # c.seg + 1
      BY DEF Segment
    <3> QED
      BY <3>1 DEF ErasedBlocks
  <2>3. \A s \in Segment : s < c.seg => flash'[r][s] = flash[r][s]
    BY <1>0, <2>1, <2>2
  <2>4. Erased(flash'[r], c.seg)
    BY <1>0, <2>1, <2>2 DEF Erased
  <2> QED
    BY <1>1, <2>3, <2>4 DEF Filled
<1>2. CASE c.act = "write"
  <2>1. PICK x \in Content :
          /\ Becomes(r, c.seg, c.rec, x)
          /\ ok /\ flash[r][c.seg][c.rec] = "erased" => x = "image"
    <3>1. CASE ok
      <4>1. EffectWrite(r, c)
        BY <1>2, <3>1 DEF Finish
      <4>2. flash' = [flash EXCEPT ![r][c.seg][c.rec] =
                        IF flash[r][c.seg][c.rec] \in {"erased", "image"} THEN "image" ELSE "bad"]
        BY <4>1 DEF EffectWrite
      <4> QED
        BY <4>2 DEF Content, Becomes
    <3>2. CASE ~ok
      BY <1>2, <3>2 DEF Finish, Content, Becomes
    <3> QED
      BY <3>1, <3>2
  <2>2. PICK b \in Block, n \in Record : b = c.seg /\ n = c.rec
    BY <1>0
  <2>3. /\ flash'[r][b][n] = x
        /\ \A d \in Block, k \in Record : d # b \/ k # n => flash'[r][d][k] = flash[r][d][k]
    <3>1. Becomes(r, b, n, x)
      BY <2>1, <2>2
    <3> QED
      BY <3>1, WritesFlash
  <2>4. \A s \in Segment : s < c.seg /\ Filled(flash[r], s) => Filled(flash'[r], s)
    <3>1. \A s \in Segment : s < b => s \in Block /\ s # b
      BY <1>0 DEF Segment, Block, Beyond
    <3> QED
      BY <2>2, <2>3, <3>1 DEF Filled
  <2>5. ErasedAfter(flash[r], c.seg, c.rec) => ErasedAfter(flash'[r], c.seg, c.rec)
    <3>1. \A i \in Record : i > c.rec => i # c.rec
      BY DEF Record
    <3> QED
      BY <2>2, <2>3, <3>1 DEF ErasedAfter
  <2>6. flash'[r][c.seg][c.rec] = x
    BY <2>2, <2>3
  <2> QED
    BY <1>2, <2>1, <2>4, <2>5, <2>6
<1>3. CASE c.act # "write" /\ ~(c.act = "erase" /\ ok)
  <2>1. UNCHANGED flash
    BY <1>3 DEF Finish
  <2> QED
    BY <1>3, <2>1
<1> QED
  BY <1>1, <1>2, <1>3

\* Of a ROC that takes part in reading back, or has nothing more to be written in the
\* segment, the flash does not change.
LEMMA SettledFlash ==
  ASSUME TypeOK, NEW r \in Roc, RocInv(r), NEW ok \in BOOLEAN, queue[r] # <<>>,
         Finish(r, ok), Alive(r), Settled(r)
  PROVE  flash'[r] = flash[r]
<1>1. Clean(queue[r]) /\ queue[r] \in Seq(Commands)
  BY DEF RocInv, VerifiedInv, TypeOK
<1>2. Head(queue[r]).act \notin {"erase", "write"}
  BY <1>1, HeadOfQueue DEF Destructive
<1> QED
  BY <1>2, FinishesFlash

\* The reply of the last command sent says what the command has done.
LEMMA AnswerHolds ==
  ASSUME TypeOK, NEW r \in Roc, RocInv(r), NEW ok \in BOOLEAN, queue[r] # <<>>, Finish(r, ok),
         NEW c, c = Head(queue[r]), c \in Commands, Answers(r, c), NEW good \in BOOLEAN,
         good => ok /\ (c.act = "crc" => SegmentHolds(r, c.seg)),
         Answering(Reply(r, c, good))
  PROVE  /\ NothingOurs(Tail(queue[r]))
         /\ stage[r] = "wait" /\ good => Effect(r)'
<1>0. queue[r] \in Seq(Commands)
  BY DEF TypeOK
<1>1. c.fresh /\ c.act \in {"erase", "write", "probe", "crc", "image"} /\ Ours(c)
  BY DEF Answering, Reply, Commands, Ours
<1>2. NothingOurs(Tail(queue[r]))
  BY <1>0, <1>1, HeadOfQueue DEF RocInv, QueueInv
<1>3. ASSUME stage[r] = "wait", good PROVE Effect(r)'
  <2>1. c.act = op /\ c.seg = seg /\ c.rec = rec /\ c.tagged = Tagged(r)
    BY <1>0, <1>1, <1>3, HeadOfQueue DEF RocInv, QueueInv
  <2>2. UNCHANGED <<op, seg, rec>>
    BY DEF Finish, program
  <2>3. c.seg \in Segment /\ c.rec \in Record
    BY <2>1 DEF TypeOK
  <2>4. CASE op = "erase"
    <3>1. Erased(flash'[r], seg)
      BY <1>3, <2>1, <2>3, <2>4, FinishEffects
    <3> QED
      BY <2>2, <2>4, <3>1 DEF Effect
  <2>5. CASE op = "write"
    <3>1. newMiv[r]
      BY <1>1, <2>1, <2>5 DEF Answers, Tagged, TypeOK
    <3>2. ~NothingOurs(queue[r])
      BY <1>0, <1>1, HeadOfQueue
    <3>3. flash[r][seg][rec] = "erased"
      BY <1>3, <2>5, <3>1, <3>2 DEF RocInv, WrittenInv
    <3>4. flash'[r][seg][rec] = "image"
      BY <1>3, <2>1, <2>3, <2>5, <3>3, FinishEffects
    <3> QED
      BY <2>2, <2>5, <3>4 DEF Effect
  <2>6. CASE op = "crc"
    <3>1. SegmentHolds(r, seg)
      BY <1>3, <2>1, <2>6
    <3>2. flash'[r] = flash[r]
      BY <2>1, <2>6, FinishesFlash
    <3>3. Filled(flash'[r], seg)
      BY <3>1, <3>2 DEF SegmentHolds, Holds, Filled
    <3> QED
      BY <2>2, <2>6, <3>3 DEF Effect
  <2>7. CASE op \notin {"erase", "write", "crc"}
    BY <2>2, <2>7 DEF Effect
  <2> QED
    BY <2>4, <2>5, <2>6, <2>7
<1> QED
  BY <1>2, <1>3

LEMMA FinishReplyInv ==
  ASSUME TypeOK, ProgramInv, NEW r \in Roc, RocInv(r), NEW ok \in BOOLEAN, Finish(r, ok)
  PROVE  ReplyInv(r)'
<1> DEFINE q == queue[r]
           c == Head(q)
<1>1. q # <<>> /\ q \in Seq(Commands) /\ c \in Commands
  BY Tailing DEF Finish, RocInv, QueueInv, TypeOK
<1>2. /\ SameProgram /\ queue'[r] = Tail(q)
      /\ UNCHANGED <<state, newMiv, stage, sawBusy>>
  BY Unchanged DEF Finish, result, TypeOK
<1>3. fifo[r] \in Seq(Replies)
  BY DEF TypeOK
<1>4. NothingOurs(q) => NothingOurs(Tail(q)) /\ flash'[r] = flash[r]
  <2>1. NothingOurs(q) => NothingOurs(Tail(q)) /\ ~Destructive(c)
    BY <1>1, TailQueue, HeadOfQueue DEF Ours, Destructive
  <2> QED
    BY <1>1, <2>1, FinishesFlash DEF Destructive
\* what the replies of before still say
<1>5. NothingOurs(Tail(q)) \/ Unanswered(fifo[r])
  BY <1>4 DEF RocInv, ReplyInv
<1>6. ASSUME stage[r] = "wait" PROVE Effect(r)' \/ NoneGood(fifo[r])
  <2>1. CASE NothingOurs(q)
    BY <1>2, <1>4, <1>6, <2>1 DEF RocInv, ReplyInv, Effect, SameProgram
  <2>2. CASE ~NothingOurs(q)
    BY <2>2 DEF RocInv, ReplyInv, Unanswered, NoneGood
  <2> QED
    BY <2>1, <2>2
<1>7. ASSUME stage[r] = "wait", op = "read"
      PROVE  flash'[r] = flash[r] /\ ReadFrom(fifo[r], flash'[r])
  <2>1. Alive(r) /\ r \in Current
    BY <1>7 DEF RocInv, StageInv
  <2>2. Settled(r)
    BY <1>7, <2>1 DEF Settled, Current, Writing
  <2>3. flash'[r] = flash[r]
    BY <1>1, <2>1, <2>2, SettledFlash
  <2> QED
    BY <1>7, <2>3 DEF RocInv, ReplyInv
<1>8. CASE ~Answers(r, c)
  <2>1. UNCHANGED fifo
    BY <1>8 DEF Finish
  <2> QED
    BY <1>2, <1>5, <1>6, <1>7, <2>1 DEF ReplyInv, SameProgram
<1>9. CASE Answers(r, c)
  <2>1. PICK good \in BOOLEAN :
          /\ fifo'[r] = Append(fifo[r], Reply(r, c, good))
          /\ good => ok /\ (c.act = "crc" => SegmentHolds(r, c.seg))
          /\ good /\ c.act \in {"probeRead", "read"} => Holds(r, c.seg, c.rec)
    <3> DEFINE good == CASE c.act = "crc"   -> ok /\ SegmentHolds(r, c.seg)
                         [] c.act = "image" -> ok /\ ImageHolds(r)
                         [] c.act \in {"probeRead", "read"} -> ok /\ Holds(r, c.seg, c.rec)
                         [] OTHER           -> ok
    <3>1. good \in BOOLEAN
      BY DEF SegmentHolds, ImageHolds, Holds
    <3>2. fifo'[r] = Append(fifo[r], Reply(r, c, good))
      <4>1. fifo' = [fifo EXCEPT ![r] = Append(fifo[r], Reply(r, c, good))]
        BY <1>9 DEF Finish
      <4> HIDE DEF good, c
      <4> QED
        BY <4>1 DEF TypeOK
    <3>3. /\ good => ok /\ (c.act = "crc" => SegmentHolds(r, c.seg))
          /\ good /\ c.act \in {"probeRead", "read"} => Holds(r, c.seg, c.rec)
      OBVIOUS
    <3> QED
      BY <3>1, <3>2, <3>3
  <2> DEFINE x == Reply(r, c, good)
  <2>2. x \in Replies
    BY <1>1, ReplyTypes
  <2>3. Answering(x) => /\ NothingOurs(Tail(q))
                        /\ stage[r] = "wait" /\ x.ok => Effect(r)'
    <3>1. x.ok = good
      BY DEF Reply
    <3> QED
      BY <1>1, <1>9, <2>1, <3>1, AnswerHolds
  <2>4. x.kind = "data" /\ x.ok /\ x.seg \in Segment /\ flash'[r] = flash[r] =>
          flash'[r][x.seg][x.rec] = "image"
    <3>1. x.ok = good /\ x.seg = c.seg /\ x.rec = c.rec
      BY DEF Reply
    <3>2. x.kind = "data" => c.act \in {"probeRead", "read", "other"}
      BY <1>1 DEF Reply, Commands
    <3>3. c.act = "other" => c.seg = Protected
      BY <1>1, HeadOfQueue DEF RocInv, QueueInv, Ours
    <3>4. Protected \notin Segment
      BY DEF Protected, Segment
    <3> QED
      BY <2>1, <3>1, <3>2, <3>3, <3>4 DEF Holds
  <2> HIDE DEF x
  <2>5. NothingOurs(Tail(q)) \/ Unanswered(fifo'[r])
    BY <1>3, <1>5, <2>1, <2>2, <2>3, RepliedFifo DEF x
  <2>6. stage[r] = "wait" => Effect(r)' \/ NoneGood(fifo'[r])
    BY <1>3, <1>6, <2>1, <2>2, <2>3, RepliedFifo DEF x
  <2>7. stage[r] = "wait" /\ op = "read" => ReadFrom(fifo'[r], flash'[r])
    BY <1>3, <1>7, <2>1, <2>2, <2>4, RepliedFifo DEF x
  <2> QED
    BY <1>2, <2>5, <2>6, <2>7 DEF ReplyInv, SameProgram
<1> QED
  BY <1>8, <1>9

LEMMA FinishWrittenInv ==
  ASSUME TypeOK, ProgramInv, NEW r \in Roc, RocInv(r), NEW ok \in BOOLEAN, Finish(r, ok)
  PROVE  WrittenInv(r)'
<1> DEFINE q == queue[r]
           c == Head(q)
<1>1. q # <<>> /\ q \in Seq(Commands) /\ c \in Commands
  BY Tailing DEF Finish, RocInv, QueueInv, TypeOK
<1>2. /\ SameProgram /\ queue'[r] = Tail(q)
      /\ UNCHANGED <<state, newMiv, stage, sawBusy>>
  BY Unchanged DEF Finish, result, TypeOK
<1>3. ~Ours(c) => flash'[r] = flash[r]
  BY <1>1, FinishesFlash DEF Ours
<1>4. NothingOurs(q) => flash'[r] = flash[r]
  BY <1>1, <1>3, HeadOfQueue
<1> SUFFICES ASSUME newMiv[r] PROVE WrittenInv(r)'
  BY <1>2 DEF WrittenInv
<1>5. ASSUME Writing, stage[r] = "ok" PROVE Effect(r)'
  <2>1. flash'[r] = flash[r] /\ Effect(r)
    BY <1>4, <1>5 DEF RocInv, CommandOver, WrittenInv
  <2> QED
    BY <1>2, <2>1 DEF Effect, SameProgram
<1>6. ASSUME op = "write", stage[r] \in {"send", "wait", "ok"}
      PROVE  ErasedAfter(flash'[r], seg, rec)
  <2>1. ErasedAfter(flash[r], seg, rec)
    BY <1>6 DEF RocInv, WrittenInv
  <2>2. CASE ~Ours(c)
    BY <1>3, <2>1, <2>2
  <2>3. CASE Ours(c)
    <3>1. stage[r] = "wait"
      BY <1>1, <1>6, <2>3, HeadOfQueue DEF RocInv, CommandOver, Writing
    <3>2. c.fresh
      BY <1>1, <1>6, <2>3, <3>1, HeadOfQueue DEF RocInv, CommandOver
    <3>3. c.act = "write" /\ c.seg = seg /\ c.rec = rec
      BY <1>1, <1>6, <2>3, <3>1, <3>2, HeadOfQueue DEF RocInv, QueueInv
    <3>4. c.seg \in Segment /\ c.rec \in Record
      BY <3>3 DEF TypeOK
    <3> QED
      BY <1>1, <2>1, <3>3, <3>4, FinishEffects
  <2> QED
    BY <2>2, <2>3
<1>7. ASSUME op = "write", stage[r] = "send" \/ (stage[r] = "wait" /\ ~NothingOurs(Tail(q)))
      PROVE  flash'[r][seg][rec] = "erased"
  <2>1. stage[r] = "send" \/ (stage[r] = "wait" /\ ~NothingOurs(q))
    BY <1>1, <1>7, TailQueue
  <2>2. flash[r][seg][rec] = "erased"
    BY <1>7, <2>1 DEF RocInv, WrittenInv
  <2>3. ~Ours(c)
    <3>1. CASE stage[r] = "send"
      BY <1>1, <1>7, <3>1, HeadOfQueue DEF RocInv, CommandOver
    <3>2. CASE stage[r] = "wait" /\ ~NothingOurs(Tail(q))
      <4>1. AllFresh(q) /\ LastFresh(q)
        BY <1>7, <3>2 DEF RocInv, CommandOver, QueueInv
      <4> QED
        BY <1>1, <3>2, <4>1, HeadOfQueue
    <3> QED
      BY <1>7, <3>1, <3>2
  <2> QED
    BY <1>3, <2>2, <2>3
<1> QED
  BY <1>2, <1>5, <1>6, <1>7 DEF WrittenInv, SameProgram, Writing

LEMMA FinishVerifiedInv ==
  ASSUME TypeOK, ProgramInv, NEW r \in Roc, RocInv(r), NEW ok \in BOOLEAN, Finish(r, ok)
  PROVE  VerifiedInv(r)'
<1> DEFINE q == queue[r]
           c == Head(q)
<1>1. q # <<>> /\ q \in Seq(Commands) /\ c \in Commands
  BY Tailing DEF Finish, RocInv, QueueInv, TypeOK
<1>2. /\ SameProgram /\ queue'[r] = Tail(q)
      /\ UNCHANGED <<state, newMiv, stage, sawBusy>>
  BY Unchanged DEF Finish, result, TypeOK
<1> SUFFICES ASSUME Alive(r) PROVE VerifiedInv(r)'
  BY <1>2 DEF VerifiedInv, Alive
<1>3. Settled(r) => Clean(Tail(q)) /\ flash'[r] = flash[r]
  BY <1>1, TailQueue, SettledFlash DEF RocInv, VerifiedInv
<1>4. \A s \in Segment : s < seg => Filled(flash'[r], s)
  <2>1. \A s \in Segment : s < seg => Filled(flash[r], s)
    BY DEF RocInv, VerifiedInv
  <2>2. CASE Destructive(c)
    <3>1. c.seg = seg
      BY <1>1, <2>2, HeadOfQueue DEF RocInv, QueueInv
    <3>2. c.seg \in Segment /\ c.rec \in Record
      BY <1>1, <3>1 DEF TypeOK, Commands
    <3> QED
      BY <1>1, <2>1, <3>1, <3>2, FinishEffects
  <2>3. CASE ~Destructive(c)
    <3>1. flash'[r] = flash[r]
      BY <1>1, <2>3, FinishesFlash DEF Destructive
    <3> QED
      BY <2>1, <3>1
  <2> QED
    BY <2>2, <2>3
<1>5. op \in {"crc", "read"} /\ r \in Current => Settled(r)
  BY DEF Settled, Current, Writing
<1>6. op \in {"image", "done"} => Settled(r)
  BY DEF Settled, Writing, ProgramInv
<1>7. r \notin todo => Settled(r)
  BY DEF Settled
<1>8. Settled(r)' <=> Settled(r)
  BY <1>2 DEF Settled, Probing, Writing, SameProgram
<1> QED
  BY <1>2, <1>3, <1>4, <1>5, <1>6, <1>7, <1>8
     DEF RocInv, VerifiedInv, SameProgram, Current, Alive

LEMMA FinishInv ==
  ASSUME TypeOK, ProgramInv, NEW r \in Roc, RocInv(r), NEW ok \in BOOLEAN, Finish(r, ok)
  PROVE  RocInv(r)'
<1> DEFINE q == queue[r]
<1>1. q # <<>> /\ q \in Seq(Commands)
  BY DEF Finish, RocInv, QueueInv, TypeOK
<1>2. /\ SameProgram /\ queue'[r] = Tail(q) /\ exec'[r] = (Tail(q) # <<>>)
      /\ UNCHANGED <<state, newMiv, stage, sawBusy>>
  BY Unchanged DEF Finish, result, TypeOK
<1> HIDE DEF q
<1>3. /\ NothingOurs(q) => NothingOurs(Tail(q))
      /\ AllFresh(q) => AllFresh(Tail(q))
      /\ LastFresh(q) => LastFresh(Tail(q))
      /\ Confined(q, seg) => Confined(Tail(q), seg)
      /\ Within(q, writeImage) => Within(Tail(q), writeImage)
      /\ FreshIs(q, op, seg, rec, Tagged(r)) => FreshIs(Tail(q), op, seg, rec, Tagged(r))
  BY <1>1, TailQueue
<1>4. StageInv(r)'
  BY <1>2, MivStageInv
<1>5. QueueInv(r)'
  BY <1>2, <1>3 DEF RocInv, QueueInv, SameProgram, Alive, Tagged, q
<1>6. CommandOver(r)'
  BY <1>2, <1>3, EmptyQueue DEF RocInv, CommandOver, SameProgram, Writing, q
<1> QED
  BY <1>4, <1>5, <1>6, FinishReplyInv, FinishWrittenInv, FinishVerifiedInv DEF RocInv

\* The command of the round is on its way: it arrives behind what is there, with a new
\* tag, and nothing of before is waited for any more.
LEMMA Delivered ==
  ASSUME TypeOK, ProgramInv, NEW r \in Roc, RocInv(r), Deliver(r), op # "done",
         fifo[r] = <<>>
  PROVE  /\ LastFresh(queue'[r])
         /\ Within(queue'[r], writeImage)
         /\ FreshIs(queue'[r], op, seg, rec, Tagged(r))
         /\ Alive(r) => Confined(queue'[r], seg)
         /\ NothingOurs(queue[r]) => AllFresh(queue'[r])
         /\ Clean(queue[r]) /\ ~Writing => Clean(queue'[r])
         /\ DOMAIN fifo'[r] = {}
<1> DEFINE q == queue[r]
           c == Command(op, seg, rec, Tagged(r))
<1>1. q \in Seq(Commands) /\ c \in Commands
  BY CommandTypes DEF TypeOK
<1>2. /\ c.fresh /\ Ours(c) /\ (Destructive(c) <=> Writing)
      /\ c.act = op /\ c.seg = seg /\ c.rec = rec /\ c.tagged = Tagged(r)
  BY DEF Command, Ours, Destructive, Writing, TypeOK
<1>3. /\ Aged(q) \in Seq(Commands) /\ \A i \in DOMAIN Aged(q) : ~Aged(q)[i].fresh
      /\ NothingOurs(q) => NothingOurs(Aged(q))
      /\ Clean(q) => Clean(Aged(q))
      /\ Confined(q, seg) => Confined(Aged(q), seg)
      /\ Within(q, writeImage) => Within(Aged(q), writeImage)
  BY <1>1, AgedQueue
<1>4. queue'[r] = Append(Aged(q), c)
  BY DEF Deliver, TypeOK
<1>5. DOMAIN fifo'[r] = {}
  <2>1. fifo'[r] = Aged(fifo[r])
    BY DEF Deliver, TypeOK
  <2> QED
    BY <2>1 DEF Aged
<1>6. Writing => writeImage /\ seg \in Segment
  BY DEF ProgramInv, TypeOK
<1> HIDE DEF c
<1>7. /\ LastFresh(queue'[r])
      /\ FreshIs(queue'[r], op, seg, rec, Tagged(r))
      /\ NothingOurs(q) => AllFresh(queue'[r])
  BY <1>1, <1>2, <1>3, <1>4, SentQueue
<1>8. Clean(q) /\ ~Writing => Clean(queue'[r])
  BY <1>1, <1>2, <1>3, <1>4, SentQueue
<1>9. Alive(r) => Confined(queue'[r], seg)
  <2>1. Alive(r) => Confined(q, seg)
    BY DEF RocInv, QueueInv
  <2> QED
    BY <1>1, <1>2, <1>3, <1>4, <2>1, SentQueue
<1>10. Within(queue'[r], writeImage)
  <2>1. Within(q, writeImage)
    BY DEF RocInv, QueueInv
  <2> QED
    BY <1>1, <1>2, <1>3, <1>4, <1>6, <2>1, SentQueue
<1> QED
  BY <1>5, <1>7, <1>8, <1>9, <1>10

\* A ROC that is sent something has a part in the operation, and one that is written to
\* has segments left to settle.
LEMMA Sending ==
  ASSUME NEW r \in Roc, RocInv(r), stage[r] = "send"
  PROVE  Alive(r) /\ op # "done" /\ (Settled(r) => ~Writing)
BY DEF RocInv, StageInv, Settled, Probing, Writing, Current

LEMMA SendOkInv ==
  ASSUME TypeOK, ProgramInv, NEW r \in Roc, RocInv(r), SendOk(r)
  PROVE  RocInv(r)'
<1>1. /\ SameProgram /\ stage[r] = "send" /\ stage'[r] = "wait" /\ ~exec[r] /\ ~sawBusy'[r]
      /\ fifo[r] = <<>> /\ Deliver(r)
      /\ UNCHANGED <<flash, exec, state, newMiv>>
  BY Unchanged DEF SendOk, SetStage, LooksIdle, result, TypeOK
<1>2. Alive(r) /\ op # "done" /\ (Settled(r) => ~Writing)
  BY <1>1, Sending
<1>3. /\ LastFresh(queue'[r]) /\ Within(queue'[r], writeImage)
      /\ FreshIs(queue'[r], op, seg, rec, Tagged(r)) /\ Confined(queue'[r], seg)
      /\ NothingOurs(queue[r]) => AllFresh(queue'[r])
      /\ Clean(queue[r]) /\ ~Writing => Clean(queue'[r])
      /\ DOMAIN fifo'[r] = {}
  BY <1>1, <1>2, Delivered
<1>4. Unanswered(fifo'[r]) /\ NoneGood(fifo'[r]) /\ ReadFrom(fifo'[r], flash'[r])
  BY <1>3, NoReplies
<1>5. StageInv(r)'
  BY <1>1, <1>2 DEF RocInv, StageInv, SameProgram, Alive, Probing, Writing, Current, Asked
<1>6. QueueInv(r)'
  BY <1>1, <1>3 DEF QueueInv, SameProgram, Alive, Tagged
<1>7. ReplyInv(r)'
  BY <1>1, <1>4 DEF ReplyInv
<1>8. CommandOver(r)'
  BY <1>1, <1>3 DEF RocInv, CommandOver, SameProgram, Writing
<1>9. WrittenInv(r)'
  BY <1>1 DEF RocInv, WrittenInv, SameProgram, Writing
<1>10. VerifiedInv(r)'
  BY <1>1, <1>2, <1>3 DEF RocInv, VerifiedInv, SameProgram, Alive, Settled, Probing, Writing, Current
<1> QED
  BY <1>5, <1>6, <1>7, <1>8, <1>9, <1>10 DEF RocInv

LEMMA SendLostInv ==
  ASSUME TypeOK, ProgramInv, NEW r \in Roc, RocInv(r), SendLost(r)
  PROVE  RocInv(r)'
<1> DEFINE q == queue[r]
<1>1. /\ SameProgram /\ stage[r] = "send" /\ stage'[r] = "wait" /\ ~exec[r] /\ ~sawBusy'[r]
      /\ fifo[r] = <<>> /\ queue'[r] = Aged(q)
      /\ UNCHANGED <<flash, exec, fifo, state, newMiv>>
  BY Unchanged DEF SendLost, SetStage, LooksIdle, result, TypeOK
<1>2. Alive(r)
  BY <1>1, Sending
<1>3. q \in Seq(Commands)
  BY DEF TypeOK
<1> HIDE DEF q
<1>4. /\ \A i \in DOMAIN Aged(q) : ~Aged(q)[i].fresh
      /\ NothingOurs(q) => NothingOurs(Aged(q))
      /\ Clean(q) => Clean(Aged(q))
      /\ Confined(q, seg) => Confined(Aged(q), seg)
      /\ Within(q, writeImage) => Within(Aged(q), writeImage)
  BY <1>3, AgedQueue
<1>5. /\ LastFresh(Aged(q)) /\ FreshIs(Aged(q), op, seg, rec, Tagged(r))
      /\ NothingOurs(Aged(q)) => AllFresh(Aged(q))
  BY <1>4, StaleQueue
<1>6. StageInv(r)'
  BY <1>1, <1>2 DEF RocInv, StageInv, SameProgram, Alive, Probing, Writing, Current, Asked
<1>7. QueueInv(r)'
  BY <1>1, <1>4, <1>5 DEF RocInv, QueueInv, SameProgram, Alive, Tagged, q
<1>8. ReplyInv(r)'
  BY <1>1, EmptyFifo DEF ReplyInv
<1>9. CommandOver(r)'
  BY <1>1, <1>4, <1>5 DEF RocInv, CommandOver, SameProgram, Writing, q
<1>10. WrittenInv(r)'
  BY <1>1 DEF RocInv, WrittenInv, SameProgram, Writing
<1>11. VerifiedInv(r)'
  BY <1>1, <1>4 DEF RocInv, VerifiedInv, SameProgram, Alive, Settled, Probing, Writing, Current, q
<1> QED
  BY <1>6, <1>7, <1>8, <1>9, <1>10, <1>11 DEF RocInv

\* A ROC that did not get through, before or after its command went out.
LEMMA MissedInv ==
  ASSUME TypeOK, ProgramInv, NEW r \in Roc, RocInv(r), SameProgram, stage[r] \in {"send", "wait"},
         stage'[r] = Missed \/ (op = "probe" /\ stage'[r] = "ok"),
         UNCHANGED <<flash, queue, exec, state, sawBusy>>,
         newMiv'[r] = newMiv[r] \/ op = "probe",
         fifo'[r] = fifo[r] \/ fifo'[r] = <<>>
  PROVE  RocInv(r)'
<1>1. Alive(r) /\ stage'[r] \notin {"send", "wait", "out"}
  BY DEF RocInv, StageInv, Missed
<1>2. /\ stage'[r] = "again" => op \in Asked
      /\ stage'[r] = "ok" => op = "probe"
      /\ op = "done" => FALSE
  BY DEF Missed, RocInv, StageInv
<1>3. StageInv(r)'
  BY <1>1, <1>2 DEF RocInv, StageInv, SameProgram, Alive, Probing, Writing, Current, Asked
<1>4. QueueInv(r)'
  BY <1>1 DEF RocInv, QueueInv, SameProgram, Alive
<1>5. ReplyInv(r)'
  BY <1>1, EmptyFifo DEF RocInv, ReplyInv
<1>6. CommandOver(r)'
  BY <1>1, <1>2 DEF CommandOver, SameProgram, Writing
<1>7. WrittenInv(r)'
  BY <1>1, <1>2 DEF WrittenInv, SameProgram, Writing
<1>8. VerifiedInv(r)'
  BY <1>1, <1>2 DEF RocInv, VerifiedInv, SameProgram, Alive, Settled, Probing, Writing, Current
<1> QED
  BY <1>3, <1>4, <1>5, <1>6, <1>7, <1>8 DEF RocInv

LEMMA SendThrowsInv ==
  ASSUME TypeOK, ProgramInv, NEW r \in Roc, RocInv(r), SendThrows(r)
  PROVE  RocInv(r)'
<1>1. /\ SameProgram /\ stage[r] = "send" /\ stage'[r] = Missed
      /\ UNCHANGED <<flash, exec, state, newMiv, sawBusy>>
  BY Unchanged DEF SendThrows, SetStage, result, TypeOK
<1>2. CASE UNCHANGED <<queue, fifo>>
  BY <1>1, <1>2, MissedInv
<1>3. CASE LooksIdle(r) /\ Deliver(r)
  <2>1. fifo[r] = <<>> /\ ~exec[r]
    BY <1>3 DEF LooksIdle
  <2>2. Alive(r) /\ op # "done" /\ (Settled(r) => ~Writing)
    BY <1>1, Sending
  <2>3. /\ LastFresh(queue'[r]) /\ Within(queue'[r], writeImage) /\ Confined(queue'[r], seg)
        /\ Clean(queue[r]) /\ ~Writing => Clean(queue'[r])
        /\ DOMAIN fifo'[r] = {}
    BY <1>3, <2>1, <2>2, Delivered
  <2>4. stage'[r] \in {"err", "again"} /\ (stage'[r] = "again" => op \in Asked)
    BY <1>1 DEF Missed
  <2>5. Unanswered(fifo'[r])
    BY <2>3, NoReplies
  <2>6. StageInv(r)'
    BY <1>1, <2>2, <2>4 DEF RocInv, StageInv, SameProgram, Alive, Probing, Writing, Current, Asked
  <2>7. QueueInv(r)'
    BY <1>1, <2>1, <2>3, <2>4 DEF QueueInv, SameProgram, Alive
  <2>8. ReplyInv(r)'
    BY <2>4, <2>5 DEF ReplyInv
  <2>9. CommandOver(r)'
    BY <2>4 DEF CommandOver
  <2>10. WrittenInv(r)'
    BY <2>4 DEF WrittenInv
  <2>11. VerifiedInv(r)'
    BY <1>1, <2>2, <2>3, <2>4
       DEF RocInv, VerifiedInv, SameProgram, Alive, Settled, Probing, Writing, Current
  <2> QED
    BY <2>6, <2>7, <2>8, <2>9, <2>10, <2>11 DEF RocInv
<1> QED
  BY <1>2, <1>3 DEF SendThrows

\* A good reply to the command of the round.
LEMMA Accepted ==
  ASSUME TypeOK, NEW r \in Roc, RocInv(r), Waiting(r), ByReply(r), ReplyThere(r),
         Accepts(r, fifo[r][1])
  PROVE  /\ Writing \/ op = "crc" => NothingOurs(queue[r]) /\ Effect(r)
         /\ op = "read" => flash[r][seg][rec] = "image"
<1> DEFINE x == fifo[r][1]
<1>1. /\ fifo[r] \in Seq(Replies) /\ Len(fifo[r]) = 1 /\ x.kind = ExpectedKind
      /\ stage[r] = "wait"
  BY DEF TypeOK, ReplyThere, Waiting
<1>2. 1 \in DOMAIN fifo[r]
  BY <1>1
<1>3. x.ok /\ (Tagged(r) => x.fresh) /\ (op = "read" => x.seg = seg /\ x.rec = rec)
  BY DEF Accepts
<1>4. ASSUME Writing \/ op = "crc" PROVE NothingOurs(queue[r]) /\ Effect(r)
  <2>1. Tagged(r)
    BY <1>4 DEF Writing, ByReply, Tagged
  <2>2. Answering(x)
    BY <1>1, <1>3, <1>4, <2>1 DEF Answering, ExpectedKind, Writing
  <2> HIDE DEF x
  <2>3. ~Unanswered(fifo[r]) /\ ~NoneGood(fifo[r])
    BY <1>2, <1>3, <2>2 DEF Unanswered, NoneGood, x
  <2> QED
    BY <1>1, <2>3 DEF RocInv, ReplyInv
<1>5. ASSUME op = "read" PROVE flash[r][seg][rec] = "image"
  <2>1. x.kind = "data" /\ x.seg \in Segment
    BY <1>1, <1>3, <1>5 DEF ExpectedKind, TypeOK
  <2>2. ReadFrom(fifo[r], flash[r])
    BY <1>1, <1>5 DEF RocInv, ReplyInv
  <2> QED
    BY <1>2, <1>3, <1>5, <2>1, <2>2 DEF ReadFrom
<1> QED
  BY <1>4, <1>5

LEMMA CollectInv ==
  ASSUME TypeOK, ProgramInv, NEW r \in Roc, RocInv(r), Collect(r)
  PROVE  RocInv(r)'
<1>1. /\ SameProgram /\ stage[r] = "wait" /\ fifo'[r] = <<>>
      /\ UNCHANGED <<flash, queue, exec, state, sawBusy>>
      /\ op # "probe" => newMiv'[r] = newMiv[r]
  BY Unchanged DEF Collect, Waiting, TypeOK
<1>2. Alive(r) /\ op # "done"
  BY <1>1 DEF RocInv, StageInv
<1>3. CASE stage'[r] = "ok" /\ op \notin {"probe", "probeRead"}
  <2>1. Accepts(r, fifo[r][1])
    BY <1>3 DEF Collect, SetStage, Missed, TypeOK
  <2>2. Waiting(r) /\ ByReply(r) /\ ReplyThere(r)
    BY DEF Collect
  <2>3. /\ Writing \/ op = "crc" => NothingOurs(queue[r]) /\ Effect(r)
        /\ op = "read" => flash[r][seg][rec] = "image"
    BY <2>1, <2>2, Accepted
  <2>4. op = "write" => ErasedAfter(flash[r], seg, rec) \/ ~newMiv[r]
    BY <1>1 DEF RocInv, WrittenInv
  <2>5. StageInv(r)'
    BY <1>1, <1>2, <1>3 DEF RocInv, StageInv, SameProgram, Alive, Probing, Writing, Current, Asked
  <2>6. QueueInv(r)'
    BY <1>1, <1>3 DEF RocInv, QueueInv, SameProgram, Alive
  <2>7. ReplyInv(r)'
    BY <1>1, <1>3, EmptyFifo DEF ReplyInv
  <2>8. CommandOver(r)'
    BY <1>1, <1>3, <2>3 DEF CommandOver, SameProgram, Writing
  <2>9. WrittenInv(r)'
    BY <1>1, <1>3, <2>3, <2>4 DEF WrittenInv, SameProgram, Writing, Effect
  <2>10. VerifiedInv(r)'
    BY <1>1, <1>2, <1>3, <2>3
       DEF RocInv, VerifiedInv, SameProgram, Alive, Settled, Probing, Writing, Current, Effect
  <2> QED
    BY <2>5, <2>6, <2>7, <2>8, <2>9, <2>10 DEF RocInv
<1>4. CASE op = "probeRead"
  <2>1. stage'[r] = "ok"
    BY <1>4 DEF Collect, SetStage, TypeOK
  <2>2. StageInv(r)'
    BY <1>1, <1>2, <1>4, <2>1 DEF RocInv, StageInv, SameProgram, Alive, Probing, Writing, Current
  <2>3. QueueInv(r)'
    BY <1>1, <2>1 DEF RocInv, QueueInv, SameProgram, Alive
  <2>4. ReplyInv(r)'
    BY <1>1, <2>1, EmptyFifo DEF ReplyInv
  <2>5. CommandOver(r)' /\ WrittenInv(r)'
    BY <1>1, <1>4 DEF CommandOver, WrittenInv, SameProgram, Writing
  <2>6. VerifiedInv(r)'
    BY <1>1, <1>2, <1>4
       DEF RocInv, VerifiedInv, SameProgram, Alive, Settled, Probing, Writing, Current
  <2> QED
    BY <2>2, <2>3, <2>4, <2>5, <2>6 DEF RocInv
<1>5. CASE op = "probe" \/ (op # "probeRead" /\ stage'[r] # "ok")
  <2>1. stage'[r] = Missed \/ (op = "probe" /\ stage'[r] = "ok")
    <3>1. \E s \in {"ok", Missed} : SetStage(r, s)
      BY DEF Collect
    <3>2. op = "probe" => SetStage(r, "ok")
      BY DEF Collect
    <3> QED
      BY <1>5, <3>1, <3>2 DEF SetStage, TypeOK
  <2> QED
    BY <1>1, <2>1, MissedInv
<1> QED
  BY <1>3, <1>4, <1>5

LEMMA WaitOverInv ==
  ASSUME TypeOK, ProgramInv, NEW r \in Roc, RocInv(r), ReplyLost(r) \/ WaitTimeout(r)
  PROVE  RocInv(r)'
<1>1. /\ SameProgram /\ stage[r] = "wait"
      /\ stage'[r] = Missed \/ (op = "probe" /\ stage'[r] = "ok")
      /\ UNCHANGED <<flash, queue, exec, state, newMiv, sawBusy>>
  BY Unchanged DEF ReplyLost, WaitTimeout, Waiting, SetStage, miv, result, TypeOK
<1>2. fifo'[r] = fifo[r] \/ fifo'[r] = <<>>
  BY DEF ReplyLost, WaitTimeout, miv, TypeOK
<1> QED
  BY <1>1, <1>2, MissedInv

LEMMA PollBusyInv ==
  ASSUME TypeOK, ProgramInv, NEW r \in Roc, RocInv(r), PollBusy(r)
  PROVE  RocInv(r)'
<1>1. /\ SameProgram /\ exec[r]
      /\ UNCHANGED <<flash, queue, exec, fifo, state, newMiv, stage>>
  BY Unchanged DEF PollBusy, miv, result
<1>2. StageInv(r)'
  BY <1>1, MivStageInv
<1>3. QueueInv(r)'
  BY <1>1 DEF RocInv, QueueInv, SameProgram, Alive, Tagged
<1>4. ReplyInv(r)'
  BY <1>1 DEF RocInv, ReplyInv, SameProgram, Effect
<1>5. CommandOver(r)'
  BY <1>1 DEF RocInv, CommandOver, SameProgram, Writing
<1>6. WrittenInv(r)'
  BY <1>1 DEF RocInv, WrittenInv, SameProgram, Writing, Effect
<1>7. VerifiedInv(r)'
  BY <1>1 DEF RocInv, VerifiedInv, SameProgram, Alive, Settled, Probing, Writing, Current
<1> QED
  BY <1>2, <1>3, <1>4, <1>5, <1>6, <1>7 DEF RocInv

\* DONE of an older MiV is the end of everything the session has sent it.
LEMMA AcceptDoneInv ==
  ASSUME TypeOK, ProgramInv, NEW r \in Roc, RocInv(r), AcceptDone(r)
  PROVE  RocInv(r)'
<1>1. /\ SameProgram /\ stage[r] = "wait" /\ stage'[r] = "ok"
      /\ UNCHANGED <<flash, queue, exec, fifo, state, newMiv, sawBusy>>
  BY Unchanged DEF AcceptDone, Waiting, SetStage, miv, result, TypeOK
<1>2. Writing /\ ~newMiv[r] /\ ~exec[r] /\ (sawBusy[r] \/ queue[r] = <<>>)
  BY DEF AcceptDone, ByReply, Quiet, Writing
<1>3. Alive(r) /\ op \notin {"crc", "read", "image", "done", "probe", "probeRead"}
  BY <1>1, <1>2 DEF RocInv, StageInv, Writing
<1>4. NothingOurs(queue[r])
  BY <1>1, <1>2, EmptyQueue DEF RocInv, CommandOver
<1>5. StageInv(r)'
  BY <1>1, <1>3 DEF RocInv, StageInv, SameProgram, Alive, Probing, Writing, Current, Asked
<1>6. QueueInv(r)'
  BY <1>1 DEF RocInv, QueueInv, SameProgram, Alive
<1>7. ReplyInv(r)'
  BY <1>1 DEF RocInv, ReplyInv
<1>8. CommandOver(r)'
  BY <1>1, <1>4 DEF CommandOver, SameProgram, Writing
<1>9. WrittenInv(r)'
  BY <1>1, <1>2 DEF WrittenInv
<1>10. VerifiedInv(r)'
  BY <1>1, <1>3 DEF RocInv, VerifiedInv, SameProgram, Alive, Settled, Probing, Writing, Current
<1> QED
  BY <1>5, <1>6, <1>7, <1>8, <1>9, <1>10 DEF RocInv

LEMMA SendNotIdleInv ==
  ASSUME TypeOK, ProgramInv, NEW r \in Roc, RocInv(r), SendNotIdle(r)
  PROVE  RocInv(r)'
<1>1. /\ SameProgram /\ stage[r] = "send" /\ stage'[r] = Missed
      /\ UNCHANGED <<flash, queue, exec, fifo, state, newMiv, sawBusy>>
  BY Unchanged DEF SendNotIdle, SetStage, miv, result, TypeOK
<1> QED
  BY <1>1, MissedInv

RocStep(r) ==
  \/ SendOk(r) \/ SendLost(r) \/ DrainStale(r) \/ SendNotIdle(r) \/ SendThrows(r)
  \/ Collect(r) \/ ReplyLost(r) \/ WaitTimeout(r) \/ PollBusy(r) \/ AcceptDone(r)
  \/ Take(r) \/ MivFinish(r) \/ OtherCommand(r) \/ OtherReads(r)

LEMMA RocStepInv ==
  ASSUME TypeOK, ProgramInv, NEW r \in Roc, RocInv(r), RocStep(r)
  PROVE  RocInv(r)'
<1>1. CASE SendOk(r) \/ SendLost(r) \/ DrainStale(r) \/ SendNotIdle(r) \/ SendThrows(r)
  BY <1>1, SendOkInv, SendLostInv, DrainInv, SendNotIdleInv, SendThrowsInv
<1>2. CASE Collect(r) \/ ReplyLost(r) \/ WaitTimeout(r) \/ PollBusy(r) \/ AcceptDone(r)
  BY <1>2, CollectInv, WaitOverInv, PollBusyInv, AcceptDoneInv
<1>3. CASE Take(r) \/ OtherCommand(r) \/ OtherReads(r)
  BY <1>3, TakeInv, OtherCommandInv, DrainInv
<1>4. CASE MivFinish(r)
  <2>1. Finish(r, TRUE) \/ Finish(r, FALSE)
    BY <1>4 DEF MivFinish
  <2> QED
    BY <2>1, FinishInv
<1> QED
  BY <1>1, <1>2, <1>3, <1>4 DEF RocStep

\* Of a step of one ROC no other ROC sees anything.
SameRoc(q) ==
  /\ flash'[q] = flash[q] /\ queue'[q] = queue[q] /\ exec'[q] = exec[q] /\ fifo'[q] = fifo[q]
  /\ state'[q] = state[q] /\ newMiv'[q] = newMiv[q] /\ stage'[q] = stage[q]
  /\ sawBusy'[q] = sawBusy[q]

LEMMA OtherRoc ==
  ASSUME TypeOK, NEW r \in Roc, RocInv(r), RocStep(r), NEW q \in Roc, q # r
  PROVE  SameProgram /\ SameRoc(q)
<1>1. CASE SendOk(r) \/ SendLost(r) \/ SendThrows(r)
  <2>1. /\ SameProgram /\ UNCHANGED <<flash, exec, state, newMiv>>
        /\ stage'[q] = stage[q] /\ sawBusy'[q] = sawBusy[q]
    BY <1>1, Unchanged DEF SendOk, SendLost, SendThrows, SetStage, result, TypeOK
  <2>2. queue'[q] = queue[q] /\ fifo'[q] = fifo[q]
    BY <1>1 DEF SendOk, SendLost, SendThrows, Deliver, TypeOK
  <2> QED
    BY <2>1, <2>2 DEF SameRoc
<1>2. CASE DrainStale(r) \/ SendNotIdle(r) \/ WaitTimeout(r) \/ PollBusy(r) \/ AcceptDone(r)
  <2>1. /\ SameProgram /\ UNCHANGED <<flash, queue, exec, state, newMiv>>
        /\ fifo'[q] = fifo[q]
    BY <1>2, Unchanged DEF DrainStale, SendNotIdle, WaitTimeout, PollBusy, AcceptDone, miv, result, TypeOK
  <2>2. stage'[q] = stage[q] /\ sawBusy'[q] = sawBusy[q]
    BY <1>2 DEF DrainStale, SendNotIdle, WaitTimeout, PollBusy, AcceptDone, SetStage, TypeOK
  <2> QED
    BY <2>1, <2>2 DEF SameRoc
<1>3. CASE Collect(r)
  <2>1. /\ SameProgram /\ UNCHANGED <<flash, queue, exec, state, sawBusy>>
        /\ fifo'[q] = fifo[q]
    BY <1>3, Unchanged DEF Collect, TypeOK
  <2>2. stage'[q] = stage[q] /\ newMiv'[q] = newMiv[q]
    BY <1>3 DEF Collect, SetStage, TypeOK
  <2> QED
    BY <2>1, <2>2 DEF SameRoc
<1>4. CASE ReplyLost(r)
  <2>1. /\ SameProgram /\ UNCHANGED <<flash, queue, exec, state, newMiv, sawBusy>>
        /\ fifo'[q] = fifo[q] /\ stage'[q] = stage[q]
    BY <1>4, Unchanged DEF ReplyLost, SetStage, result, TypeOK
  <2> QED
    BY <2>1 DEF SameRoc
<1>5. CASE Take(r) \/ OtherCommand(r) \/ OtherReads(r)
  <2>1. /\ SameProgram /\ UNCHANGED <<flash, state, newMiv, stage, sawBusy>>
    BY <1>5, Unchanged DEF Take, OtherCommand, OtherReads, result
  <2>2. queue'[q] = queue[q] /\ exec'[q] = exec[q] /\ fifo'[q] = fifo[q]
    BY <1>5 DEF Take, OtherCommand, OtherReads, TypeOK
  <2> QED
    BY <2>1, <2>2 DEF SameRoc
<1>6. ASSUME NEW ok \in BOOLEAN, Finish(r, ok) PROVE SameProgram /\ SameRoc(q)
  <2>1. /\ SameProgram /\ UNCHANGED <<state, newMiv, stage, sawBusy>>
    BY <1>6, Unchanged DEF Finish, result
  <2>2. queue'[q] = queue[q] /\ exec'[q] = exec[q]
    BY <1>6 DEF Finish, TypeOK
  <2>3. fifo'[q] = fifo[q]
    <3>1. fifo' = fifo \/ \E f : fifo' = [fifo EXCEPT ![r] = f]
      BY <1>6 DEF Finish
    <3> QED
      BY <3>1 DEF TypeOK
  <2>4. flash'[q] = flash[q]
    BY <1>6, FinishesFlash DEF Finish, RocInv, QueueInv
  <2> QED
    BY <2>1, <2>2, <2>3, <2>4 DEF SameRoc
<1> QED
  BY <1>1, <1>2, <1>3, <1>4, <1>5, <1>6 DEF RocStep, MivFinish

LEMMA RocStepKeepsInv ==
  ASSUME Inv, NEW r \in Roc, RocStep(r)
  PROVE  Inv'
<1>1. TypeOK /\ ProgramInv /\ \A q \in Roc : RocInv(q)
  BY DEF Inv
<1>2. TypeOK'
  <2>1. exec[r] => queue[r] # <<>>
    BY <1>1 DEF RocInv, QueueInv
  <2>2. stage[r] = "send" => op # "done"
    BY <1>1 DEF RocInv, StageInv
  <2>3. CASE SendOk(r) \/ SendLost(r) \/ DrainStale(r) \/ SendNotIdle(r) \/ SendThrows(r)
    <3>1. op # "done"
      BY <2>2, <2>3 DEF SendOk, SendLost, DrainStale, SendNotIdle, SendThrows
    <3> QED
      BY <1>1, <2>3, <3>1, SendTypes
  <2>4. CASE Collect(r) \/ ReplyLost(r) \/ WaitTimeout(r) \/ PollBusy(r) \/ AcceptDone(r)
    BY <1>1, <2>4, WaitTypes
  <2>5. CASE Take(r) \/ MivFinish(r) \/ OtherCommand(r) \/ OtherReads(r)
    BY <1>1, <2>1, <2>5, MivTypes
  <2> QED
    BY <2>3, <2>4, <2>5 DEF RocStep
<1>3. ASSUME NEW q \in Roc PROVE RocInv(q)'
  <2>1. CASE q = r
    BY <1>1, <2>1, RocStepInv
  <2>2. CASE q # r
    <3>1. SameProgram /\ SameRoc(q)
      BY <1>1, <2>2, OtherRoc
    <3> QED
      BY <1>1, <3>1, Frame DEF SameRoc
  <2> QED
    BY <2>1, <2>2
<1>4. ProgramInv'
  <2>1. SameProgram
    <3>1. UNCHANGED program /\ UNCHANGED options
      BY DEF RocStep, SendOk, SendLost, DrainStale, SendNotIdle, SendThrows, Collect, ReplyLost,
             WaitTimeout, PollBusy, AcceptDone, Take, MivFinish, Finish, OtherCommand, OtherReads
    <3> QED
      BY <3>1, Unchanged
  <2> QED
    BY <1>1, <2>1 DEF ProgramInv, SameProgram, Probing, Writing
<1> QED
  BY <1>2, <1>3, <1>4 DEF Inv

-----------------------------------------------------------------------------
(* Steps of the program: the next round, the next operation                 *)

LEMMA NextRoundInv ==
  ASSUME Inv, NextRound
  PROVE  ProgramInv' /\ \A r \in Roc : RocInv(r)'
<1>1. SameProgram /\ UNCHANGED <<flash, queue, exec, fifo, state, newMiv, sawBusy>>
  BY Unchanged DEF NextRound, miv, result
<1>2. ProgramInv'
  BY <1>1 DEF Inv, ProgramInv, SameProgram, Probing, Writing
<1>3. ASSUME NEW r \in Roc PROVE RocInv(r)'
  <2>1. RocInv(r)
    BY DEF Inv
  <2>2. CASE stage[r] = "again"
    <3>1. stage'[r] = "send"
      BY <2>2 DEF NextRound, Again
    <3>2. Alive(r) /\ op \in Asked
      BY <2>1, <2>2 DEF RocInv, StageInv
    <3>3. StageInv(r)'
      BY <1>1, <2>1, <2>2, <3>1, <3>2
         DEF RocInv, StageInv, SameProgram, Alive, Probing, Writing, Current, Asked
    <3>4. QueueInv(r)'
      BY <1>1, <2>1, <3>1 DEF RocInv, QueueInv, SameProgram, Alive
    <3>5. ReplyInv(r)'
      BY <1>1, <2>1, <3>1 DEF RocInv, ReplyInv
    <3>6. CommandOver(r)'
      BY <1>1, <3>1, <3>2 DEF CommandOver, SameProgram, Writing, Asked
    <3>7. WrittenInv(r)'
      BY <1>1, <3>1, <3>2 DEF WrittenInv, SameProgram, Writing, Asked
    <3>8. VerifiedInv(r)'
      BY <1>1, <2>1, <3>1 DEF RocInv, VerifiedInv, SameProgram, Alive, Settled, Probing, Writing, Current
    <3> QED
      BY <3>3, <3>4, <3>5, <3>6, <3>7, <3>8 DEF RocInv
  <2>3. CASE stage[r] # "again"
    <3>1. stage'[r] = stage[r]
      BY <2>3 DEF NextRound, Again
    <3> QED
      BY <1>1, <2>1, <3>1, Frame
  <2> QED
    BY <2>2, <2>3
<1> QED
  BY <1>2, <1>3

\* What an operation that begins finds of r: nothing is waited for.
Idle(r) ==
  /\ UNCHANGED <<flash, queue, exec, fifo, newMiv, sawBusy, writeImage>>
  /\ stage'[r] \in {"send", "out"}
  /\ state'[r] = "Failed" \/ Alive(r)

LEMMA IdleReplies ==
  ASSUME NEW r \in Roc, RocInv(r), Idle(r)
  PROVE  ReplyInv(r)'
BY DEF RocInv, ReplyInv, Idle

LEMMA IdleQueue ==
  ASSUME NEW r \in Roc, RocInv(r), Idle(r),
         Alive(r)' => Confined(queue[r], seg')
  PROVE  QueueInv(r)'
BY DEF RocInv, QueueInv, Idle

LEMMA AfterProbeInv ==
  ASSUME Inv, AfterProbe
  PROVE  ProgramInv' /\ \A r \in Roc : RocInv(r)'
<1>1. /\ op = "probe" /\ op' = "probeRead"
      /\ UNCHANGED <<flash, queue, exec, fifo, newMiv, seg, rec, todo, err, sawBusy, writeImage>>
  BY DEF AfterProbe, Begin, miv, options
<1>2. ProgramInv'
  BY <1>1 DEF Inv, ProgramInv, Probing, Writing
<1>3. ASSUME NEW r \in Roc PROVE RocInv(r)'
  <2>1. RocInv(r) /\ state[r] = "Selected" /\ Alive(r) /\ seg = 1 /\ todo = Roc
    BY <1>1 DEF Inv, RocInv, StageInv, ProgramInv, Probing, Alive
  <2>2. /\ state'[r] = IF r \in Bad THEN "Failed" ELSE "Selected"
        /\ stage'[r] = IF ~newMiv[r] /\ r \notin Bad THEN "send" ELSE "out"
    BY <2>1 DEF AfterProbe, FailAll, Begin, LegacyOf
  <2>3. Idle(r)
    BY <1>1, <2>1, <2>2 DEF Idle
  <2>4. StageInv(r)'
    BY <1>1, <2>2 DEF StageInv, Alive, Probing, Writing
  <2>5. QueueInv(r)'
    BY <1>1, <2>1, <2>3, IdleQueue DEF RocInv, QueueInv
  <2>6. CommandOver(r)' /\ WrittenInv(r)'
    BY <1>1 DEF CommandOver, WrittenInv, Writing
  <2>7. VerifiedInv(r)'
    <3>1. Clean(queue[r])
      BY <1>1, <2>1 DEF RocInv, VerifiedInv, Settled, Probing
    <3>2. \A s \in Segment : ~(s < 1)
      BY DEF Segment
    <3> QED
      BY <1>1, <2>1, <3>1, <3>2 DEF VerifiedInv
  <2> QED
    BY <2>1, <2>3, <2>4, <2>5, <2>6, <2>7, IdleReplies DEF RocInv
<1> QED
  BY <1>2, <1>3

\* An attempt starts for the ROCs rs.  The others hold the segment, and no command that
\* is left over can take it from them.
LEMMA AttemptInv ==
  ASSUME Inv, NEW rs \in SUBSET Roc, StartAttempt(rs), seg' \in Segment,
         UNCHANGED <<flash, queue, exec, fifo, newMiv, sawBusy, writeImage>>,
         \A r \in Roc : /\ state'[r] = "Failed" \/ (Alive(r) /\ state'[r] = "Uploading")
                        /\ r \in rs => Alive(r)'
                        /\ Alive(r)' =>
                             /\ Confined(queue[r], seg')
                             /\ r \notin rs \/ ~writeImage => Clean(queue[r])
                             /\ r \notin rs => Filled(flash[r], seg')
                             /\ \A s \in Segment : s < seg' => Filled(flash[r], s)
  PROVE  ProgramInv' /\ \A r \in Roc : RocInv(r)'
<1>1. /\ op' = IF writeImage THEN "erase" ELSE "crc"
      /\ rec' = 1 /\ err' = {} /\ todo' = rs
  BY DEF StartAttempt, Begin, FirstOp
<1>2. ProgramInv'
  BY <1>1 DEF ProgramInv, Probing, Writing
<1>3. ASSUME NEW r \in Roc PROVE RocInv(r)'
  <2>1. RocInv(r)
    BY DEF Inv
  <2>2. stage'[r] = IF r \in rs /\ (writeImage \/ newMiv[r]) THEN "send" ELSE "out"
    BY DEF StartAttempt, Begin, NewOf
  <2>3. Idle(r)
    BY <2>2 DEF Idle
  <2>4. StageInv(r)'
    BY <1>1, <2>2 DEF StageInv, Alive, Probing, Writing, Current
  <2>5. QueueInv(r)'
    BY <2>1, <2>3, IdleQueue
  <2>6. CommandOver(r)' /\ WrittenInv(r)'
    BY <1>1, <2>2 DEF CommandOver, WrittenInv, Writing
  <2>7. VerifiedInv(r)'
    BY <1>1, <2>2 DEF VerifiedInv, Settled, Probing, Writing
  <2> QED
    BY <2>1, <2>3, <2>4, <2>5, <2>6, <2>7, IdleReplies DEF RocInv
<1> QED
  BY <1>2, <1>3

LEMMA AfterProbeReadInv ==
  ASSUME Inv, AfterProbeRead
  PROVE  ProgramInv' /\ \A r \in Roc : RocInv(r)'
<1> DEFINE rs == {r \in Roc : Alive(r)} \ Bad
<1>1. /\ op = "probeRead" /\ StartAttempt(rs)
      /\ UNCHANGED <<flash, queue, exec, fifo, newMiv, seg, sawBusy, writeImage>>
  BY DEF AfterProbeRead, miv, options
<1>2. seg = 1 /\ seg' \in Segment
  BY <1>1 DEF Inv, ProgramInv, Probing, TypeOK
<1>3. ASSUME NEW r \in Roc
      PROVE  /\ state'[r] = "Failed" \/ (Alive(r) /\ state'[r] = "Uploading")
             /\ r \in rs <=> Alive(r)'
             /\ Alive(r)' => Alive(r)
  BY DEF AfterProbeRead, Alive, Bad
<1>4. ASSUME NEW r \in Roc, Alive(r)
      PROVE  /\ Confined(queue[r], seg') /\ Clean(queue[r])
             /\ \A s \in Segment : s < seg' => Filled(flash[r], s)
  <2>1. RocInv(r)
    BY DEF Inv
  <2>2. Clean(queue[r]) /\ Confined(queue[r], seg)
    BY <1>1, <1>4, <2>1 DEF RocInv, VerifiedInv, QueueInv, Settled, Probing
  <2>3. \A s \in Segment : ~(s < 1)
    BY DEF Segment
  <2> QED
    BY <1>1, <1>2, <2>2, <2>3
<1>5. rs \in SUBSET Roc
  OBVIOUS
<1> HIDE DEF rs
<1> QED
  BY <1>1, <1>2, <1>3, <1>4, <1>5, AttemptInv


LEMMA AfterEraseInv ==
  ASSUME Inv, AfterErase
  PROVE  ProgramInv' /\ \A r \in Roc : RocInv(r)'
<1>1. /\ op = "erase" /\ op' = "write" /\ err' = err \cup Bad
      /\ UNCHANGED <<flash, queue, exec, fifo, state, newMiv, seg, rec, todo, sawBusy, writeImage>>
  BY DEF AfterErase, Begin, miv, result, options
<1>2. ProgramInv'
  <2>1. Bad \subseteq todo
    BY <1>1 DEF Inv, RocInv, StageInv, Writing, Current, Bad
  <2> QED
    BY <1>1, <2>1 DEF Inv, ProgramInv, Probing, Writing
<1>3. ASSUME NEW r \in Roc PROVE RocInv(r)'
  <2>1. RocInv(r) /\ rec = 1 /\ stage[r] \in Stages
    BY <1>1 DEF Inv, ProgramInv, TypeOK, Stages
  <2>2. stage'[r] = IF r \in todo \ err' THEN "send" ELSE "out"
    BY DEF AfterErase, Begin
  <2>3. r \in todo \ err' => stage[r] = "ok"
    <3>1. RoundOver
      BY DEF AfterErase, OpOver
    <3>2. r \in todo \ err' => r \notin Bad /\ stage[r] # "out"
      BY <1>1, <2>1 DEF RocInv, StageInv, Writing, Current
    <3> QED
      BY <2>1, <3>1, <3>2 DEF RoundOver, Bad, Stages
  <2>4. Idle(r)
    BY <1>1, <2>2 DEF Idle, Alive
  <2>5. StageInv(r)'
    BY <1>1, <2>1, <2>2 DEF RocInv, StageInv, Alive, Probing, Writing, Current
  <2>6. QueueInv(r)'
    BY <1>1, <2>1, <2>4, IdleQueue DEF RocInv, QueueInv, Alive
  <2>7. CommandOver(r)'
    BY <1>1, <2>1, <2>2, <2>3 DEF RocInv, CommandOver, Writing
  <2>8. WrittenInv(r)'
    <3>1. newMiv[r] /\ r \in todo \ err' => Erased(flash[r], seg)
      BY <1>1, <2>1, <2>3 DEF RocInv, WrittenInv, Writing, Effect
    <3>2. newMiv[r] /\ r \in todo \ err' =>
            ErasedAfter(flash[r], seg, rec) /\ flash[r][seg][rec] = "erased"
      BY <3>1 DEF Erased, ErasedAfter, Inv, TypeOK
    <3> QED
      BY <1>1, <2>2, <3>2 DEF WrittenInv, Writing
  <2>9. VerifiedInv(r)'
    BY <1>1, <2>1, <2>2 DEF RocInv, VerifiedInv, Alive, Settled, Probing, Writing
  <2> QED
    BY <2>1, <2>4, <2>5, <2>6, <2>7, <2>8, <2>9, IdleReplies DEF RocInv
<1> QED
  BY <1>2, <1>3

LEMMA AfterWriteInv ==
  ASSUME Inv, AfterWrite
  PROVE  ProgramInv' /\ \A r \in Roc : RocInv(r)'
<1>1. /\ op = "write" /\ err' = err \cup Bad
      /\ UNCHANGED <<flash, queue, exec, fifo, state, newMiv, seg, todo, sawBusy, writeImage>>
  BY DEF AfterWrite, miv, result, options
<1>2. Bad \subseteq todo
  BY <1>1 DEF Inv, RocInv, StageInv, Writing, Current, Bad
<1>3. ASSUME NEW r \in Roc
      PROVE  /\ RocInv(r)
             /\ r \in todo \ err' => stage[r] = "ok" /\ NothingOurs(queue[r])
  <2>1. RocInv(r) /\ stage[r] \in Stages
    BY DEF Inv, TypeOK, Stages
  <2>2. RoundOver
    BY DEF AfterWrite, OpOver
  <2>3. r \in todo \ err' => r \notin Bad /\ stage[r] # "out"
    BY <1>1, <2>1 DEF RocInv, StageInv, Writing, Current
  <2>4. r \in todo \ err' => stage[r] = "ok"
    BY <2>1, <2>2, <2>3 DEF RoundOver, Bad, Stages
  <2> QED
    BY <1>1, <2>1, <2>4 DEF RocInv, CommandOver, Writing
<1>4. CASE rec < NRec
  <2>1. op' = "write" /\ rec' = rec + 1
    BY <1>4 DEF AfterWrite, Begin
  <2>2. ProgramInv'
    BY <1>1, <1>2, <2>1 DEF Inv, ProgramInv, Probing, Writing
  <2>3. ASSUME NEW r \in Roc PROVE RocInv(r)'
    <3>1. stage'[r] = IF r \in todo \ err' THEN "send" ELSE "out"
      BY <1>4 DEF AfterWrite, Begin
    <3>2. Idle(r)
      BY <1>1, <3>1 DEF Idle, Alive
    <3>3. StageInv(r)'
      BY <1>1, <1>3, <2>1, <3>1 DEF RocInv, StageInv, Alive, Probing, Writing, Current
    <3>4. QueueInv(r)'
      BY <1>1, <1>3, <3>2, IdleQueue DEF RocInv, QueueInv, Alive
    <3>5. CommandOver(r)'
      BY <1>1, <1>3, <3>1 DEF CommandOver, Writing
    <3>6. WrittenInv(r)'
      <4>1. newMiv[r] /\ r \in todo \ err' => ErasedAfter(flash[r], seg, rec)
        BY <1>1, <1>3 DEF RocInv, WrittenInv
      <4>2. rec \in Nat /\ rec + 1 \in Record /\ \A i \in Record : i > rec + 1 => i > rec
        BY <1>4 DEF Inv, TypeOK, Record
      <4>3. ErasedAfter(flash[r], seg, rec) =>
              ErasedAfter(flash[r], seg, rec + 1) /\ flash[r][seg][rec + 1] = "erased"
        <5>1. rec + 1 > rec
          BY <4>2
        <5> QED
          BY <4>2, <5>1 DEF ErasedAfter
      <4> QED
        BY <1>1, <2>1, <3>1, <4>1, <4>3 DEF WrittenInv, Writing
    <3>7. VerifiedInv(r)'
      BY <1>1, <1>3, <2>1 DEF RocInv, VerifiedInv, Alive, Settled, Probing, Writing
    <3> QED
      BY <1>3, <3>2, <3>3, <3>4, <3>5, <3>6, <3>7, IdleReplies DEF RocInv
  <2> QED
    BY <2>2, <2>3
<1>5. CASE ~(rec < NRec)
  <2>1. op' = "crc" /\ rec' = 1
    BY <1>5 DEF AfterWrite, Begin
  <2>2. ProgramInv'
    BY <1>1, <1>2, <2>1 DEF Inv, ProgramInv, Probing, Writing
  <2>3. ASSUME NEW r \in Roc PROVE RocInv(r)'
    <3>1. stage'[r] = IF r \in todo \ err' /\ newMiv[r] THEN "send" ELSE "out"
      BY <1>5 DEF AfterWrite, Begin, NewOf
    <3>2. Idle(r)
      BY <1>1, <3>1 DEF Idle, Alive
    <3>3. StageInv(r)'
      BY <1>1, <1>3, <2>1, <3>1 DEF RocInv, StageInv, Alive, Probing, Writing, Current
    <3>4. QueueInv(r)'
      BY <1>1, <1>3, <3>2, IdleQueue DEF RocInv, QueueInv, Alive
    <3>5. CommandOver(r)' /\ WrittenInv(r)'
      BY <2>1 DEF CommandOver, WrittenInv, Writing
    <3>6. VerifiedInv(r)'
      <4>1. r \in todo \ err' => Clean(queue[r])
        BY <1>3, CleanOfForeign
      <4> QED
        BY <1>1, <1>3, <2>1, <3>1, <4>1 DEF RocInv, VerifiedInv, Alive, Settled, Probing, Writing
    <3> QED
      BY <1>3, <3>2, <3>3, <3>4, <3>5, <3>6, IdleReplies DEF RocInv
  <2> QED
    BY <2>2, <2>3
<1> QED
  BY <1>4, <1>5

LEMMA AfterCrcInv ==
  ASSUME Inv, AfterCrc
  PROVE  ProgramInv' /\ \A r \in Roc : RocInv(r)'
<1>1. /\ op = "crc" /\ op' = "read" /\ err' = err \cup Bad
      /\ UNCHANGED <<flash, queue, exec, fifo, state, newMiv, seg, rec, todo, sawBusy, writeImage>>
  BY DEF AfterCrc, Begin, miv, result, options
<1>2. ProgramInv'
  <2>1. Bad \subseteq todo
    BY <1>1 DEF Inv, RocInv, StageInv, Current, Bad
  <2> QED
    BY <1>1, <2>1 DEF Inv, ProgramInv, Probing, Writing
<1>3. ASSUME NEW r \in Roc PROVE RocInv(r)'
  <2>1. RocInv(r) /\ rec = 1 /\ stage[r] \in Stages
    BY <1>1 DEF Inv, ProgramInv, TypeOK, Stages
  <2>2. stage'[r] = IF r \in todo \ err' /\ ~newMiv[r] THEN "send" ELSE "out"
    BY DEF AfterCrc, Begin, LegacyOf
  <2>3. r \in todo \ err' /\ newMiv[r] => r \in Current /\ stage[r] = "ok"
    <3>1. RoundOver
      BY DEF AfterCrc, OpOver
    <3>2. r \in todo \ err' /\ newMiv[r] => r \in Current /\ r \notin Bad /\ stage[r] # "out"
      BY <1>1, <2>1 DEF RocInv, StageInv, Current
    <3> QED
      BY <2>1, <3>1, <3>2 DEF RoundOver, Bad, Stages
  <2>4. Idle(r)
    BY <1>1, <2>2 DEF Idle, Alive
  <2>5. StageInv(r)'
    BY <1>1, <2>1, <2>2 DEF RocInv, StageInv, Alive, Probing, Writing, Current
  <2>6. QueueInv(r)'
    BY <1>1, <2>1, <2>4, IdleQueue DEF RocInv, QueueInv, Alive
  <2>7. CommandOver(r)' /\ WrittenInv(r)'
    BY <1>1 DEF CommandOver, WrittenInv, Writing
  <2>8. VerifiedInv(r)'
    <3>1. FilledTo(flash[r], seg, rec - 1)
      <4>1. \A i \in Record : ~(i <= rec - 1)
        BY <2>1 DEF Record
      <4> QED
        BY <4>1 DEF FilledTo
    <3>2. Alive(r) /\ r \in todo \ err' /\ newMiv[r] => Filled(flash[r], seg)
      BY <1>1, <2>1, <2>3 DEF RocInv, VerifiedInv
    <3>3. Alive(r) /\ (r \notin todo \/ r \notin err') => Clean(queue[r])
      BY <1>1, <2>1 DEF RocInv, VerifiedInv, Settled, Probing, Writing
    <3> QED
      BY <1>1, <2>1, <2>2, <3>1, <3>2, <3>3
         DEF RocInv, VerifiedInv, Alive, Settled, Probing, Writing, Current
  <2> QED
    BY <2>1, <2>4, <2>5, <2>6, <2>7, <2>8, IdleReplies DEF RocInv
<1> QED
  BY <1>2, <1>3

\* What reading back has found out when a piece is over.
LEMMA PieceRead ==
  ASSUME Inv, op = "read", OpOver, NEW r \in Roc
  PROVE  /\ RocInv(r)
         /\ r \in Bad => r \in todo /\ Alive(r)
         /\ Alive(r) /\ r \notin err \cup Bad => Clean(queue[r])
         /\ Alive(r) /\ r \in todo \ (err \cup Bad) /\ newMiv[r] => Filled(flash[r], seg)
         /\ Alive(r) /\ r \in todo \ (err \cup Bad) /\ ~newMiv[r] =>
              FilledTo(flash[r], seg, rec)
<1>1. RocInv(r) /\ stage[r] \in Stages
  BY DEF Inv, TypeOK, Stages
<1>2. r \in Bad => r \in todo /\ Alive(r)
  BY <1>1 DEF RocInv, StageInv, Current, Bad, Probing
<1>3. Alive(r) /\ r \notin err \cup Bad => Clean(queue[r])
  BY <1>1 DEF RocInv, VerifiedInv, Settled, Writing
<1>4. Alive(r) /\ r \in todo \ (err \cup Bad) /\ newMiv[r] => Filled(flash[r], seg)
  BY <1>1 DEF RocInv, VerifiedInv, Current
<1>5. ASSUME Alive(r), r \in todo \ (err \cup Bad), ~newMiv[r]
      PROVE  FilledTo(flash[r], seg, rec)
  <2>1. r \in Current /\ stage[r] # "out"
    BY <1>1, <1>5 DEF RocInv, StageInv, Current
  <2>2. stage[r] = "ok"
    BY <1>1, <1>5, <2>1 DEF OpOver, RoundOver, Bad, Stages
  <2>3. FilledTo(flash[r], seg, rec - 1) /\ flash[r][seg][rec] = "image"
    BY <1>1, <1>5, <2>1, <2>2 DEF RocInv, VerifiedInv
  <2>4. \A i \in Record : i <= rec => i <= rec - 1 \/ i = rec
    BY DEF Inv, TypeOK, Record
  <2> QED
    BY <2>3, <2>4 DEF FilledTo
<1> QED
  BY <1>1, <1>2, <1>3, <1>4, <1>5

LEMMA NextPieceInv ==
  ASSUME Inv, AfterRead, rec < NRec
  PROVE  ProgramInv' /\ \A r \in Roc : RocInv(r)'
<1>1. /\ op = "read" /\ op' = "read" /\ err' = err \cup Bad /\ rec' = rec + 1
      /\ UNCHANGED <<flash, queue, exec, fifo, state, newMiv, seg, todo, sawBusy, writeImage>>
  BY DEF AfterRead, Begin, miv, options
<1>2. op = "read" /\ OpOver
  BY DEF AfterRead
<1>3. ProgramInv'
  <2>1. Bad \subseteq todo
    BY <1>2, PieceRead DEF Bad
  <2> QED
    BY <1>1, <2>1 DEF Inv, ProgramInv, Probing, Writing
<1>4. ASSUME NEW r \in Roc PROVE RocInv(r)'
  <2>1. /\ RocInv(r)
        /\ Alive(r) /\ r \notin err' => Clean(queue[r])
        /\ Alive(r) /\ r \in todo \ err' /\ newMiv[r] => Filled(flash[r], seg)
        /\ Alive(r) /\ r \in todo \ err' /\ ~newMiv[r] => FilledTo(flash[r], seg, rec)
    BY <1>1, <1>2, PieceRead
  <2>2. stage'[r] = IF r \in todo \ err' /\ ~newMiv[r] THEN "send" ELSE "out"
    BY <1>1 DEF AfterRead, Begin, LegacyOf
  <2>3. Idle(r)
    BY <1>1, <2>2 DEF Idle, Alive
  <2>4. StageInv(r)'
    BY <1>1, <2>1, <2>2 DEF RocInv, StageInv, Alive, Probing, Writing, Current
  <2>5. QueueInv(r)'
    BY <1>1, <2>1, <2>3, IdleQueue DEF RocInv, QueueInv, Alive
  <2>6. CommandOver(r)' /\ WrittenInv(r)'
    BY <1>1 DEF CommandOver, WrittenInv, Writing
  <2>7. VerifiedInv(r)'
    <3>1. rec' - 1 = rec
      BY <1>1 DEF Inv, TypeOK, Record
    <3>2. Alive(r) /\ r \notin todo => Clean(queue[r])
      BY <2>1 DEF RocInv, VerifiedInv, Settled
    <3> QED
      BY <1>1, <2>1, <2>2, <3>1, <3>2
         DEF RocInv, VerifiedInv, Alive, Settled, Probing, Writing, Current
  <2> QED
    BY <2>1, <2>3, <2>4, <2>5, <2>6, <2>7, IdleReplies DEF RocInv
<1> QED
  BY <1>3, <1>4

\* When the last piece is read, every ROC without an error holds the segment.
LEMMA SegmentRead ==
  ASSUME Inv, op = "read", OpOver, ~(rec < NRec), NEW r \in Roc, Alive(r), r \notin err \cup Bad
  PROVE  /\ Clean(queue[r])
         /\ Filled(flash[r], seg)
         /\ \A s \in Segment : s < seg => Filled(flash[r], s)
<1>1. /\ RocInv(r)
      /\ Clean(queue[r])
      /\ r \in todo /\ newMiv[r] => Filled(flash[r], seg)
      /\ r \in todo /\ ~newMiv[r] => FilledTo(flash[r], seg, rec)
  BY PieceRead
<1>2. r \notin todo => Filled(flash[r], seg)
  BY <1>1 DEF RocInv, VerifiedInv
<1>3. FilledTo(flash[r], seg, rec) => Filled(flash[r], seg)
  <2>1. \A i \in Record : i <= rec
    BY DEF Inv, TypeOK, Record
  <2> QED
    BY <2>1 DEF FilledTo, Filled
<1> QED
  BY <1>1, <1>2, <1>3 DEF RocInv, VerifiedInv

LEMMA SegmentOverInv ==
  ASSUME Inv, AfterRead, ~(rec < NRec)
  PROVE  ProgramInv' /\ \A r \in Roc : RocInv(r)'
<1> DEFINE e    == err \cup Bad
           left == {r \in Roc : Alive(r)} \ e
<1>1. /\ op = "read" /\ OpOver /\ EndOfAttempt(e)
      /\ UNCHANGED <<flash, queue, exec, fifo, newMiv, sawBusy, writeImage>>
  BY DEF AfterRead, miv, options
<1>2. e \in SUBSET Roc /\ left \in SUBSET Roc
  BY DEF Bad, Inv, TypeOK
<1>3. \A r \in Roc : Alive(r) /\ r \notin e =>
        Clean(queue[r]) /\ Filled(flash[r], seg) /\ \A s \in Segment : s < seg => Filled(flash[r], s)
  BY <1>1, SegmentRead
<1>4. \A r \in Roc : /\ RocInv(r) /\ state[r] # "Verified" /\ state[r] # "Selected"
                     /\ state[r] \in States
                     /\ Alive(r) => Confined(queue[r], seg)
  BY <1>1 DEF Inv, RocInv, StageInv, QueueInv, Probing, TypeOK, States
<1>5. \A r \in Roc : Alive(r) => state[r] = "Uploading"
  BY <1>4 DEF Alive, States
<1>6. CASE writeImage /\ e # {} /\ attempt < MaxAttempts
  <2>1. StartAttempt(e) /\ UNCHANGED <<state, seg>>
    BY <1>1, <1>6 DEF EndOfAttempt
  <2>2. \A r \in Roc : r \in e => Alive(r)
    <3>1. \A r \in Roc : r \in Bad => Alive(r)
      BY <1>1, PieceRead
    <3>2. \A r \in Roc : r \in err => Alive(r)
      BY <1>1, <1>4 DEF Inv, ProgramInv, RocInv, StageInv, Probing
    <3> QED
      BY <3>1, <3>2
  <2>3. seg' \in Segment
    BY <2>1 DEF Inv, TypeOK
  <2>4. \A r \in Roc :
          /\ state'[r] = "Failed" \/ (Alive(r) /\ state'[r] = "Uploading")
          /\ r \in e => Alive(r)'
    BY <1>5, <2>1, <2>2 DEF Alive
  <2>5. ASSUME NEW r \in Roc, Alive(r)'
        PROVE  /\ Confined(queue[r], seg')
               /\ r \notin e \/ ~writeImage => Clean(queue[r])
               /\ r \notin e => Filled(flash[r], seg')
               /\ \A s \in Segment : s < seg' => Filled(flash[r], s)
    <3>1. Alive(r) /\ seg' = seg
      BY <2>1, <2>5 DEF Alive
    <3>2. \A s \in Segment : s < seg => Filled(flash[r], s)
      BY <1>4, <3>1 DEF RocInv, VerifiedInv
    <3> HIDE DEF e
    <3> QED
      BY <1>3, <1>4, <1>6, <3>1, <3>2
  <2> HIDE DEF e
  <2> QED
    BY <1>1, <1>2, <2>1, <2>3, <2>4, <2>5, AttemptInv
<1>7. CASE NextSegment(e)
  <2>1. ASSUME NEW r \in Roc
        PROVE  /\ state'[r] = "Failed" \/ (Alive(r) /\ state'[r] = "Uploading")
               /\ Alive(r)' <=> r \in left
               /\ Alive(r)' => Alive(r) /\ r \notin e
    <3>1. state'[r] = IF r \in e THEN "Failed" ELSE state[r]
      BY <1>7 DEF NextSegment, FailAll
    <3> QED
      BY <1>5, <3>1 DEF Alive
  <2>2. CASE seg < NSeg /\ left # {}
    <3>1. seg' = seg + 1 /\ StartAttempt(left)
      BY <1>7, <2>2 DEF NextSegment
    <3>2. seg' \in Segment /\ \A s \in Segment : s < seg' => s < seg \/ s = seg
      BY <2>2, <3>1 DEF Inv, TypeOK, Segment
    <3>3. \A r \in Roc : Clean(queue[r]) => Confined(queue[r], seg')
      BY DEF Clean, Confined
    <3> HIDE DEF e, left
    <3>4. \A r \in Roc : Alive(r)' =>
            /\ Confined(queue[r], seg') /\ Clean(queue[r])
            /\ \A s \in Segment : s < seg' => Filled(flash[r], s)
      BY <1>3, <2>1, <3>2, <3>3
    <3> QED
      BY <1>1, <1>2, <2>1, <3>1, <3>2, <3>4, AttemptInv
  <2>3. CASE ~(seg < NSeg /\ left # {})
    <3>1. /\ seg' = seg /\ rec' = 1 /\ todo' = left /\ err' = {} /\ op' = "image"
          /\ \A r \in Roc : stage'[r] \in {"send", "out"} /\ (stage'[r] = "send" => r \in left)
      BY <1>7, <2>3 DEF NextSegment, Begin, NewOf
    <3>2. ProgramInv'
      BY <3>1 DEF ProgramInv, Probing, Writing
    <3>3. ASSUME NEW r \in Roc PROVE RocInv(r)'
      <4> HIDE DEF e, left
      <4>1. RocInv(r) /\ Idle(r)
        BY <1>1, <1>4, <2>1, <3>1 DEF Idle
      <4>2. StageInv(r)'
        BY <2>1, <3>1 DEF StageInv, Alive, Probing, Writing
      <4>3. QueueInv(r)'
        BY <1>4, <2>1, <3>1, <4>1, IdleQueue
      <4>4. CommandOver(r)' /\ WrittenInv(r)'
        BY <3>1 DEF CommandOver, WrittenInv, Writing
      <4>5. Alive(r)' => \A s \in Segment : Filled(flash[r], s)
        <5>1. left # {} => \A s \in Segment : s < seg \/ s = seg
          BY <2>3 DEF Inv, TypeOK, Segment
        <5> QED
          BY <1>3, <2>1, <5>1
      <4>6. Alive(r)' => Clean(queue[r]) /\ seg' \in Segment
        BY <1>3, <2>1, <3>1 DEF Inv, TypeOK
      <4>7. VerifiedInv(r)'
        BY <1>1, <2>1, <3>1, <4>5, <4>6 DEF VerifiedInv
      <4> QED
        BY <4>1, <4>2, <4>3, <4>4, <4>7, IdleReplies DEF RocInv
    <3> QED
      BY <3>2, <3>3
  <2> QED
    BY <2>2, <2>3
<1> QED
  BY <1>1, <1>6, <1>7 DEF EndOfAttempt

LEMMA AfterImageInv ==
  ASSUME Inv, AfterImage
  PROVE  ProgramInv' /\ \A r \in Roc : RocInv(r)'
<1>1. /\ op = "image" /\ op' = "done"
      /\ UNCHANGED <<flash, queue, exec, fifo, newMiv, seg, rec, todo, err, sawBusy, writeImage>>
  BY DEF AfterImage, Begin, miv, options
<1>2. ProgramInv'
  BY <1>1 DEF Inv, ProgramInv, Probing, Writing
<1>3. ASSUME NEW r \in Roc PROVE RocInv(r)'
  <2>1. RocInv(r)
    BY DEF Inv
  <2>2. /\ stage'[r] = "out"
        /\ state'[r] = IF r \notin Bad /\ Alive(r) THEN "Verified" ELSE "Failed"
    BY DEF AfterImage, Begin, Alive
  <2>3. Idle(r)
    BY <1>1, <2>2 DEF Idle
  <2>4. StageInv(r)'
    BY <1>1, <2>1, <2>2 DEF RocInv, StageInv, Alive, Probing, Writing
  <2>5. QueueInv(r)'
    BY <1>1, <2>1, <2>2, <2>3, IdleQueue DEF RocInv, QueueInv, Alive
  <2>6. CommandOver(r)' /\ WrittenInv(r)'
    BY <1>1 DEF CommandOver, WrittenInv, Writing
  <2>7. VerifiedInv(r)'
    BY <1>1, <2>1, <2>2 DEF RocInv, VerifiedInv, Alive, Settled, Probing, Writing
  <2> QED
    BY <2>1, <2>3, <2>4, <2>5, <2>6, <2>7, IdleReplies DEF RocInv
<1> QED
  BY <1>2, <1>3

-----------------------------------------------------------------------------
(* Theorems                                                                 *)

ProgramStep ==
  \/ NextRound \/ AfterProbe \/ AfterProbeRead \/ AfterErase \/ AfterWrite \/ AfterCrc
  \/ AfterRead \/ AfterImage

LEMMA Steps == Next => ProgramStep \/ \E r \in Roc : RocStep(r)
BY DEF Next, Session, ProgramStep, RocStep

LEMMA InitInv == Init => Inv
<1> SUFFICES ASSUME Init PROVE Inv
  OBVIOUS
<1>1. TypeOK
  BY InitTypes
<1>2. ProgramInv
  BY DEF Init, ProgramInv, Probing, Writing
<1>3. ASSUME NEW r \in Roc PROVE RocInv(r)
  <2>1. /\ op = "probe" /\ seg = 1 /\ todo = Roc /\ queue[r] = <<>> /\ fifo[r] = <<>>
        /\ ~exec[r] /\ state[r] = "Selected" /\ stage[r] = "send"
    BY DEF Init
  <2>2. StageInv(r)
    BY <2>1 DEF StageInv, Alive, Probing, Writing
  <2>3. QueueInv(r)
    BY <2>1, EmptyQueue DEF QueueInv
  <2>4. ReplyInv(r)
    BY <2>1, EmptyFifo DEF ReplyInv
  <2>5. CommandOver(r) /\ WrittenInv(r)
    BY <2>1 DEF CommandOver, WrittenInv, Writing
  <2>6. VerifiedInv(r)
    <3>1. \A s \in Segment : ~(s < 1)
      BY DEF Segment
    <3> QED
      BY <2>1, <3>1, EmptyQueue DEF VerifiedInv
  <2> QED
    BY <2>2, <2>3, <2>4, <2>5, <2>6 DEF RocInv
<1> QED
  BY <1>1, <1>2, <1>3 DEF Inv

LEMMA StutterInv == Inv /\ UNCHANGED vars => Inv'
<1> SUFFICES ASSUME Inv, UNCHANGED vars PROVE Inv'
  OBVIOUS
<1>1. /\ UNCHANGED <<flash, queue, exec, fifo, state, newMiv, op, seg, rec, attempt, todo, err>>
      /\ UNCHANGED <<stage, round, sawBusy, faults, solid, writeImage>>
  BY DEF vars, miv, result, program, options
<1>2. TypeOK'
  BY <1>1 DEF Inv, TypeOK
<1>3. ProgramInv'
  BY <1>1 DEF Inv, ProgramInv, Probing, Writing
<1>4. \A r \in Roc : RocInv(r)'
  BY <1>1, Frame DEF Inv, SameProgram
<1> QED
  BY <1>2, <1>3, <1>4 DEF Inv

LEMMA ProgramStepInv ==
  ASSUME Inv, ProgramStep
  PROVE  Inv'
<1>1. TypeOK'
  BY ProgramTypes DEF Inv, ProgramStep
<1>2. ProgramInv' /\ \A r \in Roc : RocInv(r)'
  <2>1. CASE NextRound \/ AfterProbe \/ AfterProbeRead
    BY <2>1, NextRoundInv, AfterProbeInv, AfterProbeReadInv
  <2>2. CASE AfterErase \/ AfterWrite \/ AfterCrc
    BY <2>2, AfterEraseInv, AfterWriteInv, AfterCrcInv
  <2>3. CASE AfterRead
    BY <2>3, NextPieceInv, SegmentOverInv
  <2>4. CASE AfterImage
    BY <2>4, AfterImageInv
  <2> QED
    BY <2>1, <2>2, <2>3, <2>4 DEF ProgramStep
<1> QED
  BY <1>1, <1>2 DEF Inv

LEMMA StepInv == Inv /\ [Next]_vars => Inv'
<1> SUFFICES ASSUME Inv, [Next]_vars PROVE Inv'
  OBVIOUS
<1>1. CASE ProgramStep
  BY <1>1, ProgramStepInv
<1>2. ASSUME NEW r \in Roc, RocStep(r) PROVE Inv'
  BY <1>2, RocStepKeepsInv
<1>3. CASE UNCHANGED vars
  BY <1>3, StutterInv
<1> QED
  BY <1>1, <1>2, <1>3, Steps

\* The inductive invariant holds: types, the program counter of the session, and for each
\* ROC what its queue, its replies and its flash owe to the command at hand.
THEOREM Invariance == Spec => []Inv
BY InitInv, StepInv, PTL DEF Spec

\* Every variable keeps its type: commands, replies and blocks are only ever made of
\* what the session and the MiV put together.
THEOREM TypeCorrect == Spec => []TypeOK
<1>1. Inv => TypeOK
  BY DEF Inv
<1> QED
  BY <1>1, Invariance, PTL

\* What probeAll and upload report is true: a verified ROC holds the whole image, and a
\* ROC that is still in the session holds every segment that is done.
THEOREM VerdictsAreTrue == Spec => []VerifiedHoldsImage
<1>1. Inv => VerifiedHoldsImage
  <2> SUFFICES ASSUME Inv, NEW r \in Roc, Alive(r), state[r] # "Selected"
               PROVE  /\ \A b \in 1..(seg - 1) : SegmentHolds(r, b)
                      /\ state[r] = "Verified" => ImageHolds(r)
    BY DEF VerifiedHoldsImage
  <2>1. RocInv(r)
    BY DEF Inv
  <2>2. \A b \in Segment : Filled(flash[r], b) => SegmentHolds(r, b)
    BY DEF Filled, SegmentHolds, Holds
  <2>3. \A b \in 1..(seg - 1) : b \in Segment /\ b < seg
    BY DEF Inv, TypeOK, Segment
  <2>4. \A b \in 1..(seg - 1) : SegmentHolds(r, b)
    BY <2>1, <2>2, <2>3 DEF RocInv, VerifiedInv
  <2>5. state[r] = "Verified" => op = "done"
    BY <2>1 DEF RocInv, StageInv, Probing
  <2>6. state[r] = "Verified" => ImageHolds(r)
    BY <2>1, <2>2, <2>5 DEF RocInv, VerifiedInv, ImageHolds
  <2> QED
    BY <2>4, <2>6
<1> QED
  BY <1>1, Invariance, PTL

\* What a new MiV acknowledges to collectTagged has been done.
THEOREM AcknowledgedIsDone == Spec => []AckMeansDone
<1>1. Inv => AckMeansDone
  <2> SUFFICES ASSUME Inv, NEW r \in Roc, newMiv[r], stage[r] = "ok"
               PROVE  /\ op = "erase" => \A i \in Record : flash[r][seg][i] = "erased"
                      /\ op = "write" => Holds(r, seg, rec)
    BY DEF AckMeansDone
  <2>1. Writing => Effect(r)
    BY DEF Inv, RocInv, WrittenInv
  <2> QED
    BY <2>1 DEF Writing, Effect, Erased, Holds
<1> QED
  BY <1>1, Invariance, PTL

\* The end of a command leaves every block alone but its own and the next.
LEMMA FinishElsewhere ==
  ASSUME TypeOK, NEW r \in Roc, NEW ok \in BOOLEAN, queue[r] # <<>>, Finish(r, ok),
         NEW c, c = Head(queue[r]), c.seg \in Segment, c.rec \in Record,
         NEW b \in Block, b # c.seg, b # c.seg + 1, NEW i \in Record
  PROVE  flash'[r][b][i] = flash[r][b][i]
<1>0. c.seg \in Block
  BY DEF Segment, Block, Beyond
<1>1. CASE c.act = "erase" /\ ok
  <2>1. EffectErase(r, c)
    BY <1>1 DEF Finish
  <2>2. b \notin ErasedBlocks(r, c)
    BY DEF ErasedBlocks
  <2> QED
    BY <2>1, <2>2, ErasesFlash
<1>2. CASE c.act = "write"
  <2>1. PICK x \in Content : Becomes(r, c.seg, c.rec, x)
    <3>1. CASE ok
      <4>1. flash' = [flash EXCEPT ![r][c.seg][c.rec] =
                        IF flash[r][c.seg][c.rec] \in {"erased", "image"} THEN "image" ELSE "bad"]
        BY <1>2, <3>1 DEF Finish, EffectWrite
      <4> QED
        BY <4>1 DEF Content, Becomes
    <3>2. CASE ~ok
      BY <1>2, <3>2 DEF Finish, Content, Becomes
    <3> QED
      BY <3>1, <3>2
  <2> QED
    BY <1>0, <2>1, WritesFlash
<1>3. CASE c.act # "write" /\ ~(c.act = "erase" /\ ok)
  BY <1>3 DEF Finish
<1> QED
  BY <1>1, <1>2, <1>3

LEMMA FinishTouches ==
  ASSUME Inv, NothingElseTouched, NEW r \in Roc, NEW ok \in BOOLEAN, Finish(r, ok)
  PROVE  NothingElseTouched'
<1> DEFINE c == Head(queue[r])
<1>1. /\ TypeOK /\ queue[r] # <<>> /\ queue[r] \in Seq(Commands) /\ c \in Commands
      /\ Within(queue[r], writeImage)
  BY Tailing DEF Inv, RocInv, QueueInv, Finish, TypeOK
<1>2. writeImage' = writeImage
  BY DEF Finish, options
<1>3. ASSUME NEW q \in Roc, q # r PROVE flash'[q] = flash[q]
  BY <1>1, <1>3, FinishesFlash
<1>4. CASE ~Destructive(c)
  <2>1. \A q \in Roc : flash'[q] = flash[q]
    BY <1>1, <1>3, <1>4, FinishesFlash DEF Destructive
  <2> QED
    BY <1>2, <2>1 DEF NothingElseTouched
<1>5. CASE Destructive(c)
  <2>1. writeImage /\ c.seg \in Segment /\ c.rec \in Record
    <3>1. writeImage /\ c.seg \in Segment
      BY <1>1, <1>5, HeadOfQueue
    <3> HIDE DEF c
    <3>2. c.rec \in Record
      BY <1>1 DEF Commands
    <3> QED
      BY <3>1, <3>2
  <2>2. /\ Protected \in Block /\ Protected # c.seg /\ Protected # c.seg + 1
        /\ Beyond \in Block /\ Beyond # c.seg /\ Beyond # c.seg + 1
    BY <2>1 DEF Protected, Beyond, Block, Segment
  <2> HIDE DEF c
  <2>3. \A i \in Record : /\ flash'[r][Protected][i] = flash[r][Protected][i]
                          /\ flash'[r][Beyond][i] = flash[r][Beyond][i]
    BY <1>1, <2>1, <2>2, FinishElsewhere DEF c
  <2> QED
    BY <1>2, <1>3, <2>1, <2>3 DEF NothingElseTouched
<1> QED
  BY <1>4, <1>5

\* The session keeps off the flash outside the image and the one block after it, and off
\* all of it when it only verifies: commands of before, lost and late, included.
THEOREM TheRestIsUntouched == Spec => []NothingElseTouched
<1>1. Init => NothingElseTouched
  <2> SUFFICES ASSUME Init, NEW r \in Roc, NEW i \in Record
               PROVE  /\ flash[r][Protected][i] = "old" /\ flash[r][Beyond][i] = "old"
                      /\ \A b \in Block : flash[r][b][i] \in {"old", "image"}
    BY DEF NothingElseTouched
  <2>1. PICK have \in SUBSET Segment :
          flash = [q \in Roc |-> [b \in Block |->
                     [n \in Record |-> IF b \in have THEN "image" ELSE "old"]]]
    BY DEF Init
  <2>2. \A b \in Block : flash[r][b][i] = IF b \in have THEN "image" ELSE "old"
    BY <2>1
  <2>3. Protected \notin Segment /\ Beyond \notin Segment /\ Protected \in Block /\ Beyond \in Block
    BY DEF Segment, Protected, Beyond, Block
  <2> QED
    BY <2>2, <2>3
<1>2. Inv /\ NothingElseTouched /\ [Next]_vars => NothingElseTouched'
  <2> SUFFICES ASSUME Inv, NothingElseTouched, [Next]_vars PROVE NothingElseTouched'
    OBVIOUS
  <2>1. ASSUME UNCHANGED <<flash, writeImage>> PROVE NothingElseTouched'
    BY <2>1 DEF NothingElseTouched
  <2>2. CASE UNCHANGED vars
    BY <2>1, <2>2 DEF vars, miv, options
  <2>3. CASE ProgramStep
    <3>1. UNCHANGED <<miv, options>>
      BY <2>3 DEF ProgramStep, NextRound, AfterProbe, AfterProbeRead, AfterErase, AfterWrite,
                  AfterCrc, AfterRead, AfterImage
    <3> QED
      BY <2>1, <3>1 DEF miv, options
  <2>4. ASSUME NEW r \in Roc, RocStep(r) PROVE NothingElseTouched'
    <3>1. CASE MivFinish(r)
      BY <3>1, FinishTouches DEF MivFinish
    <3>2. CASE ~MivFinish(r)
      <4>1. UNCHANGED flash /\ UNCHANGED options
        BY <2>4, <3>2
           DEF RocStep, SendOk, SendLost, DrainStale, SendNotIdle, SendThrows, Collect, ReplyLost,
               WaitTimeout, PollBusy, AcceptDone, Take, OtherCommand, OtherReads, miv
      <4> QED
        BY <2>1, <4>1 DEF options
    <3> QED
      BY <3>1, <3>2
  <2> QED
    BY <2>2, <2>3, <2>4, Steps
<1> QED
  BY <1>1, <1>2, Invariance, PTL DEF Spec

LEMMA LeftAlone ==
  ASSUME Inv, Next, NEW r \in Roc, ~Alive(r)
  PROVE  /\ state'[r] = "Failed"
         /\ Len(queue'[r]) > Len(queue[r]) => queue'[r][Len(queue'[r])].act = "other"
<1>1. state[r] = "Failed" /\ stage[r] # "send" /\ TypeOK /\ RocInv(r)
  BY DEF Alive, Inv, RocInv, StageInv
<1>2. Len(queue[r]) \in Nat /\ queue[r] \in Seq(Commands)
  BY <1>1 DEF TypeOK
<1>3. ASSUME state'[r] = "Failed", queue'[r] = queue[r]
      PROVE  /\ state'[r] = "Failed"
             /\ Len(queue'[r]) > Len(queue[r]) => queue'[r][Len(queue'[r])].act = "other"
  BY <1>2, <1>3
<1>4. CASE ProgramStep
  <2>1. UNCHANGED queue
    BY <1>4 DEF ProgramStep, NextRound, AfterProbe, AfterProbeRead, AfterErase, AfterWrite,
                AfterCrc, AfterRead, AfterImage, miv
  <2>2. state'[r] = "Failed"
    <3>1. CASE NextRound \/ AfterErase \/ AfterWrite \/ AfterCrc
      BY <1>1, <3>1 DEF NextRound, AfterErase, AfterWrite, AfterCrc, result
    <3>2. CASE AfterProbe \/ AfterProbeRead \/ AfterImage
      BY <1>1, <3>2 DEF AfterProbe, FailAll, AfterProbeRead, AfterImage, Alive
    <3>3. CASE AfterRead
      <4>1. state' = state \/ \E rs : FailAll(rs)
        BY <3>3 DEF AfterRead, EndOfAttempt, NextSegment
      <4> QED
        BY <1>1, <4>1 DEF FailAll
    <3> QED
      BY <1>4, <3>1, <3>2, <3>3 DEF ProgramStep
  <2> QED
    BY <1>3, <2>1, <2>2
<1>5. ASSUME NEW q \in Roc, RocStep(q), q # r
      PROVE  state'[r] = "Failed" /\ queue'[r] = queue[r]
  <2>1. RocInv(q)
    BY DEF Inv
  <2> QED
    BY <1>1, <1>5, <2>1, OtherRoc DEF SameRoc
<1>6. CASE RocStep(r)
  <2>1. state' = state
    BY <1>6 DEF RocStep, SendOk, SendLost, DrainStale, SendNotIdle, SendThrows, Collect, ReplyLost,
                WaitTimeout, PollBusy, AcceptDone, Take, MivFinish, Finish, OtherCommand,
                OtherReads, result
  <2>2. ~(SendOk(r) \/ SendLost(r) \/ DrainStale(r) \/ SendNotIdle(r) \/ SendThrows(r))
    BY <1>1 DEF SendOk, SendLost, DrainStale, SendNotIdle, SendThrows
  <2>3. CASE OtherCommand(r)
    <3> DEFINE c == Command("other", Protected, 1, FALSE)
    <3>1. queue'[r] = Append(queue[r], c)
      BY <1>1, <2>3 DEF OtherCommand, TypeOK
    <3>2. c \in Commands /\ c.act = "other"
      BY DEF Command, Commands, Protected, Record
    <3> HIDE DEF c
    <3>3. Len(queue'[r]) = Len(queue[r]) + 1 /\ queue'[r][Len(queue[r]) + 1] = c
      BY <1>2, <3>1, <3>2, Appending
    <3> QED
      BY <1>1, <2>1, <3>2, <3>3
  <2>4. CASE MivFinish(r)
    <3>1. queue[r] # <<>> /\ queue'[r] = Tail(queue[r])
      BY <1>1, <2>4 DEF MivFinish, Finish, RocInv, QueueInv, TypeOK
    <3>2. Len(queue'[r]) = Len(queue[r]) - 1
      BY <1>2, <3>1
    <3> QED
      BY <1>1, <1>2, <2>1, <3>2
  <2>5. CASE Collect(r) \/ ReplyLost(r) \/ WaitTimeout(r) \/ PollBusy(r) \/ AcceptDone(r)
             \/ Take(r) \/ OtherReads(r)
    <3>1. UNCHANGED queue
      BY <2>5 DEF Collect, ReplyLost, WaitTimeout, PollBusy, AcceptDone, Take, OtherReads, miv
    <3> QED
      BY <1>1, <1>3, <2>1, <3>1
  <2> QED
    BY <1>6, <2>2, <2>3, <2>4, <2>5 DEF RocStep
<1> QED
  BY <1>3, <1>4, <1>5, <1>6, Steps

\* A ROC that the session has dropped is sent nothing more, and never comes back.
THEOREM DroppedForGood == Spec => FailedIsLeftAlone
<1>1. Inv /\ [Next]_vars =>
        [\A r \in Roc : ~Alive(r) =>
           /\ state'[r] = "Failed"
           /\ Len(queue'[r]) > Len(queue[r]) => queue'[r][Len(queue'[r])].act = "other"]_vars
  BY LeftAlone
<1> QED
  BY <1>1, Invariance, PTL DEF Spec, FailedIsLeftAlone

=============================================================================
