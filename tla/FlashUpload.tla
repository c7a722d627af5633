----------------------------- MODULE FlashUpload -----------------------------
(***************************************************************************)
(* The upload of a ROC image by rocflash::FlashSession (RocFlashProgrammer *)
(* .h): probeAll and upload, with the waits and the retries they rest on.  *)
(* The ROCs of one DTC go through the session in lock-step: a command is   *)
(* sent to every ROC of the round, then every reply is waited for.         *)
(*                                                                         *)
(* The MiV at the other end of the DCS link is not in the repository; it   *)
(* is modelled from the protocol at the head of RocFlashProgrammer.h and   *)
(* from what the session expects of it: commands are taken one at a time   *)
(* in the order they arrive, DONE stays set until a command is taken,      *)
(* register 128 is neither DONE nor 0 while one executes, and replies go   *)
(* to a FIFO whose word count tells their size.  Register accesses may     *)
(* fail, commands and replies may be lost (writeROCBlock asks for no       *)
(* acknowledgement), a command sent by a failed access may have arrived,   *)
(* another DCS user may use the MiV, and a command may never end.          *)
(*                                                                         *)
(* A tag is modelled by whether it is the last one the session has sent to *)
(* the ROC.  Time is modelled by the rule that a wait never runs out while *)
(* an idle MiV has a command to take: it takes it within milliseconds.     *)
(***************************************************************************)
EXTENDS Naturals, Sequences, FiniteSets

CONSTANTS
  Roc,           \* the selected ROCs of the DTC
  NSeg,          \* 64 kB segments of the image
  NRec,          \* records of a segment: 1 kB written, or one piece read back
  MaxAttempts,   \* maxSegmentAttempts
  Tries,         \* how often a CRC or a piece is asked for: 2 and 4 in the code
  MaxFaults      \* bound: what goes wrong in a session: communication and flash
                 \* faults, and commands and reads of other DCS users

ASSUME SizeAssumption == NSeg \in Nat \ {0} /\ NRec \in Nat \ {0}
ASSUME OptAssumption  == MaxAttempts \in Nat \ {0}  \* preflight
ASSUME TryAssumption  == Tries \in Nat \ {0} /\ MaxFaults \in Nat

\* The 64 kB blocks of the flash that the session could touch: those of the image,
\* the one below startAddress (directory, golden image), the extra block that an
\* older MiV erases after the last segment, and one beyond the footprint.
Segment   == 1..NSeg
Record    == 1..NRec
Protected == 0
Beyond    == NSeg + 2
Block     == 0..Beyond

\* Contents of a record of the flash: "image" is what the file has there.
Content == {"old", "erased", "image", "bad"}

VARIABLES
  flash,    \* flash[r][b][i]: what record i of block b holds
  queue,    \* commands the ROC has received, the executing one first
  exec,     \* register 128 is 0x4000: the first command is executing
  fifo,     \* replies waiting in the FIFO (count = register 129)
  state,    \* RocResult::state
  newMiv,   \* RocResult::newMiv, what the probe found
  op,       \* the operation the ROCs go through in lock-step
  seg, rec, \* its segment and record
  attempt,  \* the attempt of upload() at this segment
  todo,     \* ROCs of this attempt
  err,      \* ROCs with an entry in the map err of this attempt
  stage,    \* per ROC: "send", "wait", or how the round ended for it
  round,    \* the try of a CRC or of a read-back piece
  sawBusy,  \* waitLegacyAll has seen DONE drop
  faults,   \* what has gone wrong so far
  \* chosen before the session
  solid,      \* ROCs that run the solid-programming MiV (tags and CRC)
  writeImage  \* writeImage

miv     == <<flash, queue, exec, fifo>>
result  == <<state, newMiv>>
program == <<op, seg, rec, attempt, todo, err>>
options == <<solid, writeImage>>
vars    == <<miv, result, program, stage, round, sawBusy, faults, options>>

Alive(r) == state[r] # "Failed"

Init ==
  /\ \E have \in SUBSET Segment :  \* segments left there by an earlier session
       flash = [r \in Roc |-> [b \in Block |->
                  [i \in Record |-> IF b \in have THEN "image" ELSE "old"]]]
  /\ queue = [r \in Roc |-> <<>>]
  /\ exec = [r \in Roc |-> FALSE]
  /\ fifo = [r \in Roc |-> <<>>]
  /\ state = [r \in Roc |-> "Selected"]
  /\ newMiv = [r \in Roc |-> FALSE]
  /\ op = "probe" /\ seg = 1 /\ rec = 1 /\ attempt = 1
  /\ todo = Roc /\ err = {}
  /\ stage = [r \in Roc |-> "send"]
  /\ round = 1
  /\ sawBusy = [r \in Roc |-> FALSE]
  /\ faults = 0
  /\ solid \in SUBSET Roc
  /\ writeImage \in BOOLEAN

-----------------------------------------------------------------------------
(* The MiV                                                                  *)

\* What a command finds when it executes: the file at this place, or not.
Holds(r, b, i)   == flash[r][b][i] = "image"
SegmentHolds(r, b) == \A i \in Record : Holds(r, b, i)
ImageHolds(r)    == \A b \in Segment : SegmentHolds(r, b)

\* Mutant: the older MiV is given the size of the block, 0x10000.
ErasedBlocksOfWholeSize(r, c) == IF c.tagged THEN {c.seg} ELSE c.seg..(c.seg + 2)

\* An older MiV erases 1 + size/64k + 1 blocks: with size 1 this block and the next.
ErasedBlocks(r, c) == IF c.tagged THEN {c.seg} ELSE {c.seg, c.seg + 1}

EffectErase(r, c) ==
  flash' = [flash EXCEPT ![r] =
             [b \in Block |-> IF b \in ErasedBlocks(r, c)
                              THEN [i \in Record |-> "erased"] ELSE @[b]]]

\* Flash bits only go from 1 to 0: a record written over anything but erased flash,
\* or over itself, is neither the old content nor the image.
EffectWrite(r, c) ==
  flash' = [flash EXCEPT ![r][c.seg][c.rec] =
             IF @ \in {"erased", "image"} THEN "image" ELSE "bad"]

\* Whether the command is answered, with how many words, and what the answer says.
Answers(r, c) ==
  \/ c.act \in {"probeRead", "read", "other"}
  \/ r \in solid /\ c.tagged

Reply(r, c, ok) ==
  [kind  |-> CASE c.act \in {"erase", "write"}        -> "ack"
               [] c.act \in {"probe", "crc", "image"} -> "crc"
               [] OTHER                               -> "data",
   ok    |-> ok,
   seg   |-> c.seg,
   rec   |-> c.rec,
   fresh |-> c.fresh]

\* DONE drops when the MiV takes the next command.
Take(r) ==
  /\ queue[r] # <<>>
  /\ ~exec[r]
  /\ exec' = [exec EXCEPT ![r] = TRUE]
  /\ UNCHANGED <<flash, queue, fifo, result, program, stage, round, sawBusy, faults, options>>

\* The command ends: its effect, its reply and DONE.  A command that has arrived in the
\* meantime is taken at once, too soon for anyone to see DONE in between.
Finish(r, ok) ==
  LET c == Head(queue[r]) IN
  /\ exec[r]
  /\ queue' = [queue EXCEPT ![r] = Tail(@)]
  /\ exec' = [exec EXCEPT ![r] = Tail(queue[r]) # <<>>]
  /\ CASE c.act = "erase" /\ ok -> EffectErase(r, c)
       [] c.act = "write" /\ ok -> EffectWrite(r, c)
       [] c.act = "write" /\ ~ok -> flash' = [flash EXCEPT ![r][c.seg][c.rec] = "bad"]
       [] OTHER -> UNCHANGED flash
  /\ fifo' = IF Answers(r, c)
             THEN [fifo EXCEPT ![r] = Append(@, Reply(r, c,
                    CASE c.act = "crc"   -> ok /\ SegmentHolds(r, c.seg)
                      [] c.act = "image" -> ok /\ ImageHolds(r)
                      [] c.act \in {"probeRead", "read"} -> ok /\ Holds(r, c.seg, c.rec)
                      [] OTHER           -> ok))]
             ELSE fifo
  /\ UNCHANGED <<result, program, stage, round, sawBusy, options>>

\* A command fails in the flash or its answer is damaged: ok is FALSE.
MivFinish(r) ==
  \/ Finish(r, TRUE) /\ UNCHANGED faults
  \/ faults < MaxFaults /\ Finish(r, FALSE) /\ faults' = faults + 1

Command(act, s, i, tagged) ==
  [act |-> act, seg |-> s, rec |-> i, tagged |-> tagged, fresh |-> TRUE]

\* Idle as waitIdle and sendWhenIdle see it: empty FIFO, DONE set (or 0).
LooksIdle(r) == ~exec[r] /\ fifo[r] = <<>>

\* No command waits for an idle MiV: only then can a wait of the session run out.
Quiet(r) == exec[r] \/ queue[r] = <<>>

\* Another user of the link runs a command of its own, read of some other address ...
OtherCommand(r) ==
  /\ faults < MaxFaults
  /\ LooksIdle(r)
  /\ queue' = [queue EXCEPT ![r] = Append(@, Command("other", Protected, 1, FALSE))]
  /\ faults' = faults + 1
  /\ UNCHANGED <<flash, exec, fifo, result, program, stage, round, sawBusy, options>>

\* ... or reads the reply FIFO.
OtherReads(r) ==
  /\ faults < MaxFaults
  /\ fifo[r] # <<>>
  /\ fifo' = [fifo EXCEPT ![r] = <<>>]
  /\ faults' = faults + 1
  /\ UNCHANGED <<flash, queue, exec, result, program, stage, round, sawBusy, options>>

-----------------------------------------------------------------------------
(* sendWhenIdle, waitIdle                                                   *)

Tagged(r) == op \in {"probe", "crc", "image"} \/ newMiv[r]

\* The operations whose failures are asked again, up to Tries times.
Asked == {"crc", "image", "read"}

\* How the round ends for a ROC that did not get through.
Missed == IF op \in Asked THEN "again" ELSE "err"

SetStage(r, s) == stage' = [stage EXCEPT ![r] = s]

\* A new tag makes every tag sent before it to this ROC an old one.
Stale(x) == [x EXCEPT !.fresh = FALSE]
Aged(s)  == [i \in DOMAIN s |-> Stale(s[i])]

\* The command goes out under the DCS lock, with the idle check made again inside.
Deliver(r) ==
  /\ queue' = [queue EXCEPT ![r] = Append(Aged(@), Command(op, seg, rec, Tagged(r)))]
  /\ fifo' = [fifo EXCEPT ![r] = Aged(@)]

SendOk(r) ==
  /\ stage[r] = "send"
  /\ LooksIdle(r)
  /\ Deliver(r)
  /\ SetStage(r, "wait")
  /\ sawBusy' = [sawBusy EXCEPT ![r] = FALSE]
  /\ UNCHANGED <<flash, exec, result, program, round, faults, options>>

\* The block write asks for no acknowledgement: a command that is lost is not noticed.
SendLost(r) ==
  /\ stage[r] = "send"
  /\ LooksIdle(r)
  /\ faults < MaxFaults
  /\ faults' = faults + 1
  /\ queue' = [queue EXCEPT ![r] = Aged(@)]
  /\ SetStage(r, "wait")
  /\ sawBusy' = [sawBusy EXCEPT ![r] = FALSE]
  /\ UNCHANGED <<flash, exec, fifo, result, program, round, options>>

\* waitIdle reads what is left of earlier replies out of the FIFO.
DrainStale(r) ==
  /\ stage[r] = "send"
  /\ fifo[r] # <<>>
  /\ fifo' = [fifo EXCEPT ![r] = <<>>]
  /\ UNCHANGED <<flash, queue, exec, result, program, stage, round, sawBusy, faults, options>>

SendNotIdle(r) ==
  /\ stage[r] = "send"
  /\ ~LooksIdle(r) /\ Quiet(r)
  /\ SetStage(r, Missed)
  /\ UNCHANGED <<miv, result, program, round, sawBusy, faults, options>>

\* An access throws; if it was the write, the command may have arrived all the same.
SendThrows(r) ==
  /\ stage[r] = "send"
  /\ faults < MaxFaults
  /\ faults' = faults + 1
  /\ \/ UNCHANGED <<queue, fifo>>
     \/ LooksIdle(r) /\ Deliver(r)
  /\ SetStage(r, Missed)
  /\ UNCHANGED <<flash, exec, result, program, round, sawBusy, options>>

-----------------------------------------------------------------------------
(* collectTagged, waitTaggedResult, collectPieceMismatch, readReply         *)

\* Every command of the round is out before the first wait.
Waiting(r) == stage[r] = "wait" /\ \A q \in Roc : stage[q] # "send"

\* An older MiV does not answer erase and write: only DONE tells.
ByReply(r) == op \notin {"erase", "write"} \/ newMiv[r]

ExpectedKind ==
  CASE op \in {"erase", "write"}        -> "ack"
    [] op \in {"probe", "crc", "image"} -> "crc"
    [] OTHER                            -> "data"

\* The word count in register 129 is that of the reply waited for.
ReplyThere(r) == Len(fifo[r]) = 1 /\ fifo[r][1].kind = ExpectedKind

\* Mutant: the tag is not compared.
AcceptsAnyTag(r, x) ==
  /\ x.ok
  /\ op = "read" => x.seg = seg /\ x.rec = rec

\* The tag is that of the command, or the words are those of the piece asked for,
\* and the result is good.
Accepts(r, x) ==
  /\ x.ok
  /\ Tagged(r) => x.fresh
  /\ op = "read" => x.seg = seg /\ x.rec = rec

\* The reply is read under the DCS lock.  probeAll concludes what the MiV is from it,
\* and takes a ROC without a good answer for an older MiV.
Collect(r) ==
  /\ Waiting(r)
  /\ ByReply(r)
  /\ ReplyThere(r)
  /\ fifo' = [fifo EXCEPT ![r] = <<>>]
  /\ CASE op = "probe" ->
            /\ newMiv' = [newMiv EXCEPT ![r] = Accepts(r, fifo[r][1])]
            /\ SetStage(r, "ok")
       [] op = "probeRead" ->
            /\ SetStage(r, "ok")
            /\ UNCHANGED newMiv
       [] OTHER ->
            /\ SetStage(r, IF Accepts(r, fifo[r][1]) THEN "ok" ELSE Missed)
            /\ UNCHANGED newMiv
  /\ UNCHANGED <<flash, queue, exec, state, program, round, sawBusy, faults, options>>

\* The block read fails: the reply is gone, or still there.
ReplyLost(r) ==
  /\ Waiting(r)
  /\ ByReply(r)
  /\ ReplyThere(r)
  /\ faults < MaxFaults
  /\ faults' = faults + 1
  /\ fifo' \in {fifo, [fifo EXCEPT ![r] = <<>>]}
  /\ SetStage(r, IF op = "probe" THEN "ok" ELSE Missed)
  /\ UNCHANGED <<flash, queue, exec, result, program, round, sawBusy, options>>

\* Mutant: only the wait for DONE has a time-out.
WaitTimeoutOfDone(r) ==
  /\ Waiting(r)
  /\ ~ByReply(r) /\ exec[r]
  /\ SetStage(r, "err")
  /\ UNCHANGED <<miv, result, program, round, sawBusy, faults, options>>

\* "unexpected reply size": a tagged wait ends at once when the FIFO holds more than
\* its reply, an acknowledgement being the shortest and the words of the flash the longest.
TooLong(r) ==
  /\ op \in {"erase", "write", "crc", "image"}
  /\ \/ Len(fifo[r]) > 1
     \/ fifo[r] # <<>> /\ fifo[r][1].kind \in {"crc", "data"} \ {ExpectedKind}

\* No reply of the expected size before the time-out.
WaitTimeout(r) ==
  /\ Waiting(r)
  /\ IF ByReply(r) THEN ~ReplyThere(r) /\ (Quiet(r) \/ TooLong(r))
                   ELSE exec[r]
  /\ SetStage(r, IF op = "probe" THEN "ok" ELSE Missed)
  /\ UNCHANGED <<miv, result, program, round, sawBusy, faults, options>>

\* waitLegacyAll: DONE has been seen to drop ...
PollBusy(r) ==
  /\ Waiting(r)
  /\ ~ByReply(r)
  /\ exec[r] /\ ~sawBusy[r]
  /\ sawBusy' = [sawBusy EXCEPT ![r] = TRUE]
  /\ UNCHANGED <<miv, result, program, stage, round, faults, options>>

\* ... and is set again, or has been set for the minimum time.
AcceptDone(r) ==
  /\ Waiting(r)
  /\ ~ByReply(r)
  /\ ~exec[r]
  /\ sawBusy[r] \/ Quiet(r)
  /\ SetStage(r, "ok")
  /\ UNCHANGED <<miv, result, program, round, sawBusy, faults, options>>

-----------------------------------------------------------------------------
(* probeAll, upload                                                         *)

RoundOver == \A r \in Roc : stage[r] \notin {"send", "wait"}
Again     == {r \in Roc : stage[r] = "again"}
Bad       == {r \in Roc : stage[r] \in {"err", "again"}}
OpOver    == RoundOver /\ (Again = {} \/ round >= Tries)

\* The ROCs that did not get through this round are all asked again.
NextRound ==
  /\ RoundOver
  /\ Again # {} /\ round < Tries
  /\ round' = round + 1
  /\ stage' = [r \in Roc |-> IF r \in Again THEN "send" ELSE stage[r]]
  /\ UNCHANGED <<miv, result, program, sawBusy, faults, options>>

\* The next operation, for the ROCs in rs; the others sit it out.
Begin(o, rs) ==
  /\ op' = o
  /\ stage' = [r \in Roc |-> IF r \in rs THEN "send" ELSE "out"]
  /\ round' = 1

FailAll(rs)  == state' = [r \in Roc |-> IF r \in rs THEN "Failed" ELSE state[r]]
LegacyOf(rs) == {r \in rs : ~newMiv[r]}
NewOf(rs)    == {r \in rs : newMiv[r]}

\* Mutant: the read-back size is also asked of ROCs that failed the probe.
AfterProbeOfAll ==
  /\ op = "probe" /\ OpOver
  /\ FailAll(Bad)
  /\ Begin("probeRead", LegacyOf(Roc))
  /\ UNCHANGED <<miv, newMiv, seg, rec, attempt, todo, err, sawBusy, faults, options>>

AfterProbe ==
  /\ op = "probe" /\ OpOver
  /\ FailAll(Bad)
  /\ Begin("probeRead", LegacyOf(Roc \ Bad))
  /\ UNCHANGED <<miv, newMiv, seg, rec, attempt, todo, err, sawBusy, faults, options>>

\* The first operation of an attempt: with writeImage the erase, else the comparison.
FirstOp == IF writeImage THEN "erase" ELSE "crc"

StartAttempt(rs) ==
  /\ todo' = rs
  /\ err' = {}
  /\ rec' = 1
  /\ Begin(FirstOp, IF writeImage THEN rs ELSE NewOf(rs))

AfterProbeRead ==
  /\ op = "probeRead" /\ OpOver
  /\ state' = [r \in Roc |-> IF r \in Bad \/ ~Alive(r) THEN "Failed" ELSE "Uploading"]
  /\ StartAttempt({r \in Roc : Alive(r)} \ Bad)
  /\ UNCHANGED <<miv, newMiv, seg, attempt, sawBusy, faults, options>>

AfterErase ==
  /\ op = "erase" /\ OpOver
  /\ err' = err \cup Bad
  /\ Begin("write", todo \ err')
  /\ UNCHANGED <<miv, result, seg, rec, attempt, todo, sawBusy, faults, options>>

AfterWrite ==
  /\ op = "write" /\ OpOver
  /\ err' = err \cup Bad
  /\ IF rec < NRec
     THEN rec' = rec + 1 /\ Begin("write", todo \ err')
     ELSE rec' = 1 /\ Begin("crc", NewOf(todo \ err'))
  /\ UNCHANGED <<miv, result, seg, attempt, todo, sawBusy, faults, options>>

\* Mutant: no comparison with an older MiV.
AfterCrcOnly ==
  /\ op = "crc" /\ OpOver
  /\ err' = err \cup Bad
  /\ Begin("read", {})
  /\ UNCHANGED <<miv, result, seg, rec, attempt, todo, sawBusy, faults, options>>

AfterCrc ==
  /\ op = "crc" /\ OpOver
  /\ err' = err \cup Bad
  /\ Begin("read", LegacyOf(todo \ err'))
  /\ UNCHANGED <<miv, result, seg, rec, attempt, todo, sawBusy, faults, options>>

\* What is left of an attempt whose last comparison failed for rs: another attempt,
\* or these ROCs fail and the others go on to the next segment, or to the end.
NextSegment(rs) ==
  LET left == {r \in Roc : Alive(r)} \ rs IN
  /\ FailAll(rs)
  /\ attempt' = 1
  /\ IF seg < NSeg /\ left # {}
     THEN seg' = seg + 1 /\ StartAttempt(left)
     ELSE /\ UNCHANGED seg
          /\ rec' = 1 /\ todo' = left /\ err' = {}
          \* finalImageCrc is looked at here only: the choice stands for the option
          /\ \E finalImageCrc \in BOOLEAN :
               Begin("image", IF finalImageCrc THEN NewOf(left) ELSE {})

EndOfAttempt(rs) ==
  IF writeImage /\ rs # {} /\ attempt < MaxAttempts
  THEN /\ attempt' = attempt + 1
       /\ StartAttempt(rs)
       /\ UNCHANGED <<state, seg>>
  ELSE NextSegment(rs)

AfterRead ==
  /\ op = "read" /\ OpOver
  /\ LET e == err \cup Bad IN
     IF rec < NRec
     THEN /\ err' = e
          /\ rec' = rec + 1
          /\ Begin("read", LegacyOf(todo \ e))
          /\ UNCHANGED <<state, seg, attempt, todo>>
     ELSE EndOfAttempt(e)
  /\ UNCHANGED <<miv, newMiv, sawBusy, faults, options>>

\* The CRC of the whole image has the last word on a ROC that can compute it.
AfterImage ==
  /\ op = "image" /\ OpOver
  /\ state' = [r \in Roc |-> CASE r \in Bad -> "Failed"
                               [] Alive(r) /\ r \notin Bad -> "Verified"
                               [] OTHER -> state[r]]
  /\ Begin("done", {})
  /\ UNCHANGED <<miv, newMiv, seg, rec, attempt, todo, err, sawBusy, faults, options>>

Session ==
  \/ \E r \in Roc :
       \/ SendOk(r) \/ SendLost(r) \/ DrainStale(r) \/ SendNotIdle(r) \/ SendThrows(r)
       \/ Collect(r) \/ ReplyLost(r) \/ WaitTimeout(r)
       \/ PollBusy(r) \/ AcceptDone(r)
  \/ NextRound
  \/ AfterProbe \/ AfterProbeRead \/ AfterErase \/ AfterWrite \/ AfterCrc
  \/ AfterRead \/ AfterImage

Next ==
  \/ Session
  \/ \E r \in Roc : Take(r) \/ MivFinish(r) \/ OtherCommand(r) \/ OtherReads(r)

Spec == Init /\ [][Next]_vars

\* The session is scheduled and the MiV takes commands; it need not finish them.
FairSpec ==
  /\ Spec
  /\ WF_vars(Session)
  /\ \A r \in Roc : WF_vars(Take(r))

-----------------------------------------------------------------------------
Commands == [act : {"probe", "probeRead", "erase", "write", "crc", "image", "read", "other"},
             seg : 0..NSeg, rec : Record, tagged : BOOLEAN, fresh : BOOLEAN]
Replies  == [kind : {"ack", "crc", "data"}, ok : BOOLEAN, seg : 0..NSeg, rec : Record,
             fresh : BOOLEAN]

TypeOK ==
  /\ flash \in [Roc -> [Block -> [Record -> Content]]]
  /\ queue \in [Roc -> Seq(Commands)]
  /\ exec \in [Roc -> BOOLEAN]
  /\ fifo \in [Roc -> Seq(Replies)]
  /\ state \in [Roc -> {"Selected", "Uploading", "Verified", "Failed"}]
  /\ newMiv \in [Roc -> BOOLEAN]
  /\ op \in {"probe", "probeRead", "erase", "write", "crc", "read", "image", "done"}
  /\ seg \in Segment /\ rec \in Record /\ attempt \in Nat
  /\ todo \subseteq Roc /\ err \subseteq Roc
  /\ stage \in [Roc -> {"send", "wait", "ok", "err", "again", "out"}]
  /\ round \in Nat
  /\ sawBusy \in [Roc -> BOOLEAN]
  /\ faults \in Nat
  /\ solid \subseteq Roc /\ writeImage \in BOOLEAN

\* A ROC reported as verified holds the whole image, and so does a ROC that is still
\* alive in the segments the session has left behind: no late, repeated or foreign
\* command, and no reply to another command, leads to a false verdict ("a ROC is
\* programmed only if every segment verified").
VerifiedHoldsImage ==
  \A r \in Roc : Alive(r) /\ state[r] # "Selected" =>
    /\ \A b \in 1..(seg - 1) : SegmentHolds(r, b)
    /\ state[r] = "Verified" => ImageHolds(r)

\* An erase or a write acknowledged with its tag has been done: the acknowledgement is
\* never that of an earlier command, lost, late or repeated as it may be.
AckMeansDone ==
  \A r \in Roc : newMiv[r] /\ stage[r] = "ok" =>
    /\ op = "erase" => \A i \in Record : flash[r][seg][i] = "erased"
    /\ op = "write" => Holds(r, seg, rec)

\* "nothing is ever written below protectedBelow": neither the block below the image
\* nor anything past the one extra block is touched, and verify-only writes nowhere.
NothingElseTouched ==
  \A r \in Roc, i \in Record :
    /\ flash[r][Protected][i] = "old" /\ flash[r][Beyond][i] = "old"
    /\ ~writeImage => \A b \in Block : flash[r][b][i] \in {"old", "image"}

\* A dropped ROC stays dropped, and the session sends it nothing more.
FailedIsLeftAlone ==
  [][\A r \in Roc : ~Alive(r) =>
       /\ state'[r] = "Failed"
       /\ Len(queue'[r]) > Len(queue[r]) => queue'[r][Len(queue'[r])].act = "other"]_vars

\* Whatever the MiVs, the link and the other users do, the session ends, with a verdict
\* on every ROC: no MiV that hangs holds the others.
SessionEnds == <>(op = "done" /\ \A r \in Roc : state[r] \in {"Verified", "Failed"})
=============================================================================
