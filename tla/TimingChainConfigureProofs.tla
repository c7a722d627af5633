---------------------- MODULE TimingChainConfigureProofs ----------------------
(***************************************************************************)
(* Proofs about TimingChainConfigure for any chain of boards, any front    *)
(* ends in the two subsystems, any numbers of polls, passes, sub-steps and *)
(* configures, and reboots anywhere.                                       *)
(***************************************************************************)
EXTENDS TimingChainConfigure, TLAPS

USE ChainAssumption

-----------------------------------------------------------------------------
(* The gateways and the front ends they call                                *)

\* The pass of a subsystem: its subsystem-iteration, its first iteration and its last phase.
Pass(s)      == IF s = "cfo" THEN 0 ELSE 1
FirstIter(s) == IF gw[s].turn = 1 THEN 1 ELSE 0
Last(s)      == IF s = "cfo" THEN EventSending ELSE FinalSoftReset

Running(s) == gw[s].state = "Configuring"
OnTurn(s)  == gw[s].turn \in {Standalone, Pass(s)}
Ph(s)      == gw[s].iter - FirstIter(s)
Replied(s) == FEs(s) \ gw[s].todo

SkeletonTypes ==
  /\ gw \in [Subsystem ->
       [state : {"Halted", "Configuring", "PassDone", "Configured", "Failed"},
        turn : -1 .. 1, iter : 0 .. EventSending + 1, todo : SUBSET FrontEnd,
        more : BOOLEAN, later : BOOLEAN]]
  /\ base \in [FrontEnd -> -1 .. 1]
  /\ sub \in [FrontEnd -> Nat]

\* A subsystem waits for its pass in one iteration, in which all its front ends ask for
\* another subsystem-iteration; in its pass all of them ask for another iteration up to its
\* last phase.  The detectors' pass comes after the CFO's.
GatewayInv(s) ==
  /\ gw[s].todo \subseteq FEs(s)
  /\ s = "cfo" => gw[s].turn # 1
  /\ gw[s].state # "Halted" => (TopLevel <=> gw[s].turn # Standalone)
  /\ OnTurn(s) => ~gw[s].later /\ gw[s].state # "PassDone"
  /\ ~OnTurn(s) => gw[s].iter = 0 /\ ~gw[s].more /\ (Replied(s) # {} => gw[s].later)
  /\ Running(s) /\ OnTurn(s) =>
       /\ Ph(s) \in 0 .. Last(s)
       /\ Replied(s) # {} => (gw[s].more <=> Ph(s) < Last(s))
       /\ gw[s].more => Replied(s) # {}
  /\ gw[s].state = "Configured" =>
       FEs(s) = {} \/ (OnTurn(s) /\ Ph(s) = Last(s) /\ gw[s].todo = {})
  /\ gw[s].state = "PassDone" => gw[s].todo = {}
  /\ gw[s].turn = 1 => gw["cfo"].state = "Configured"
  /\ gw[s].state = "Halted" => gw[s].turn = Standalone /\ gw[s].todo = {}

AllHalted == \A s, t \in Subsystem : gw[s].state = "Halted" => gw[t].state = "Halted"

\* A front end counts its phases from the first iteration of its pass, from its first call
\* there on.
FrontEndInv(f) ==
  LET s == Home(f) IN
  /\ f # Cfo /\ gw[s].state = "Halted" => base[f] = -1
  /\ f = Cfo => base[f] \in {-1, 0}
  /\ ~OnTurn(s) /\ gw[s].state # "Failed" => base[f] = -1
  /\ Running(s) /\ OnTurn(s) =>
       base[f] = FirstIter(s) \/ (base[f] = -1 /\ Ph(s) = 0 /\ f \in gw[s].todo)
  /\ gw[s].state # "Failed" /\ (f \notin gw[s].todo \/ ~OnTurn(s)) => sub[f] = 0

Skeleton ==
  /\ SkeletonTypes /\ AllHalted
  /\ \A s \in Subsystem : GatewayInv(s)
  /\ \A f \in FrontEnd : FrontEndInv(f)

\* Which subsystem a front end belongs to, and whether it is its turn.
LEMMA Homes ==
  ASSUME NEW f \in FrontEnd
  PROVE  /\ Home(f) \in Subsystem /\ f \in FEs(Home(f))
         /\ \A s \in Subsystem : f \in FEs(s) => Home(f) = s
         /\ TurnOf(f) = Pass(Home(f)) /\ (IsMyTurn(f) <=> OnTurn(Home(f)))
         /\ f = Cfo => Home(f) = "cfo"
         /\ f \in CfoHome => Home(f) = "cfo"
         /\ f \in DTC \ CfoHome => Home(f) = "detector"
BY DEF Home, Subsystem, FEs, TurnOf, Pass, IsMyTurn, OnTurn, FrontEnd

LEMMA Members == \A s \in Subsystem : FEs(s) \subseteq FrontEnd
BY DEF Subsystem, FEs, FrontEnd

\* A front end that is called in its pass is in the phase that its gateway's iteration says.
LEMMA PhaseIs ==
  ASSUME Skeleton, NEW f \in FrontEnd, IsCalled(f), IsMyTurn(f)
  PROVE  /\ BaseOf(f) = FirstIter(Home(f)) /\ Phase(f) = Ph(Home(f))
         /\ Ph(Home(f)) \in 0 .. Last(Home(f))
<1> DEFINE s == Home(f)
<1>1. s \in Subsystem /\ Running(s) /\ OnTurn(s) /\ f \in gw[s].todo
  BY Homes DEF IsCalled, Running
<1>2. GatewayInv(s) /\ FrontEndInv(f)
  BY <1>1 DEF Skeleton
<1>3. /\ gw[s].iter \in 0 .. 14 /\ gw[s].turn \in -1 .. 1 /\ base[f] \in -1 .. 1
      /\ FirstIter(s) \in 0 .. 1
  BY <1>1 DEF Skeleton, SkeletonTypes, EventSending, FirstIter
<1>4. base[f] = FirstIter(s) \/ (base[f] = -1 /\ Ph(s) = 0)
  BY <1>1, <1>2 DEF FrontEndInv
<1>5. Ph(s) \in 0 .. Last(s)
  BY <1>1, <1>2 DEF GatewayInv
<1>6. IsFirst(f) => gw[s].iter = 0 /\ FirstIter(s) = 0
  BY <1>3 DEF IsFirst, FirstIter, Standalone
<1>7. BaseOf(f) = FirstIter(s)
  BY <1>3, <1>4, <1>6 DEF BaseOf, Ph
<1> QED
  BY <1>5, <1>7 DEF Phase, Ph

\* A gateway's record from its fields.
LEMMA GatewayRecord ==
  ASSUME NEW x \in {"Halted", "Configuring", "PassDone", "Configured", "Failed"}, NEW k \in -1 .. 1,
         NEW i \in 0 .. EventSending + 1, NEW T \in SUBSET FrontEnd, NEW m \in BOOLEAN, NEW l \in BOOLEAN
  PROVE  [state |-> x, turn |-> k, iter |-> i, todo |-> T, more |-> m, later |-> l] \in
           [state : {"Halted", "Configuring", "PassDone", "Configured", "Failed"},
            turn : -1 .. 1, iter : 0 .. EventSending + 1, todo : SUBSET FrontEnd,
            more : BOOLEAN, later : BOOLEAN]
OBVIOUS

\* What a reply changes in the gateway.
LEMMA ReplyGateway ==
  ASSUME SkeletonTypes, NEW f \in FrontEnd, NEW r \in {"sub", "more", "later", "done"}, Reply(f, r)
  PROVE  LET s == Home(f) IN
         /\ \A t \in Subsystem : t # s => gw'[t] = gw[t]
         /\ gw'[s].state = gw[s].state /\ gw'[s].turn = gw[s].turn /\ gw'[s].iter = gw[s].iter
         /\ gw'[s].todo = IF r = "sub" THEN gw[s].todo ELSE gw[s].todo \ {f}
         /\ gw'[s].more = (gw[s].more \/ r = "more")
         /\ gw'[s].later = (gw[s].later \/ r = "later")
         /\ gw' \in [Subsystem ->
              [state : {"Halted", "Configuring", "PassDone", "Configured", "Failed"},
               turn : -1 .. 1, iter : 0 .. EventSending + 1, todo : SUBSET FrontEnd,
               more : BOOLEAN, later : BOOLEAN]]
<1> DEFINE s == Home(f)
           G == [state : {"Halted", "Configuring", "PassDone", "Configured", "Failed"},
                 turn : -1 .. 1, iter : 0 .. EventSending + 1, todo : SUBSET FrontEnd,
                 more : BOOLEAN, later : BOOLEAN]
           g == [gw[s] EXCEPT !.todo = IF r = "sub" THEN @ ELSE @ \ {f},
                              !.more = @ \/ r = "more", !.later = @ \/ r = "later"]
<1>1. s \in Subsystem /\ gw \in [Subsystem -> G]
  BY Homes DEF SkeletonTypes
<1>2. gw' = [gw EXCEPT ![s] = g]
  BY <1>1 DEF Reply
<1>3. gw[s] \in G
  BY <1>1
<1>4. /\ g \in G
      /\ g.state = gw[s].state /\ g.turn = gw[s].turn /\ g.iter = gw[s].iter
      /\ g.todo = IF r = "sub" THEN gw[s].todo ELSE gw[s].todo \ {f}
      /\ g.more = (gw[s].more \/ r = "more")
      /\ g.later = (gw[s].later \/ r = "later")
  BY <1>3
<1> HIDE DEF G, g
<1>5. gw' \in [Subsystem -> G] /\ gw'[s] = g /\ \A t \in Subsystem : t # s => gw'[t] = gw[t]
  BY <1>1, <1>2, <1>4
<1> QED
  BY <1>4, <1>5 DEF G

\* A subsystem that a step leaves alone, but for what the CFO's has reached.
LEMMA OtherGateway ==
  ASSUME NEW s \in Subsystem, GatewayInv(s), gw'[s] = gw[s],
         gw["cfo"].state = "Configured" => gw'["cfo"].state = "Configured"
  PROVE  GatewayInv(s)'
BY DEF GatewayInv, OnTurn, Running, Ph, FirstIter, Replied, FEs

\* A front end whose gateway and own counters a step leaves alone.
LEMMA OtherFrontEnd ==
  ASSUME NEW f \in FrontEnd, FrontEndInv(f), gw'[Home(f)] = gw[Home(f)],
         base'[f] = base[f], sub'[f] = sub[f]
  PROVE  FrontEndInv(f)'
BY DEF FrontEndInv, OnTurn, Running, Ph, FirstIter, Home

\* A call in the pass of the front end's subsystem.
LEMMA AnswerKeeps ==
  ASSUME Skeleton, NEW f \in FrontEnd, IsCalled(f), IsMyTurn(f),
         NEW r \in {"sub", "more", "done"}, Reply(f, r),
         base' = [base EXCEPT ![f] = BaseOf(f)],
         r = "more" => Ph(Home(f)) < Last(Home(f)),
         r = "done" => Ph(Home(f)) = Last(Home(f))
  PROVE  Skeleton'
<1> DEFINE s == Home(f)
<1>0. s \in Subsystem /\ f \in FEs(s) /\ Running(s) /\ OnTurn(s) /\ f \in gw[s].todo
  BY Homes DEF IsCalled, Running
<1>1. /\ \A t \in Subsystem : t # s => gw'[t] = gw[t]
      /\ gw'[s].state = gw[s].state /\ gw'[s].turn = gw[s].turn /\ gw'[s].iter = gw[s].iter
      /\ gw'[s].todo = IF r = "sub" THEN gw[s].todo ELSE gw[s].todo \ {f}
      /\ gw'[s].more = (gw[s].more \/ r = "more")
      /\ gw'[s].later = gw[s].later
  <2>1. gw[s].later \in BOOLEAN
    BY <1>0 DEF Skeleton, SkeletonTypes
  <2> QED
    BY <2>1, ReplyGateway DEF Skeleton
<1>2. /\ BaseOf(f) = FirstIter(s) /\ FirstIter(s) \in 0 .. 1
  BY PhaseIs DEF FirstIter
<1>3. SkeletonTypes'
  <2>1. sub' \in [FrontEnd -> Nat]
    BY DEF Reply, Skeleton, SkeletonTypes
  <2>2. base' \in [FrontEnd -> -1 .. 1]
    BY <1>2 DEF Skeleton, SkeletonTypes
  <2> QED
    BY <2>1, <2>2, ReplyGateway DEF Skeleton, SkeletonTypes
<1>4. GatewayInv(s)'
  <2>1. GatewayInv(s)
    BY <1>0 DEF Skeleton
  <2>2. Ph(s)' = Ph(s) /\ OnTurn(s)' = OnTurn(s) /\ Running(s)' = Running(s) /\ Last(s)' = Last(s)
    BY <1>1 DEF Ph, OnTurn, Running, FirstIter, Last, Pass
  <2>3. FEs(s)' = FEs(s)
    BY DEF FEs
  <2>4. /\ gw'[s].todo \subseteq FEs(s)
        /\ s = "cfo" => gw'[s].turn # 1
        /\ gw'[s].state # "Halted" => (TopLevel <=> gw'[s].turn # Standalone)
        /\ ~gw'[s].later /\ gw'[s].state = "Configuring"
        /\ Ph(s) \in 0 .. Last(s)
    BY <1>0, <1>1, <2>1 DEF GatewayInv, Running
  <2>5. /\ Replied(s)' # {} => (gw'[s].more <=> Ph(s) < Last(s))
        /\ gw'[s].more => Replied(s)' # {}
    <3>1. CASE r = "sub"
      BY <1>0, <1>1, <2>1, <2>3, <3>1 DEF GatewayInv, Replied
    <3>2. CASE r = "more"
      BY <1>0, <1>1, <2>1, <2>3, <3>2 DEF GatewayInv, Replied
    <3>3. CASE r = "done"
      <4>1. ~(Ph(s) < Last(s)) /\ ~gw[s].more
        BY <1>0, <2>1, <3>3 DEF GatewayInv, Last, EventSending, FinalSoftReset
      <4> QED
        BY <1>0, <1>1, <2>3, <3>3, <4>1 DEF Replied
    <3> QED
      BY <3>1, <3>2, <3>3
  <2>6. gw'[s].turn = 1 => gw'["cfo"].state = "Configured"
    BY <1>0, <1>1, <2>1 DEF GatewayInv, Subsystem
  <2> QED
    BY <1>0, <2>2, <2>3, <2>4, <2>5, <2>6 DEF GatewayInv, Running, OnTurn, Ph, FirstIter, Last, Replied
<1>5. \A t \in Subsystem : t # s => GatewayInv(t)'
  BY <1>1, OtherGateway DEF Skeleton, Subsystem
<1>6. AllHalted'
  BY <1>1 DEF Skeleton, AllHalted, Subsystem
<1>7. FrontEndInv(f)'
  <2>1. base'[f] = FirstIter(s) /\ sub'[f] \in Nat /\ (r # "sub" => sub'[f] = 0)
    BY <1>2 DEF Skeleton, SkeletonTypes, Reply
  <2>2. Home(f)' = s /\ FirstIter(s)' = FirstIter(s) /\ OnTurn(s)' /\ Running(s)'
    BY <1>0, <1>1 DEF Home, FirstIter, OnTurn, Running, Pass
  <2>3. f = Cfo => FirstIter(s) = 0
    BY <1>0, Homes DEF Skeleton, GatewayInv, FirstIter
  <2> QED
    BY <1>0, <1>1, <2>1, <2>2, <2>3 DEF FrontEndInv, Running
<1>8. ASSUME NEW g \in FrontEnd, g # f PROVE FrontEndInv(g)'
  <2>1. base'[g] = base[g] /\ sub'[g] = sub[g]
    BY <1>8 DEF Skeleton, SkeletonTypes, Reply
  <2>2. CASE Home(g) # s
    BY <1>1, <2>1, <2>2, Homes, OtherFrontEnd DEF Skeleton
  <2>3. CASE Home(g) = s
    <3>1. /\ g \in gw'[s].todo <=> g \in gw[s].todo
          /\ Ph(s)' = Ph(s) /\ OnTurn(s)' = OnTurn(s) /\ Running(s)' = Running(s) /\ FirstIter(s)' = FirstIter(s)
      BY <1>1, <1>8 DEF Ph, OnTurn, Running, FirstIter, Pass
    <3> QED
      BY <1>0, <1>1, <2>1, <2>3, <3>1 DEF Skeleton, FrontEndInv, Home
  <2> QED
    BY <2>2, <2>3
<1> QED
  BY <1>3, <1>4, <1>5, <1>6, <1>7, <1>8 DEF Skeleton

\* The base of a front end that is called in its pass.
LEMMA TakesBase ==
  ASSUME Skeleton, NEW f \in FrontEnd, IsCalled(f), IsMyTurn(f),
         base' = [base EXCEPT ![f] = BaseOf(f)]
  PROVE  /\ base' \in [FrontEnd -> -1 .. 1] /\ base'[f] = FirstIter(Home(f))
         /\ f = Cfo => base'[f] = 0
         /\ \A g \in FrontEnd : g # f => base'[g] = base[g]
<1>1. BaseOf(f) = FirstIter(Home(f)) /\ FirstIter(Home(f)) \in 0 .. 1
  BY PhaseIs DEF FirstIter
<1>2. f = Cfo => FirstIter(Home(f)) = 0
  BY Homes DEF Skeleton, GatewayInv, FirstIter
<1> QED
  BY <1>1, <1>2 DEF Skeleton, SkeletonTypes

\* A call that has not been answered yet.
LEMMA SilenceKeeps ==
  ASSUME Skeleton, NEW f \in FrontEnd, IsCalled(f), IsMyTurn(f), UNCHANGED <<gw, sub>>,
         base' = [base EXCEPT ![f] = BaseOf(f)]
  PROVE  Skeleton'
<1>1. SkeletonTypes' /\ AllHalted'
  BY TakesBase DEF Skeleton, SkeletonTypes, AllHalted
<1>2. \A s \in Subsystem : GatewayInv(s)'
  BY OtherGateway DEF Skeleton
<1>3. FrontEndInv(f)'
  <2>1. Home(f) \in Subsystem /\ Running(Home(f)) /\ OnTurn(Home(f)) /\ FrontEndInv(f)
    BY Homes DEF IsCalled, Running, Skeleton
  <2>2. base'[f] = FirstIter(Home(f)) /\ (f = Cfo => base'[f] = 0)
    BY TakesBase
  <2> QED
    BY <2>1, <2>2 DEF FrontEndInv, Running, OnTurn, FirstIter, Ph, Home
<1>4. ASSUME NEW g \in FrontEnd, g # f PROVE FrontEndInv(g)'
  BY <1>4, TakesBase, OtherFrontEnd DEF Skeleton
<1> QED
  BY <1>1, <1>2, <1>3, <1>4 DEF Skeleton

\* A front end that throws, in its pass or on a reboot it notices.
LEMMA ThrowKeeps ==
  ASSUME Skeleton, NEW f \in FrontEnd, IsCalled(f), NEW why, Throw(f, why),
         base' = base \/ (IsMyTurn(f) /\ base' = [base EXCEPT ![f] = BaseOf(f)])
  PROVE  Skeleton'
<1> DEFINE s == Home(f)
<1>0. s \in Subsystem /\ f \in FEs(s) /\ Running(s) /\ GatewayInv(s)
  BY Homes DEF IsCalled, Running, Skeleton
<1>1. /\ \A t \in Subsystem : t # s => gw'[t] = gw[t]
      /\ gw'[s] = [gw[s] EXCEPT !.state = "Failed"] /\ sub' = sub
  BY <1>0 DEF Throw, Skeleton, SkeletonTypes
<1>2. /\ gw'[s].state = "Failed" /\ gw'[s].turn = gw[s].turn /\ gw'[s].iter = gw[s].iter
      /\ gw'[s].todo = gw[s].todo /\ gw'[s].more = gw[s].more /\ gw'[s].later = gw[s].later
  BY <1>0, <1>1 DEF Skeleton, SkeletonTypes
<1>3. /\ base' \in [FrontEnd -> -1 .. 1] /\ \A g \in FrontEnd : g # f => base'[g] = base[g]
      /\ f = Cfo => base'[f] \in {-1, 0}
  BY TakesBase DEF Skeleton, SkeletonTypes, FrontEndInv
<1>4. SkeletonTypes'
  BY <1>0, <1>1, <1>3 DEF Skeleton, SkeletonTypes, Throw
<1>5. GatewayInv(s)'
  <2>1. gw[s].turn # 1 \/ s # "cfo"
    BY <1>0 DEF GatewayInv
  <2>2. gw'[s].turn = 1 => gw'["cfo"].state = "Configured"
    BY <1>0, <1>1, <1>2, <2>1 DEF GatewayInv, Subsystem
  <2>3. /\ OnTurn(s)' = OnTurn(s) /\ Replied(s)' = Replied(s) /\ FEs(s)' = FEs(s)
        /\ ~Running(s)' /\ Pass(s)' = Pass(s)
    BY <1>2 DEF OnTurn, Replied, Running, FEs, Pass
  <2> QED
    BY <1>0, <1>2, <2>2, <2>3 DEF GatewayInv, Running
<1>6. \A t \in Subsystem : t # s => GatewayInv(t)'
  BY <1>0, <1>1, OtherGateway DEF Skeleton, Subsystem, Running
<1>7. AllHalted'
  <2>1. \A t \in Subsystem : gw[t].state # "Halted"
    BY <1>0 DEF Skeleton, AllHalted, Running
  <2> QED
    BY <1>1, <1>2, <2>1 DEF AllHalted
<1>8. ASSUME NEW g \in FrontEnd PROVE FrontEndInv(g)'
  <2>1. CASE Home(g) # s
    BY <1>1, <1>3, <2>1, Homes, OtherFrontEnd DEF Skeleton
  <2>2. CASE Home(g) = s
    <3>1. Home(g)' = s /\ ~Running(s)' /\ gw'[s].state = "Failed"
      BY <1>2, <2>2 DEF Home, Running
    <3>2. g = Cfo => base'[g] \in {-1, 0}
      BY <1>3 DEF Skeleton, FrontEndInv
    <3> QED
      BY <3>1, <3>2 DEF FrontEndInv
  <2> QED
    BY <2>1, <2>2
<1> QED
  BY <1>4, <1>5, <1>6, <1>7, <1>8 DEF Skeleton

\* A detector's front end puts its pass off.
LEMMA WaitsKeeps ==
  ASSUME Skeleton, NEW f \in FrontEnd, Waits(f)
  PROVE  Skeleton'
<1> DEFINE s == Home(f)
<1>0. /\ s \in Subsystem /\ f \in FEs(s) /\ Running(s) /\ ~OnTurn(s) /\ GatewayInv(s) /\ f \in gw[s].todo
      /\ Reply(f, "later")
  BY Homes DEF IsCalled, Running, Skeleton, Waits
<1>1. /\ \A t \in Subsystem : t # s => gw'[t] = gw[t]
      /\ gw'[s].state = gw[s].state /\ gw'[s].turn = gw[s].turn /\ gw'[s].iter = gw[s].iter
      /\ gw'[s].todo = gw[s].todo \ {f}
      /\ gw'[s].more = gw[s].more /\ gw'[s].later
  <2>1. gw[s].more \in BOOLEAN
    BY <1>0 DEF Skeleton, SkeletonTypes
  <2> QED
    BY <1>0, <2>1, ReplyGateway DEF Skeleton
<1>2. base[f] = -1 /\ base' = base
  <2>1. base[f] = -1
    BY <1>0 DEF Skeleton, FrontEndInv, Running
  <2> QED
    BY <2>1 DEF Waits, Skeleton, SkeletonTypes
<1>3. sub' = [sub EXCEPT ![f] = 0]
  BY <1>0 DEF Reply
<1>4. SkeletonTypes'
  BY <1>0, <1>2, <1>3, ReplyGateway DEF Skeleton, SkeletonTypes
<1>5. GatewayInv(s)'
  <2>1. /\ OnTurn(s)' = OnTurn(s) /\ FEs(s)' = FEs(s) /\ Replied(s)' = Replied(s) \cup {f}
    BY <1>0, <1>1 DEF OnTurn, Replied, FEs, Pass
  <2>2. gw'[s].turn = 1 => gw'["cfo"].state = "Configured"
    BY <1>0, <1>1 DEF GatewayInv, Subsystem
  <2> QED
    BY <1>0, <1>1, <2>1, <2>2 DEF GatewayInv, Running
<1>6. \A t \in Subsystem : t # s => GatewayInv(t)'
  BY <1>0, <1>1, OtherGateway DEF Skeleton, Subsystem, Running
<1>7. AllHalted'
  BY <1>1 DEF Skeleton, AllHalted, Subsystem
<1>8. ASSUME NEW g \in FrontEnd PROVE FrontEndInv(g)'
  <2>0. sub'[g] = sub[g] \/ (g = f /\ sub'[g] = 0)
    BY <1>3 DEF Skeleton, SkeletonTypes
  <2>1. CASE Home(g) # s
    BY <1>1, <1>2, <2>0, <2>1, Homes, OtherFrontEnd DEF Skeleton
  <2>2. CASE Home(g) = s
    <3>1. Home(g)' = s /\ OnTurn(s)' = OnTurn(s) /\ gw'[s].state = "Configuring"
      BY <1>0, <1>1, <2>2 DEF Home, OnTurn, Pass, Running
    <3>2. FrontEndInv(g)
      BY DEF Skeleton
    <3>3. base[g] = -1 /\ sub[g] = 0
      BY <1>0, <2>2, <3>2 DEF FrontEndInv, Running
    <3> QED
      BY <1>0, <1>2, <2>0, <3>1, <3>3 DEF FrontEndInv, Running
  <2> QED
    BY <2>1, <2>2
<1> QED
  BY <1>4, <1>5, <1>6, <1>7, <1>8 DEF Skeleton

\* The end of an iteration.
LEMMA IterationKeeps ==
  ASSUME Skeleton, NEW s \in Subsystem, EndsIteration(s)
  PROVE  Skeleton'
<1>0. /\ Running(s) /\ gw[s].todo = {} /\ GatewayInv(s) /\ UNCHANGED <<base, sub>>
      /\ Replied(s) = FEs(s) /\ FEs(s) \subseteq FrontEnd /\ FEs(s)' = FEs(s)
  BY Members DEF EndsIteration, Running, Skeleton, Replied, FEs
<1>1. /\ gw[s].state = "Configuring" /\ gw[s].turn \in -1 .. 1 /\ gw[s].iter \in 0 .. 14
      /\ gw[s].more \in BOOLEAN /\ gw[s].later \in BOOLEAN
      /\ gw \in [Subsystem -> [state : {"Halted", "Configuring", "PassDone", "Configured", "Failed"},
           turn : -1 .. 1, iter : 0 .. 14, todo : SUBSET FrontEnd, more : BOOLEAN, later : BOOLEAN]]
  BY <1>0 DEF Skeleton, SkeletonTypes, EventSending, Running
<1>2. Last(s) \in {12, 13} /\ FirstIter(s) \in {0, 1} /\ (s = "cfo" => FirstIter(s) = 0)
      /\ (s # "cfo" => Last(s) = 12)
  BY <1>0 DEF Last, FirstIter, EventSending, FinalSoftReset, GatewayInv
<1>3. \A t \in Subsystem : t # s => gw'[t] = gw[t]
  BY <1>1 DEF EndsIteration
<1>4. CASE gw[s].more
  <2>1. gw'[s] = [gw[s] EXCEPT !.iter = @ + 1, !.todo = FEs(s), !.more = FALSE]
    BY <1>1, <1>4 DEF EndsIteration
  <2>2. /\ gw'[s].state = "Configuring" /\ gw'[s].turn = gw[s].turn /\ gw'[s].iter = gw[s].iter + 1
        /\ gw'[s].todo = FEs(s) /\ gw'[s].more = FALSE /\ gw'[s].later = gw[s].later
    BY <1>1, <2>1
  <2>3. OnTurn(s) /\ Ph(s) \in 0 .. Last(s) /\ Ph(s) < Last(s)
    BY <1>0, <1>1, <1>4 DEF GatewayInv
  <2>4. /\ OnTurn(s)' /\ Running(s)' /\ FirstIter(s)' = FirstIter(s) /\ Last(s)' = Last(s)
        /\ Ph(s)' = Ph(s) + 1 /\ Replied(s)' = {}
    BY <1>0, <1>1, <1>2, <2>2, <2>3 DEF OnTurn, Running, FirstIter, Last, Ph, Replied, Pass
  <2>5. GatewayInv(s)'
    <3>1. Ph(s)' \in 0 .. Last(s)'
      BY <1>2, <2>3, <2>4
    <3>2. gw'[s].turn = 1 => gw'["cfo"].state = "Configured"
      BY <1>0, <1>3, <2>2 DEF GatewayInv, Subsystem
    <3>3. /\ s = "cfo" => gw'[s].turn # 1
          /\ TopLevel <=> gw'[s].turn # Standalone
          /\ ~gw'[s].later
      BY <1>0, <1>1, <2>2, <2>3 DEF GatewayInv
    <3> QED
      BY <1>0, <2>2, <2>4, <3>1, <3>2, <3>3 DEF GatewayInv
  <2>6. SkeletonTypes'
    <3>1. gw[s].iter + 1 \in 0 .. 14
      BY <1>1, <1>2, <2>3 DEF Ph
    <3>2. gw'[s] \in [state : {"Halted", "Configuring", "PassDone", "Configured", "Failed"},
           turn : -1 .. 1, iter : 0 .. 14, todo : SUBSET FrontEnd, more : BOOLEAN, later : BOOLEAN]
      BY <1>0, <1>1, <2>1, <3>1
    <3>3. gw' = [gw EXCEPT ![s] = gw'[s]]
      BY <1>1 DEF EndsIteration
    <3> QED
      BY <1>0, <1>1, <3>2, <3>3 DEF Skeleton, SkeletonTypes, EventSending
  <2>7. ASSUME NEW f \in FrontEnd, Home(f) = s PROVE FrontEndInv(f)'
    <3>1. FrontEndInv(f)
      BY DEF Skeleton
    <3>2. base[f] = FirstIter(s) /\ sub[f] = 0
      BY <1>0, <2>3, <2>7, <3>1 DEF FrontEndInv, Running
    <3>3. Home(f)' = s
      BY <2>7 DEF Home
    <3> QED
      BY <1>0, <1>2, <2>2, <2>4, <2>7, <3>2, <3>3, Homes DEF FrontEndInv
  <2>8. AllHalted'
    BY <1>1, <1>3, <2>2 DEF Skeleton, AllHalted
  <2>9. \A t \in Subsystem : t # s => GatewayInv(t)'
    BY <1>1, <1>3, OtherGateway DEF Skeleton, Subsystem
  <2>10. \A f \in FrontEnd : Home(f) # s => FrontEndInv(f)'
    BY <1>0, <1>3, OtherFrontEnd, Homes DEF Skeleton
  <2> QED
    BY <2>5, <2>6, <2>7, <2>8, <2>9, <2>10 DEF Skeleton
<1>5. CASE ~gw[s].more
  <2>1. gw'[s] = [gw[s] EXCEPT !.state = IF gw[s].later THEN "PassDone" ELSE "Configured"]
    BY <1>1, <1>5 DEF EndsIteration
  <2>2. /\ gw'[s].state = IF gw[s].later THEN "PassDone" ELSE "Configured"
        /\ gw'[s].turn = gw[s].turn /\ gw'[s].iter = gw[s].iter
        /\ gw'[s].todo = {} /\ gw'[s].more = FALSE /\ gw'[s].later = gw[s].later
    BY <1>0, <1>1, <1>5, <2>1
  <2>3. /\ OnTurn(s)' = OnTurn(s) /\ ~Running(s)' /\ Replied(s)' = FEs(s)
        /\ Ph(s)' = Ph(s) /\ Last(s)' = Last(s)
    BY <1>0, <2>2 DEF OnTurn, Running, FirstIter, Last, Ph, Replied, Pass
  <2>4. OnTurn(s) => ~gw[s].later /\ (FEs(s) = {} \/ Ph(s) = Last(s))
    BY <1>0, <1>2, <1>5 DEF GatewayInv
  <2>5. ~OnTurn(s) => gw[s].later \/ FEs(s) = {}
    BY <1>0 DEF GatewayInv
  <2>6. GatewayInv(s)'
    <3>1. gw'[s].turn = 1 => gw'["cfo"].state = "Configured"
      BY <1>0, <1>3, <2>2 DEF GatewayInv, Subsystem
    <3>2. gw[s].later => ~OnTurn(s)
      BY <2>4
    <3> QED
      BY <1>0, <1>1, <2>2, <2>3, <2>4, <2>5, <3>1, <3>2 DEF GatewayInv
  <2>7. SkeletonTypes'
    <3>1. gw' = [gw EXCEPT ![s] = gw'[s]]
      BY <1>1 DEF EndsIteration
    <3>2. gw'[s] \in [state : {"Halted", "Configuring", "PassDone", "Configured", "Failed"},
           turn : -1 .. 1, iter : 0 .. 14, todo : SUBSET FrontEnd, more : BOOLEAN, later : BOOLEAN]
      BY <1>1, <2>1
    <3> QED
      BY <1>0, <1>1, <3>1, <3>2 DEF Skeleton, SkeletonTypes, EventSending
  <2>8. ASSUME NEW f \in FrontEnd, Home(f) = s PROVE FrontEndInv(f)'
    <3>1. FrontEndInv(f) /\ Home(f)' = s /\ (f = Cfo => base[f] \in {-1, 0})
      BY <2>8 DEF Skeleton, FrontEndInv, Home
    <3>2. sub[f] = 0 /\ (~OnTurn(s) => base[f] = -1)
      BY <1>0, <1>1, <2>8, <3>1 DEF FrontEndInv
    <3> QED
      BY <1>0, <2>2, <2>3, <3>1, <3>2 DEF FrontEndInv
  <2>9. AllHalted'
    BY <1>1, <1>3, <2>2 DEF Skeleton, AllHalted
  <2>10. \A t \in Subsystem : t # s => GatewayInv(t)'
    BY <1>1, <1>3, OtherGateway DEF Skeleton, Subsystem
  <2>11. \A f \in FrontEnd : Home(f) # s => FrontEndInv(f)'
    BY <1>0, <1>3, OtherFrontEnd, Homes DEF Skeleton
  <2> QED
    BY <2>6, <2>7, <2>8, <2>9, <2>10, <2>11 DEF Skeleton
<1> QED
  BY <1>4, <1>5
\* The detectors' pass begins.
LEMMA TurnBegins ==
  ASSUME Skeleton, NextTurn
  PROVE  /\ gw["cfo"].state = "Configured" /\ gw["detector"].state = "PassDone"
         /\ gw["detector"].turn = 0 /\ gw["detector"].iter = 0 /\ ~OnTurn("detector")
         /\ gw'["cfo"] = gw["cfo"]
         /\ gw'["detector"] =
              [state |-> "Configuring", turn |-> 1, iter |-> 1, todo |-> FEs("detector"),
               more |-> FALSE, later |-> FALSE]
         /\ DOMAIN gw' = Subsystem
<1>1. GatewayInv("cfo") /\ GatewayInv("detector")
  BY DEF Skeleton, Subsystem
<1>2. gw["cfo"].turn \in -1 .. 1 /\ gw["detector"].turn \in -1 .. 1 /\ gw["detector"].iter \in 0 .. 14
  BY DEF Skeleton, SkeletonTypes, Subsystem, EventSending
<1>3. gw["cfo"].state # "PassDone"
  BY <1>1, <1>2 DEF GatewayInv, OnTurn, Pass, Standalone
<1>4. gw["cfo"].state = "Configured" /\ gw["detector"].state = "PassDone"
  BY <1>3 DEF NextTurn, Subsystem
<1>5. ~OnTurn("detector")
  BY <1>1, <1>4 DEF GatewayInv
<1>6. gw["detector"].turn = 0 /\ gw["detector"].iter = 0
  BY <1>1, <1>2, <1>5 DEF GatewayInv, OnTurn, Pass, Standalone
<1>7. gw'["cfo"] = gw["cfo"] /\ DOMAIN gw' = Subsystem
  BY <1>3 DEF NextTurn, Subsystem
<1>8. gw'["detector"] =
        [state |-> "Configuring", turn |-> gw["detector"].turn + 1, iter |-> gw["detector"].iter + 1,
         todo |-> FEs("detector"), more |-> FALSE, later |-> FALSE]
  BY <1>4 DEF NextTurn, Subsystem
<1> QED
  BY <1>4, <1>5, <1>6, <1>7, <1>8

LEMMA TurnKeeps ==
  ASSUME Skeleton, NextTurn
  PROVE  Skeleton'
<1>1. UNCHANGED <<base, sub>>
  BY DEF NextTurn
<1>2. /\ gw'["detector"].state = "Configuring" /\ gw'["detector"].turn = 1 /\ gw'["detector"].iter = 1
      /\ gw'["detector"].todo = FEs("detector") /\ gw'["detector"].more = FALSE
      /\ gw'["detector"].later = FALSE
  BY TurnBegins
<1>3. SkeletonTypes'
  <2> DEFINE G == [state : {"Halted", "Configuring", "PassDone", "Configured", "Failed"},
                   turn : -1 .. 1, iter : 0 .. EventSending + 1, todo : SUBSET FrontEnd,
                   more : BOOLEAN, later : BOOLEAN]
  <2>1. gw'["cfo"] \in G
    BY TurnBegins DEF Skeleton, SkeletonTypes, Subsystem
  <2>2. gw'["detector"] \in G
    <3> HIDE DEF G
    <3>1. FEs("detector") \in SUBSET FrontEnd /\ 1 \in -1 .. 1 /\ 1 \in 0 .. EventSending + 1
      BY Members DEF Subsystem, EventSending
    <3>2. [state |-> "Configuring", turn |-> 1, iter |-> 1, todo |-> FEs("detector"),
           more |-> FALSE, later |-> FALSE] \in G
      BY <3>1, GatewayRecord, Zenon DEF G
    <3> QED
      BY <3>2, TurnBegins, Zenon
  <2>3. gw' = [s \in Subsystem |-> gw'[s]]
    BY DEF NextTurn
  <2> HIDE DEF G
  <2>4. gw' \in [Subsystem -> G]
    BY <2>1, <2>2, <2>3 DEF Subsystem
  <2> QED
    BY <1>1, <2>4 DEF G, Skeleton, SkeletonTypes
<1>4. GatewayInv("cfo")'
  BY TurnBegins, OtherGateway DEF Skeleton, Subsystem
<1>5. GatewayInv("detector")'
  <2>1. TopLevel
    BY TurnBegins DEF Skeleton, GatewayInv, Subsystem, Standalone
  <2>2. /\ OnTurn("detector")' /\ Ph("detector")' = 0 /\ Last("detector")' = 12
        /\ Replied("detector")' = {}
    BY <1>2 DEF OnTurn, Ph, FirstIter, Last, FinalSoftReset, Replied, Pass, FEs
  <2>3. gw'["cfo"].state = "Configured" /\ FEs("detector")' = FEs("detector")
    BY TurnBegins DEF FEs
  <2> QED
    BY <1>2, <2>1, <2>2, <2>3 DEF GatewayInv, Standalone
<1>6. AllHalted'
  BY <1>2, TurnBegins DEF AllHalted, Subsystem
<1>7. ASSUME NEW f \in FrontEnd PROVE FrontEndInv(f)'
  <2>1. CASE Home(f) = "cfo"
    BY <1>1, <2>1, OtherFrontEnd, TurnBegins DEF Skeleton
  <2>2. CASE Home(f) = "detector"
    <3>1. base[f] = -1 /\ sub[f] = 0
      BY <2>2, TurnBegins DEF Skeleton, FrontEndInv
    <3>2. f \in FEs("detector") /\ Home(f)' = "detector" /\ f # Cfo
      BY <2>2, Homes DEF Home
    <3> QED
      BY <1>1, <1>2, <3>1, <3>2 DEF FrontEndInv, OnTurn, Ph, FirstIter, Pass
  <2> QED
    BY <2>1, <2>2, Homes DEF Subsystem
<1> QED
  BY <1>3, <1>4, <1>5, <1>6, <1>7 DEF Skeleton, Subsystem

\* The operator configures: all gateways start their first iteration.
LEMMA ConfigureKeeps ==
  ASSUME Skeleton, NEW m \in Modes, Configure(m)
  PROVE  Skeleton'
<1>1. UNCHANGED <<base, sub>> /\ \A s \in Subsystem : gw[s].state = "Halted"
  BY DEF Configure
<1> DEFINE k == IF TopLevel THEN 0 ELSE Standalone
           start(s) == [Halted EXCEPT !.state = "Configuring", !.todo = FEs(s), !.turn = k]
<1>2. gw' = [s \in Subsystem |-> start(s)]
  BY DEF Configure
<1>9. k = -1 \/ k = 0
  BY DEF Standalone
<1>10. TopLevel <=> k # Standalone
  BY DEF Standalone
<1>11. k # 1
  BY <1>9
<1> HIDE DEF k
<1>3. SkeletonTypes'
  <2> DEFINE G == [state : {"Halted", "Configuring", "PassDone", "Configured", "Failed"},
                   turn : -1 .. 1, iter : 0 .. EventSending + 1, todo : SUBSET FrontEnd,
                   more : BOOLEAN, later : BOOLEAN]
  <2>1. Halted \in G
    <3>1. 0 \in 0 .. EventSending + 1 /\ -1 \in -1 .. 1 /\ {} \in SUBSET FrontEnd
      BY DEF EventSending
    <3> HIDE DEF G
    <3> QED
      BY <3>1, GatewayRecord, Zenon DEF G, Halted, Standalone
  <2>2. ASSUME NEW s \in Subsystem PROVE start(s) \in G
    <3>1. k \in -1 .. 1 /\ FEs(s) \in SUBSET FrontEnd
      BY <1>9, Members
    <3> QED
      BY <2>1, <3>1
  <2> HIDE DEF G
  <2>3. gw' \in [Subsystem -> G]
    BY <1>2, <2>2
  <2> QED
    BY <1>1, <2>3 DEF G, Skeleton, SkeletonTypes
<1>4. ASSUME NEW s \in Subsystem
      PROVE  /\ gw'[s].state = "Configuring" /\ gw'[s].turn = k
             /\ gw'[s].iter = 0 /\ gw'[s].todo = FEs(s) /\ gw'[s].more = FALSE /\ gw'[s].later = FALSE
  BY <1>2 DEF Halted
<1>5. ASSUME NEW s \in Subsystem PROVE GatewayInv(s)'
  <2>1. /\ gw'[s].state = "Configuring" /\ gw'[s].turn = k /\ k # 1
        /\ gw'[s].iter = 0 /\ gw'[s].todo = FEs(s) /\ gw'[s].more = FALSE /\ gw'[s].later = FALSE
    BY <1>4, <1>11
  <2>2. FirstIter(s)' = 0
    BY <2>1 DEF FirstIter
  <2>3. Ph(s)' = 0 /\ Last(s)' \in {12, 13} /\ Replied(s)' = {} /\ FEs(s)' = FEs(s)
    BY <2>1, <2>2 DEF Ph, Last, FinalSoftReset, EventSending, Replied, FEs
  <2> QED
    BY <1>10, <2>1, <2>3 DEF GatewayInv
<1>6. AllHalted'
  BY <1>4 DEF AllHalted
<1>7. ASSUME NEW f \in FrontEnd PROVE FrontEndInv(f)'
  <2>1. Home(f) \in Subsystem /\ f \in FEs(Home(f)) /\ Home(f)' = Home(f)
    BY Homes DEF Home
  <2>2. gw[Home(f)].state = "Halted" /\ FrontEndInv(f) /\ gw[Home(f)].turn = Standalone
    BY <1>1, <2>1 DEF Skeleton, GatewayInv
  <2>3. base[f] \in {-1, 0} /\ sub[f] = 0 /\ (f # Cfo => base[f] = -1)
    <3>1. gw[Home(f)].todo = {}
      BY <1>1, <2>1 DEF Skeleton, GatewayInv
    <3> QED
      BY <2>2, <3>1 DEF FrontEndInv
  <2> QED
    <3>1. /\ gw'[Home(f)].state = "Configuring" /\ gw'[Home(f)].turn = k /\ gw'[Home(f)].iter = 0
          /\ f \in gw'[Home(f)].todo /\ k # 1
      BY <1>4, <1>11, <2>1
    <3>2. FirstIter(Home(f))' = 0
      BY <2>1, <3>1 DEF FirstIter
    <3>4. Ph(Home(f))' = 0
      BY <2>1, <3>1, <3>2 DEF Ph
    <3>3. f = Cfo => OnTurn(Home(f))'
      BY <1>9, <2>1, <3>1, Homes DEF OnTurn, Pass, Standalone
    <3> QED
      BY <1>1, <2>1, <2>3, <3>1, <3>2, <3>3, <3>4 DEF FrontEndInv
<1> QED
  BY <1>3, <1>5, <1>6, <1>7 DEF Skeleton

\* All front ends are halted.
LEMMA HaltKeeps ==
  ASSUME Skeleton, Halt
  PROVE  Skeleton'
<1>1. \A s \in Subsystem : gw'[s] = Halted
  BY DEF Halt
<1>2. /\ \A f \in FrontEnd : f # Cfo => base'[f] = -1
      /\ base'[Cfo] = base[Cfo] /\ base[Cfo] \in {-1, 0}
      /\ \A f \in FrontEnd : sub'[f] = 0
  BY DEF Halt, BaseAfterHalt, FrontEnd, Skeleton, FrontEndInv
<1>3. SkeletonTypes'
  BY <1>2 DEF Halt, Halted, SkeletonTypes, BaseAfterHalt, EventSending, Standalone
<1>4. ASSUME NEW s \in Subsystem PROVE GatewayInv(s)'
  <2>1. gw'[s].state = "Halted" /\ gw'[s].turn = -1 /\ gw'[s].todo = {} /\ ~gw'[s].later
    BY <1>1 DEF Halted, Standalone
  <2> QED
    BY <2>1 DEF GatewayInv, OnTurn, Running, Standalone
<1>5. AllHalted'
  BY <1>1 DEF AllHalted, Halted
<1>6. ASSUME NEW f \in FrontEnd PROVE FrontEndInv(f)'
  <2>1. gw'[Home(f)] = Halted /\ Home(f)' = Home(f)
    BY <1>1, Homes DEF Home
  <2>2. gw'[Home(f)].state = "Halted" /\ gw'[Home(f)].turn = -1
    BY <2>1 DEF Halted, Standalone
  <2> QED
    BY <1>2, <2>1, <2>2 DEF FrontEndInv, OnTurn, Running, Standalone
<1> QED
  BY <1>3, <1>4, <1>5, <1>6 DEF Skeleton

\* A step that leaves gateways and front ends alone, a reboot among them.
LEMMA ElsewhereKeeps ==
  ASSUME Skeleton, UNCHANGED <<gw, base, sub>>
  PROVE  Skeleton'
BY OtherGateway, OtherFrontEnd DEF Skeleton, SkeletonTypes, AllHalted

-----------------------------------------------------------------------------
(* What a call of a front end comes to                                      *)

\* A reboot that a front end has not noticed is forgotten in its first call only.
Forgets(f) == stale' = stale \/ (IsFirst(f) /\ stale' = stale \ {f})

\* A call in the front end's pass is answered, left open, or fails the configure.
Answers(f, r) ==
  /\ IsCalled(f) /\ IsMyTurn(f) /\ Forgets(f)
  /\ base' = [base EXCEPT ![f] = BaseOf(f)] /\ Reply(f, r)
  /\ r = "more" => Ph(Home(f)) < Last(Home(f))
  /\ r = "done" => Ph(Home(f)) = Last(Home(f))

LeavesOpen(f) ==
  /\ IsCalled(f) /\ IsMyTurn(f) /\ Forgets(f)
  /\ base' = [base EXCEPT ![f] = BaseOf(f)] /\ UNCHANGED <<mode, gw, sub, failure, count>>

Fails(f, why) ==
  /\ IsCalled(f) /\ Forgets(f) /\ Throw(f, why)
  /\ base' = base \/ (IsMyTurn(f) /\ base' = [base EXCEPT ![f] = BaseOf(f)])

Answer == {"sub", "more", "done"}

\* The phase that an action of a front end is for.
LEMMA AtIs ==
  ASSUME Skeleton, NEW f \in FrontEnd, NEW p, At(f, p)
  PROVE  IsCalled(f) /\ IsMyTurn(f) /\ Ph(Home(f)) = p /\ (f = Cfo => Last(Home(f)) = 13)
         /\ Last(Home(f)) \in {12, 13}
BY PhaseIs, Homes DEF At, Last, EventSending, FinalSoftReset

LEMMA DtcCallIs ==
  ASSUME Skeleton, NEW d \in DTC, DtcCall(d)
  PROVE  /\ \/ \E r \in Answer : Answers(d, r)
            \/ LeavesOpen(d) /\ board' = board
            \/ \E why : Fails(d, why) /\ why # "notConverged"
         /\ UNCHANGED <<pass, cfo>>
<1> USE DEF ClocksA, ClocksB, ChainEnable, ChainCheck, CfoEdgeFix, SyncA, SyncB, SyncC, SyncD, SyncE,
            RocConfig, RocDataPath, FinalSoftReset, Answer
<1>0. d \in FrontEnd /\ d # Cfo
  BY DEF FrontEnd
<1>1. ASSUME NEW r \in Answer, NEW p \in 0 .. 11, At(d, p), Enter(d), Reply(d, r), r # "done"
      PROVE  Answers(d, r)
  BY <1>0, <1>1, AtIs DEF Answers, Enter, Forgets
<1>2. ASSUME NEW why, NEW p, At(d, p), Enter(d), Throw(d, why)
      PROVE  Fails(d, why)
  BY <1>0, <1>2, AtIs DEF Fails, Enter, Forgets
<1>3. CASE DtcClearsControl(d)
  BY <1>1, <1>3 DEF DtcClearsControl, ClockPhase
<1>4. CASE DtcSetsClock(d)
  BY <1>1, <1>4 DEF DtcSetsClock, ClockPhase
<1>5. CASE DtcPollsLock(d)
  BY <1>1, <1>5 DEF DtcPollsLock, ClockPhase
<1>6. CASE DtcEnablesLink(d)
  BY <1>1, <1>6 DEF DtcEnablesLink
<1>7. CASE DtcChecksLock(d)
  BY <1>1, <1>2, <1>7 DEF DtcChecksLock, Throw
<1>8. CASE DtcIdles(d)
  BY <1>1, <1>8 DEF DtcIdles
<1>9. CASE DtcWaitsForMarkers(d)
  BY <1>1, <1>2, <1>9 DEF DtcWaitsForMarkers, EdgePhase, Throw
<1>10. CASE DtcFindsEdgeClean(d)
  BY <1>1, <1>2, <1>10 DEF DtcFindsEdgeClean, EdgePhase, Throw
<1>11. CASE DtcFindsEdgeErrors(d)
  BY <1>1, <1>2, <1>11 DEF DtcFindsEdgeErrors, EdgePhase, Throw
<1>12. CASE DtcStartsOffset(d)
  BY <1>1, <1>12 DEF DtcStartsOffset, AtOffset, OffsetPhase
<1>13. CASE DtcWaitsForHistogram(d)
  BY <1>1, <1>2, <1>13 DEF DtcWaitsForHistogram, AtOffset, OffsetPhase, Throw
<1>14. CASE DtcAppliesOffset(d)
  BY <1>1, <1>14 DEF DtcAppliesOffset, AtOffset, OffsetPhase
<1>15. CASE DtcWaitsToVerify(d)
  BY <1>1, <1>2, <1>15 DEF DtcWaitsToVerify, AtOffset, OffsetPhase, Throw
<1>16. CASE DtcVerifiesOffset(d)
  <2>1. PICK p \in {7, 8} : At(d, p) /\ Enter(d)
    BY <1>16 DEF DtcVerifiesOffset, AtOffset, OffsetPhase
  <2>2. \/ (Reply(d, "more") \/ Reply(d, "sub")) /\ UNCHANGED <<pass, cfo>>
        \/ Throw(d, "offsetErrors")
    BY <1>16 DEF DtcVerifiesOffset
  <2> QED
    BY <1>1, <1>2, <2>1, <2>2 DEF Throw
<1>17. CASE DtcSetsUpROCs(d)
  BY <1>1, <1>17 DEF DtcSetsUpROCs
<1>18. CASE DtcConfiguresROCs(d)
  BY <1>1, <1>2, <1>18 DEF DtcConfiguresROCs, Throw
<1>19. CASE DtcReadsLinks(d)
  BY <1>0, <1>19, AtIs DEF DtcReadsLinks, LeavesOpen, Enter, Forgets
<1>20. CASE DtcSetsLinks(d)
  BY <1>1, <1>20 DEF DtcSetsLinks
<1>21. CASE DtcSetsDataPath(d)
  BY <1>1, <1>21 DEF DtcSetsDataPath
<1>22. CASE DtcFinalReset(d)
  <2>1. At(d, 12) /\ Ph(Home(d)) = 12 /\ IsCalled(d) /\ IsMyTurn(d)
    BY <1>0, <1>22, AtIs DEF DtcFinalReset
  <2>2. CASE TurnOf(d) = 0
    <3>1. Last(Home(d)) = 13
      BY <1>0, <2>2, Homes DEF Last, EventSending, Pass
    <3> QED
      BY <1>22, <2>1, <2>2, <3>1 DEF DtcFinalReset, Answers, Enter, Forgets
  <2>3. CASE TurnOf(d) # 0
    <3>1. Last(Home(d)) = 12
      BY <1>0, <2>3, Homes DEF Last, Pass
    <3> QED
      BY <1>22, <2>1, <2>3, <3>1 DEF DtcFinalReset, Answers, Enter, Forgets
  <2> QED
    BY <2>2, <2>3, <1>22 DEF DtcFinalReset
<1> QED
  BY <1>3, <1>4, <1>5, <1>6, <1>7, <1>8, <1>9, <1>10, <1>11, <1>12, <1>13, <1>14, <1>15, <1>16, <1>17,
     <1>18, <1>19, <1>20, <1>21, <1>22 DEF DtcCall

\* The CFO's call, the end of its edge-fix loop without convergence set apart.
GivesUp == EdgeFixing /\ Ph("cfo") = CfoEdgeFix /\ sub[Cfo] > 0 /\ pass.toggled /\ sub[Cfo] >= MaxPasses

LEMMA CfoCallIs ==
  ASSUME Skeleton, CfoCall
  PROVE  /\ \/ \E r \in Answer : Answers(Cfo, r)
            \/ LeavesOpen(Cfo)
            \/ \E why : Fails(Cfo, why) /\ (why = "notConverged" => GivesUp)
         /\ IsCalled(Cfo) /\ UNCHANGED looked
<1> USE DEF ClocksA, ClocksB, ChainEnable, ChainCheck, CfoEdgeFix, SyncA, SyncB, SyncC, SyncD, SyncE,
            RocConfig, RocDataPath, FinalSoftReset, EventSending, Answer
<1>0. Cfo \in FrontEnd /\ Home(Cfo) = "cfo"
  BY Homes DEF FrontEnd
<1>1. ASSUME NEW r \in Answer, NEW p \in 0 .. 12, At(Cfo, p), Forgets(Cfo), Reply(Cfo, r), r # "done",
             base' = [base EXCEPT ![Cfo] = BaseOf(Cfo)]
      PROVE  Answers(Cfo, r) /\ IsCalled(Cfo)
  BY <1>0, <1>1, AtIs DEF Answers
<1>2. ASSUME NEW why, NEW p, At(Cfo, p), Enter(Cfo), Throw(Cfo, why)
      PROVE  Fails(Cfo, why) /\ IsCalled(Cfo) /\ UNCHANGED looked
  BY <1>0, <1>2, AtIs DEF Fails, Enter, Forgets, Throw
<1>3. CASE CfoClearsControl
  BY <1>1, <1>3 DEF CfoClearsControl, Enter, Forgets
<1>4. CASE CfoSetsClock
  BY <1>1, <1>4 DEF CfoSetsClock, Enter, Forgets
<1>5. CASE CfoPollsLock
  BY <1>1, <1>5 DEF CfoPollsLock, Enter, Forgets
<1>6. CASE CfoEnablesChain
  <2>1. base' = [base EXCEPT ![Cfo] = BaseOf(Cfo)]
    BY <1>6 DEF CfoEnablesChain, BaseAfterHalt
  <2>2. At(Cfo, 2) /\ Reply(Cfo, "more") /\ UNCHANGED <<stale, looked>>
    BY <1>6 DEF CfoEnablesChain
  <2> QED
    BY <1>1, <2>1, <2>2 DEF Forgets
<1>7. CASE CfoChecksLocks
  <2>1. At(Cfo, 3) /\ Enter(Cfo)
    BY <1>7 DEF CfoChecksLocks
  <2>2. \/ (Reply(Cfo, "more") \/ Reply(Cfo, "sub")) /\ UNCHANGED looked
        \/ Throw(Cfo, "noLock")
    BY <1>7 DEF CfoChecksLocks
  <2> QED
    BY <1>1, <1>2, <2>1, <2>2 DEF Enter, Forgets
<1>8. CASE CfoIdles
  <2>1. PICK p \in 0 .. 13 : At(Cfo, p) /\ CfoIdlePhase(p)
    BY <1>8 DEF CfoIdles
  <2>2. p # 13
    BY <2>1 DEF CfoIdlePhase
  <2> QED
    BY <1>1, <1>8, <2>1, <2>2 DEF CfoIdles, Enter, Forgets
<1>9. CASE CfoValidatesRTF
  BY <1>1, <1>2, <1>9 DEF CfoValidatesRTF, AtEdgeFix, Enter, Forgets
<1>10. ASSUME At(Cfo, CfoEdgeFix), base' = base
       PROVE  base' = [base EXCEPT ![Cfo] = BaseOf(Cfo)]
  <2>1. base[Cfo] = BaseOf(Cfo)
    <3>1. Ph("cfo") = 4 /\ BaseOf(Cfo) = FirstIter("cfo") /\ FrontEndInv(Cfo) /\ IsCalled(Cfo) /\ IsMyTurn(Cfo)
      BY <1>0, <1>10, AtIs, PhaseIs DEF Skeleton
    <3> QED
      BY <1>0, <3>1, Homes DEF FrontEndInv, IsCalled, Running
  <2> QED
    BY <1>0, <1>10, <2>1 DEF Skeleton, SkeletonTypes
<1>11. ASSUME NEW d \in CfoHome, CfoFixesEdge(d)
       PROVE  LeavesOpen(Cfo) /\ IsCalled(Cfo) /\ UNCHANGED looked
  BY <1>0, <1>10, <1>11, AtIs DEF CfoFixesEdge, AtEdgeFix, LeavesOpen, Forgets
<1>12. ASSUME NEW d \in CfoHome, CfoFindsNoMarkers(d)
       PROVE  Fails(Cfo, "noMarkers") /\ IsCalled(Cfo) /\ UNCHANGED looked
  BY <1>0, <1>12, AtIs DEF CfoFindsNoMarkers, AtEdgeFix, Fails, Forgets, Throw
<1>13. CASE CfoEndsPass
  <2>1. EdgeFixing /\ At(Cfo, 4) /\ sub[Cfo] > 0 /\ UNCHANGED <<base, stale>>
    BY <1>13 DEF CfoEndsPass, AtEdgeFix
  <2>2. \/ (Reply(Cfo, "more") \/ Reply(Cfo, "sub")) /\ UNCHANGED looked
        \/ pass.toggled /\ sub[Cfo] >= MaxPasses /\ Throw(Cfo, "notConverged")
    BY <1>13 DEF CfoEndsPass
  <2>3. CASE (Reply(Cfo, "more") \/ Reply(Cfo, "sub")) /\ UNCHANGED looked
    BY <1>1, <1>10, <2>1, <2>3 DEF Forgets
  <2>4. CASE pass.toggled /\ sub[Cfo] >= MaxPasses /\ Throw(Cfo, "notConverged")
    BY <1>0, <2>1, <2>4, AtIs DEF Fails, Forgets, GivesUp, Throw
  <2> QED
    BY <2>2, <2>3, <2>4
<1>14. CASE CfoStopsEvents
  BY <1>1, <1>14 DEF CfoStopsEvents, Enter, Forgets
<1>15. CASE CfoFinalReset
  BY <1>1, <1>15 DEF CfoFinalReset, Enter, Forgets
<1>16. CASE CfoEnablesOperation
  BY <1>0, <1>16, AtIs DEF CfoEnablesOperation, Enter, Forgets, Answers
<1> QED
  BY <1>3, <1>4, <1>5, <1>6, <1>7, <1>8, <1>9, <1>11, <1>12, <1>13, <1>14, <1>15, <1>16 DEF CfoCall

\* The DTCs next to the CFO idle in its last phase.
LEMMA PastLastIs ==
  ASSUME Skeleton, NEW f \in FrontEnd, PastLast(f)
  PROVE  Answers(f, "done") /\ Ph(Home(f)) = 13 /\ UNCHANGED <<looked, retried, pass, cfo, board>>
<1>1. /\ IsCalled(f) /\ IsMyTurn(f) /\ Enter(f) /\ Reply(f, "done")
      /\ Phase(f) > IF f = Cfo THEN 13 ELSE 12
      /\ UNCHANGED <<looked, retried, pass, cfo, board>>
  BY DEF PastLast, EventSending, FinalSoftReset
<1>2. Phase(f) = Ph(Home(f)) /\ Ph(Home(f)) \in 0 .. Last(Home(f)) /\ Last(Home(f)) \in {12, 13}
  BY <1>1, PhaseIs DEF Last, EventSending, FinalSoftReset
<1>3. Ph(Home(f)) = 13 /\ Last(Home(f)) = 13
  BY <1>1, <1>2
<1> QED
  BY <1>1, <1>3 DEF Answers, Enter, Forgets

LEMMA NoticeIs ==
  ASSUME Skeleton, NEW f \in FrontEnd, NoticesReboot(f)
  PROVE  Fails(f, "rebooted")
BY DEF NoticesReboot, Fails, Forgets

\* Whatever the step, gateways and front ends stay in order.
LEMMA SkeletonKept ==
  ASSUME Skeleton, [Next]_vars
  PROVE  Skeleton'
<1>1. ASSUME NEW f \in FrontEnd, NEW r \in Answer, Answers(f, r) PROVE Skeleton'
  BY <1>1, AnswerKeeps DEF Answers, Answer
<1>2. ASSUME NEW f \in FrontEnd, LeavesOpen(f) PROVE Skeleton'
  BY <1>2, SilenceKeeps DEF LeavesOpen
<1>3. ASSUME NEW f \in FrontEnd, NEW why, Fails(f, why) PROVE Skeleton'
  BY <1>3, ThrowKeeps DEF Fails
<1>4. ASSUME NEW d \in DTC, DtcCall(d) PROVE Skeleton'
  <2>1. d \in FrontEnd
    BY DEF FrontEnd
  <2> QED
    BY <1>1, <1>2, <1>3, <1>4, <2>1, DtcCallIs
<1>5. CASE CfoCall
  <2>1. Cfo \in FrontEnd
    BY DEF FrontEnd
  <2> QED
    BY <1>1, <1>2, <1>3, <1>5, <2>1, CfoCallIs
<1>6. ASSUME NEW f \in FrontEnd, NoticesReboot(f) \/ Waits(f) \/ PastLast(f) PROVE Skeleton'
  BY <1>1, <1>3, <1>6, NoticeIs, PastLastIs, WaitsKeeps DEF Answer
<1>7. ASSUME NEW b \in MayReboot, Reboot(b) PROVE Skeleton'
  BY <1>7, ElsewhereKeeps DEF Reboot
<1>8. CASE UNCHANGED vars
  BY <1>8, ElsewhereKeeps DEF vars
<1> QED
  BY <1>4, <1>5, <1>6, <1>7, <1>8, IterationKeeps, TurnKeeps, ConfigureKeeps, HaltKeeps DEF Next, System

LEMMA SkeletonInit == Init => Skeleton
<1> SUFFICES ASSUME Init PROVE Skeleton
  OBVIOUS
<1>1. SkeletonTypes
  <2>1. \A s \in Subsystem : gw[s] = Halted
    BY DEF Init
  <2>2. Halted \in [state : {"Halted", "Configuring", "PassDone", "Configured", "Failed"},
          turn : -1 .. 1, iter : 0 .. EventSending + 1, todo : SUBSET FrontEnd,
          more : BOOLEAN, later : BOOLEAN]
    <3>1. 0 \in 0 .. EventSending + 1 /\ -1 \in -1 .. 1 /\ {} \in SUBSET FrontEnd
      BY DEF EventSending
    <3> QED
      BY <3>1, GatewayRecord, Zenon DEF Halted, Standalone
  <2> QED
    BY <2>2 DEF Init, SkeletonTypes
<1>2. AllHalted
  BY DEF Init, AllHalted, Halted
<1>3. ASSUME NEW s \in Subsystem PROVE GatewayInv(s)
  <2>1. gw[s].state = "Halted" /\ gw[s].turn = Standalone /\ gw[s].todo = {} /\ ~gw[s].later
    BY DEF Init, Halted
  <2> QED
    BY <2>1 DEF GatewayInv, OnTurn, Running, Standalone
<1>4. ASSUME NEW f \in FrontEnd PROVE FrontEndInv(f)
  <2>1. gw[Home(f)].state = "Halted" /\ gw[Home(f)].turn = Standalone
    BY Homes DEF Init, Halted
  <2>2. base[f] = -1 /\ sub[f] = 0
    BY DEF Init
  <2> QED
    BY <2>1, <2>2 DEF FrontEndInv, OnTurn, Running, Standalone
<1> QED
  BY <1>1, <1>2, <1>3, <1>4 DEF Skeleton

-----------------------------------------------------------------------------
(* How far a front end is in its pass                                       *)

\* A front end is past a phase once it has answered "more" or "done" in it; it is within
\* the phase that its gateway calls it for until then.
Past(f, p) ==
  LET s == Home(f) IN
  /\ OnTurn(s)
  /\ \/ gw[s].state = "Configured"
     \/ Running(s) /\ (Ph(s) > p \/ (Ph(s) = p /\ f \notin gw[s].todo))

Within(f, p) ==
  LET s == Home(f) IN Running(s) /\ OnTurn(s) /\ Ph(s) = p /\ f \in gw[s].todo

LEMMA GwStill ==
  ASSUME UNCHANGED gw, NEW g, NEW p
  PROVE  Past(g, p)' = Past(g, p) /\ Within(g, p)' = Within(g, p)
BY DEF Past, Within, OnTurn, Running, Ph, FirstIter, Home

LEMMA SameGateway ==
  ASSUME NEW g, NEW p, gw'[Home(g)] = gw[Home(g)]
  PROVE  (Past(g, p)' <=> Past(g, p)) /\ (Within(g, p)' <=> Within(g, p))
BY DEF Past, Within, OnTurn, Running, Ph, FirstIter, Home

LEMMA AnswerMoves ==
  ASSUME Skeleton, NEW f \in FrontEnd, NEW r \in Answer, IsCalled(f), IsMyTurn(f), Reply(f, r),
         NEW g \in FrontEnd, NEW p
  PROVE  /\ Past(g, p)' <=> Past(g, p) \/ (g = f /\ r # "sub" /\ Within(f, p))
         /\ Within(g, p)' <=> Within(g, p) /\ ~(g = f /\ r # "sub")
         /\ sub'[g] = IF g = f THEN IF r = "sub" THEN sub[f] + 1 ELSE 0 ELSE sub[g]
         /\ gw'[Home(g)].state = gw[Home(g)].state
         /\ UNCHANGED <<mode, failure, count>>
<1> DEFINE s == Home(f)
<1>0. s \in Subsystem /\ Running(s) /\ OnTurn(s) /\ f \in gw[s].todo
  BY Homes DEF IsCalled, Running
<1>1. /\ \A t \in Subsystem : t # s => gw'[t] = gw[t]
      /\ gw'[s].state = gw[s].state /\ gw'[s].turn = gw[s].turn /\ gw'[s].iter = gw[s].iter
      /\ gw'[s].todo = IF r = "sub" THEN gw[s].todo ELSE gw[s].todo \ {f}
  BY ReplyGateway DEF Answer, Skeleton
<1>2. sub'[g] = IF g = f THEN IF r = "sub" THEN sub[f] + 1 ELSE 0 ELSE sub[g]
  BY DEF Reply, Skeleton, SkeletonTypes
<1>3. UNCHANGED <<mode, failure, count>>
  BY DEF Reply
<1>4. CASE Home(g) # s
  <2>1. gw'[Home(g)] = gw[Home(g)] /\ g # f
    BY <1>1, <1>4, Homes
  <2> QED
    BY <1>2, <1>3, <2>1, SameGateway
<1>5. CASE Home(g) = s
  <2>1. /\ OnTurn(s)' /\ Running(s)' /\ Ph(s)' = Ph(s) /\ Home(g)' = s
        /\ gw'[s].state = "Configuring" /\ gw[s].state = "Configuring"
    BY <1>0, <1>1, <1>5 DEF OnTurn, Running, Ph, FirstIter, Pass, Home
  <2>2. CASE g # f
    <3>1. g \in gw'[s].todo <=> g \in gw[s].todo
      BY <1>1, <2>2
    <3> QED
      BY <1>0, <1>1, <1>2, <1>3, <1>5, <2>1, <2>2, <3>1 DEF Past, Within
  <2>3. CASE g = f
    <3>1. f \in gw'[s].todo <=> r = "sub"
      BY <1>0, <1>1
    <3>2. Ph(s) > p => Ph(s) # p
      <4>1. Ph(s) \in Int
        BY <1>0, PhaseIs DEF Last, EventSending, FinalSoftReset
      <4> QED
        BY <4>1
    <3> QED
      BY <1>0, <1>1, <1>2, <1>3, <1>5, <2>1, <2>3, <3>1, <3>2 DEF Past, Within
  <2> QED
    BY <2>2, <2>3
<1> QED
  BY <1>4, <1>5

LEMMA FailMoves ==
  ASSUME Skeleton, NEW f \in FrontEnd, NEW why, Fails(f, why), NEW g \in FrontEnd, NEW p
  PROVE  /\ Past(g, p)' <=> Past(g, p) /\ Home(g) # Home(f)
         /\ Within(g, p)' <=> Within(g, p) /\ Home(g) # Home(f)
         /\ gw'[Home(f)].state = "Failed" /\ (Home(g) # Home(f) => gw'[Home(g)] = gw[Home(g)])
         /\ failure' = why /\ UNCHANGED <<mode, sub, looked, retried, pass, cfo, board, count>>
<1>1. /\ Home(f) \in Subsystem /\ gw' = [gw EXCEPT ![Home(f)].state = "Failed"] /\ failure' = why
      /\ UNCHANGED <<mode, sub, looked, retried, pass, cfo, board, count>>
  BY Homes DEF Fails, Throw
<1>2. gw'[Home(f)].state = "Failed" /\ \A t \in Subsystem : t # Home(f) => gw'[t] = gw[t]
  BY <1>1 DEF Skeleton, SkeletonTypes
<1>3. CASE Home(g) # Home(f)
  BY <1>1, <1>2, <1>3, Homes, SameGateway
<1>4. CASE Home(g) = Home(f)
  BY <1>1, <1>2, <1>4 DEF Past, Within, Running, Home
<1> QED
  BY <1>3, <1>4

LEMMA WaitMoves ==
  ASSUME Skeleton, NEW f \in FrontEnd, Waits(f), NEW g \in FrontEnd, NEW p
  PROVE  /\ Past(g, p)' <=> Past(g, p)
         /\ Within(g, p)' <=> Within(g, p)
         /\ sub'[g] = sub[g] /\ Forgets(f) /\ gw'[Home(g)].state = gw[Home(g)].state
         /\ UNCHANGED <<mode, base, looked, retried, pass, cfo, board, failure, count>>
<1> DEFINE s == Home(f)
<1>0. /\ s \in Subsystem /\ Running(s) /\ ~OnTurn(s) /\ Reply(f, "later") /\ f \in gw[s].todo
      /\ UNCHANGED <<mode, looked, retried, pass, cfo, board, failure, count>> /\ Forgets(f)
  BY Homes DEF Waits, IsCalled, Running, Reply, Forgets
<1>1. /\ \A t \in Subsystem : t # s => gw'[t] = gw[t]
      /\ gw'[s].state = gw[s].state /\ gw'[s].turn = gw[s].turn
  BY <1>0, ReplyGateway DEF Skeleton
<1>2. base[f] = -1 /\ sub[f] = 0
  BY <1>0 DEF Skeleton, FrontEndInv, Running
<1>3. base' = base /\ sub'[g] = sub[g]
  BY <1>0, <1>2 DEF Waits, Reply, Skeleton, SkeletonTypes
<1>4. CASE Home(g) # s
  BY <1>0, <1>1, <1>3, <1>4, Homes, SameGateway
<1>5. CASE Home(g) = s
  <2>1. ~OnTurn(s)' /\ Home(g)' = s
    BY <1>0, <1>1, <1>5 DEF OnTurn, Pass, Home
  <2> QED
    BY <1>0, <1>1, <1>3, <1>5, <2>1 DEF Past, Within
<1> QED
  BY <1>4, <1>5

LEMMA IterationMoves ==
  ASSUME Skeleton, NEW s \in Subsystem, EndsIteration(s), NEW g \in FrontEnd, NEW p \in 0 .. Last(Home(g))
  PROVE  /\ Past(g, p)' <=> Past(g, p)
         /\ Home(g) # s => (Within(g, p)' <=> Within(g, p)) /\ gw'[Home(g)] = gw[Home(g)]
         /\ Home(g) = s => sub[g] = 0 /\ ~Within(g, p) /\ (Within(g, p)' => p > 0 /\ Past(g, p - 1))
         /\ UNCHANGED <<mode, base, sub, stale, looked, retried, pass, cfo, board, failure, count>>
<1>0. UNCHANGED <<mode, base, sub, stale, looked, retried, pass, cfo, board, failure, count>>
  BY DEF EndsIteration
<1>1. CASE Home(g) # s
  <2>1. gw'[Home(g)] = gw[Home(g)]
    BY <1>1, Homes DEF EndsIteration, Skeleton, SkeletonTypes
  <2> QED
    BY <1>0, <1>1, <2>1, SameGateway
<1>2. CASE Home(g) = s
  <2>1. /\ Running(s) /\ gw[s].todo = {} /\ GatewayInv(s) /\ Home(g)' = s
        /\ g \in FEs(s) /\ g \in Replied(s) /\ gw[s].state = "Configuring"
    BY <1>2, Homes DEF EndsIteration, Running, Skeleton, Home, Replied
  <2>2. /\ gw[s].turn \in -1 .. 1 /\ gw[s].iter \in 0 .. 14 /\ gw[s].more \in BOOLEAN
        /\ gw[s].later \in BOOLEAN
    BY DEF Skeleton, SkeletonTypes, EventSending
  <2>3. FirstIter(s) \in {0, 1} /\ Last(s) \in {12, 13} /\ Ph(s) \in Int
    BY <2>2 DEF FirstIter, Last, EventSending, FinalSoftReset, Ph
  <2>4. sub[g] = 0
    BY <1>2, <2>1 DEF Skeleton, FrontEndInv
  <2>5. ~Within(g, p)
    BY <1>2, <2>1 DEF Within
  <2>6. CASE gw[s].more
    <3>1. gw'[s] = [gw[s] EXCEPT !.iter = gw[s].iter + 1, !.todo = FEs(s), !.more = FALSE]
      BY <2>6 DEF EndsIteration, Skeleton, SkeletonTypes
    <3>2. /\ gw'[s].state = "Configuring" /\ gw'[s].turn = gw[s].turn /\ gw'[s].iter = gw[s].iter + 1
          /\ gw'[s].todo = FEs(s)
      BY <2>1, <3>1 DEF Skeleton, SkeletonTypes
    <3>3. OnTurn(s)
      BY <2>1, <2>6 DEF GatewayInv
    <3>4. OnTurn(s)' /\ Running(s)' /\ Ph(s)' = Ph(s) + 1
      BY <2>2, <3>2, <3>3 DEF OnTurn, Running, Ph, FirstIter, Pass
    <3>5. Past(g, p)' <=> Ph(s) + 1 > p
      BY <1>2, <2>1, <3>2, <3>4 DEF Past
    <3>6. Past(g, p) <=> Ph(s) >= p
      BY <1>2, <2>1, <2>3, <3>3 DEF Past
    <3>7. Within(g, p)' => Ph(s) + 1 = p
      BY <1>2, <2>1, <3>4 DEF Within
    <3>8. p > 0 /\ Ph(s) = p - 1 => Past(g, p - 1)
      BY <1>2, <2>1, <2>3, <3>3 DEF Past
    <3>9. Ph(s) + 1 = p => p > 0 /\ Ph(s) = p - 1
      BY <2>1, <2>3, <3>3 DEF GatewayInv
    <3> QED
      BY <1>0, <1>2, <2>3, <2>4, <2>5, <3>5, <3>6, <3>7, <3>8, <3>9
  <2>7. CASE ~gw[s].more
    <3>1. gw'[s] = [gw[s] EXCEPT !.state = IF gw[s].later THEN "PassDone" ELSE "Configured"]
      BY <2>7 DEF EndsIteration, Skeleton, SkeletonTypes
    <3>2. /\ gw'[s].state = IF gw[s].later THEN "PassDone" ELSE "Configured"
          /\ gw'[s].turn = gw[s].turn
      BY <2>1, <3>1 DEF Skeleton, SkeletonTypes
    <3>3. OnTurn(s)' = OnTurn(s) /\ ~Running(s)'
      BY <3>2 DEF OnTurn, Running, Pass
    <3>4. OnTurn(s) => ~gw[s].later /\ Ph(s) = Last(s)
      BY <2>1, <2>3, <2>7 DEF GatewayInv
    <3>5. Past(g, p)' <=> OnTurn(s)
      BY <1>2, <2>1, <3>2, <3>3, <3>4 DEF Past
    <3>6. Past(g, p) <=> OnTurn(s)
      BY <1>2, <2>1, <2>3, <3>4 DEF Past
    <3>7. ~Within(g, p)'
      BY <2>1, <3>3 DEF Within
    <3> QED
      BY <1>0, <1>2, <2>4, <2>5, <3>5, <3>6, <3>7
  <2> QED
    BY <2>6, <2>7
<1> QED
  BY <1>1, <1>2

LEMMA TurnMoves ==
  ASSUME Skeleton, NextTurn, NEW g \in FrontEnd, NEW p \in 0 .. 13
  PROVE  /\ Past(g, p)' <=> Past(g, p)
         /\ Within(g, p)' => p = 0 /\ sub[g] = 0
         /\ gw["cfo"].state = "Configured" /\ gw[Home(g)].state \in {"PassDone", "Configured"}
         /\ UNCHANGED <<mode, base, sub, stale, looked, retried, pass, cfo, board, failure, count>>
<1>0. /\ UNCHANGED <<mode, base, sub, stale, looked, retried, pass, cfo, board, failure, count>>
      /\ gw[Home(g)].state \in {"PassDone", "Configured"}
  BY Homes DEF NextTurn
<1>1. CASE Home(g) = "cfo"
  <2>1. ~Within(g, p)
    BY <1>1, TurnBegins DEF Within, Running
  <2> QED
    BY <1>0, <1>1, <2>1, TurnBegins, SameGateway
<1>2. CASE Home(g) = "detector"
  <2>1. /\ gw'["detector"].state = "Configuring" /\ gw'["detector"].turn = 1
        /\ gw'["detector"].iter = 1 /\ gw'["detector"].todo = FEs("detector")
    BY TurnBegins
  <2>2. Running("detector")' /\ Ph("detector")' = 0 /\ Home(g)' = "detector" /\ g \in FEs("detector")
    BY <1>2, <2>1, Homes DEF Running, Ph, FirstIter, Home
  <2>3. ~Past(g, p)' /\ (Within(g, p)' => p = 0)
    BY <2>1, <2>2 DEF Past, Within
  <2>4. ~Past(g, p) /\ sub[g] = 0
    BY <1>2, TurnBegins DEF Past, Skeleton, FrontEndInv
  <2> QED
    BY <1>0, <2>3, <2>4, TurnBegins
<1> QED
  BY <1>1, <1>2, Homes DEF Subsystem

LEMMA ConfigureMoves ==
  ASSUME Skeleton, NEW m \in Modes, Configure(m), NEW g \in FrontEnd, NEW p \in 0 .. 13
  PROVE  /\ ~Past(g, p)' /\ (Within(g, p)' => p = 0 /\ sub[g] = 0)
         /\ gw[Home(g)].state = "Halted" /\ gw'[Home(g)].state # "Failed"
         /\ mode' = m /\ failure' = "none"
         /\ UNCHANGED <<base, sub, stale, looked, retried, pass, cfo, board>>
<1>1. /\ gw'[Home(g)].state = "Configuring" /\ gw'[Home(g)].todo = FEs(Home(g))
      /\ gw'[Home(g)].iter = 0 /\ gw'[Home(g)].turn \in {-1, 0} /\ gw[Home(g)].state = "Halted"
      /\ mode' = m /\ failure' = "none"
      /\ UNCHANGED <<base, sub, stale, looked, retried, pass, cfo, board>>
  <2> DEFINE k == IF TopLevel THEN 0 ELSE Standalone
  <2>1. k \in {-1, 0}
    BY DEF Standalone
  <2>2. gw' = [s \in Subsystem |->
                 [Halted EXCEPT !.state = "Configuring", !.todo = FEs(s), !.turn = k]]
    BY DEF Configure
  <2>3. Home(g) \in Subsystem
    BY Homes
  <2> HIDE DEF k
  <2>4. /\ gw'[Home(g)].state = "Configuring" /\ gw'[Home(g)].todo = FEs(Home(g))
        /\ gw'[Home(g)].iter = 0 /\ gw'[Home(g)].turn = k
    BY <2>2, <2>3 DEF Halted
  <2> QED
    BY <2>1, <2>3, <2>4 DEF Configure
<1>2. FirstIter(Home(g))' = 0
  BY <1>1 DEF FirstIter, Home
<1>3. Ph(Home(g))' = 0 /\ Home(g)' = Home(g) /\ g \in FEs(Home(g))
  BY <1>1, <1>2, Homes DEF Ph, Home
<1>4. ~Past(g, p)' /\ (Within(g, p)' => p = 0)
  BY <1>1, <1>3 DEF Past, Within
<1>5. sub[g] = 0
  BY <1>1, Homes DEF Skeleton, FrontEndInv, GatewayInv
<1> QED
  BY <1>1, <1>4, <1>5

LEMMA HaltMoves ==
  ASSUME Halt, NEW g \in FrontEnd, NEW p
  PROVE  ~Past(g, p)' /\ ~Within(g, p)'
<1>1. gw'[Home(g)].state = "Halted"
  BY Homes DEF Halt, Halted
<1> QED
  BY <1>1 DEF Past, Within, Running, Home

-----------------------------------------------------------------------------
(* The hardware's registers                                                 *)

BoardRegisters ==
  [ja : BOOLEAN, rx : BOOLEAN, stuck : BOOLEAN, edge : BOOLEAN, err : BOOLEAN,
   links : {"off", "emulated", "plain"}, dcs : BOOLEAN, drp : BOOLEAN,
   evb : BOOLEAN, offset : BOOLEAN]
CfoRegisters ==
  [ja : BOOLEAN, links : BOOLEAN, markers : BOOLEAN, events : BOOLEAN, rf0 : BOOLEAN]

BoardTypes == board \in [Board -> BoardRegisters]
BookTypes ==
  /\ mode \in Modes /\ stale \subseteq DTC /\ retried \subseteq DTC
  /\ count \in [configures : 0 .. MaxConfigures, reboots : SUBSET MayReboot]
  /\ looked \in [DTC -> {"not", "off", "emulated", "plain"}]
  /\ pass \in [left : SUBSET CfoHome, toggled : BOOLEAN, clean : 0 .. 1]
  /\ cfo \in CfoRegisters
Types == Skeleton /\ BookTypes /\ BoardTypes

LEMMA TypesAre == Types => TypeOK
BY DEF Types, Skeleton, SkeletonTypes, BookTypes, BoardTypes, BoardRegisters, CfoRegisters, TypeOK

\* What configuring the clock and the chain brings about on a board and no call takes back.
Keeps(x) ==
  /\ board[x].ja => board'[x].ja
  /\ board[x].rx => board'[x].rx
  /\ board[x].offset => board'[x].offset
  /\ board'[x].stuck => board[x].stuck

LEMMA OneBoard ==
  ASSUME BoardTypes, NEW b \in Board, NEW r \in BoardRegisters, board' = [board EXCEPT ![b] = r]
  PROVE  BoardTypes' /\ board'[b] = r /\ \A x \in Board : x # b => board'[x] = board[x]
BY DEF BoardTypes

LEMMA ToggledBoards ==
  ASSUME BoardTypes, NEW b \in Board, NEW turned \in SUBSET Downstream(b), NEW latched \in SUBSET Downstream(b),
         board' = Toggled(b, turned, latched)
  PROVE  /\ BoardTypes'
         /\ board'[b].edge = ~board[b].edge /\ board'[b].err = FALSE
         /\ \A x \in Board : x < b => board'[x].edge = board[x].edge /\ board'[x].err = board[x].err
         /\ \A x \in Board : /\ Keeps(x) /\ board'[x].stuck = board[x].stuck
                             /\ board'[x].ja = board[x].ja /\ board'[x].rx = board[x].rx
                             /\ board'[x].links = board[x].links /\ board'[x].dcs = board[x].dcs
                             /\ board'[x].drp = board[x].drp /\ board'[x].evb = board[x].evb
<1>1. ASSUME NEW x \in Board
      PROVE  board'[x] = IF x = b THEN [board[x] EXCEPT !.edge = ~board[x].edge, !.err = FALSE]
                         ELSE [board[x] EXCEPT !.edge = IF x \in turned THEN ~board[x].edge ELSE board[x].edge,
                                               !.err = board[x].err \/ x \in latched]
  BY DEF Toggled
<1>2. ASSUME NEW x \in Board
      PROVE  /\ board'[x] \in BoardRegisters
             /\ board'[x].ja = board[x].ja /\ board'[x].rx = board[x].rx
             /\ board'[x].offset = board[x].offset /\ board'[x].stuck = board[x].stuck
             /\ board'[x].links = board[x].links /\ board'[x].dcs = board[x].dcs
             /\ board'[x].drp = board[x].drp /\ board'[x].evb = board[x].evb
             /\ x = b => board'[x].edge = ~board[x].edge /\ board'[x].err = FALSE
             /\ x < b => board'[x].edge = board[x].edge /\ board'[x].err = board[x].err
  <2>1. board[x] \in BoardRegisters
    BY DEF BoardTypes
  <2>2. CASE x = b
    <3> DEFINE e == ~board[x].edge
    <3>1. e \in BOOLEAN /\ board'[x] = [board[x] EXCEPT !.edge = e, !.err = FALSE] /\ ~(x < b)
      <4>1. ~(x < b)
        BY <2>2 DEF Board
      <4>2. board'[x] = [board[x] EXCEPT !.edge = e, !.err = FALSE]
        BY <1>1, <2>2
      <4> QED
        BY <4>1, <4>2
    <3>2. board'[b].edge = e
      <4> HIDE DEF e
      <4> QED
        BY <2>1, <2>2, <3>1 DEF BoardRegisters
    <3> HIDE DEF e
    <3>3. /\ board'[x] \in BoardRegisters /\ board'[x].err = FALSE
          /\ board'[x].ja = board[x].ja /\ board'[x].rx = board[x].rx
          /\ board'[x].offset = board[x].offset /\ board'[x].stuck = board[x].stuck
          /\ board'[x].links = board[x].links /\ board'[x].dcs = board[x].dcs
          /\ board'[x].drp = board[x].drp /\ board'[x].evb = board[x].evb
      BY <2>1, <3>1 DEF BoardRegisters
    <3> QED
      BY <2>2, <3>1, <3>2, <3>3 DEF e
  <2>3. CASE x # b
    <3> DEFINE e == IF x \in turned THEN ~board[x].edge ELSE board[x].edge
               l == board[x].err \/ x \in latched
    <3>1. e \in BOOLEAN /\ l \in BOOLEAN /\ board'[x] = [board[x] EXCEPT !.edge = e, !.err = l]
      BY <1>1, <2>1, <2>3 DEF BoardRegisters
    <3>2. x < b => e = board[x].edge /\ l = board[x].err
      BY <2>1 DEF Downstream, Board, BoardRegisters
    <3> HIDE DEF e, l
    <3>3. /\ board'[x] \in BoardRegisters /\ board'[x].edge = e /\ board'[x].err = l
          /\ board'[x].ja = board[x].ja /\ board'[x].rx = board[x].rx
          /\ board'[x].offset = board[x].offset /\ board'[x].stuck = board[x].stuck
          /\ board'[x].links = board[x].links /\ board'[x].dcs = board[x].dcs
          /\ board'[x].drp = board[x].drp /\ board'[x].evb = board[x].evb
      BY <2>1, <3>1 DEF BoardRegisters
    <3> QED
      BY <2>3, <3>2, <3>3
  <2> QED
    BY <2>2, <2>3
<1>3. BoardTypes'
  BY <1>2 DEF Toggled, BoardTypes
<1> QED
  BY <1>2, <1>3 DEF Keeps

\* The calls of a DTC front end take nothing back on its board, and leave the ROC links and
\* the data path of the others alone.
DtcEffect(d) ==
  /\ BoardTypes'
  /\ \A x \in Board : Keeps(x) /\ board'[x].stuck = board[x].stuck
  /\ \A x \in Board : x # BoardOf[d] =>
       /\ board'[x].links = board[x].links /\ board'[x].dcs = board[x].dcs
       /\ board'[x].drp = board[x].drp /\ board'[x].evb = board[x].evb

LEMMA DtcEffects ==
  ASSUME BoardTypes, NEW d \in DTC, DtcCall(d)
  PROVE  DtcEffect(d)
<1> DEFINE b == BoardOf[d]
           Writes(r) == r \in BoardRegisters /\ board' = [board EXCEPT ![b] = r]
           Holds(r)  == /\ board[b].ja => r.ja
                        /\ board[b].rx => r.rx
                        /\ board[b].offset => r.offset
                        /\ r.stuck = board[b].stuck
<1>0. b \in Board /\ board[b] \in BoardRegisters
  BY DEF BoardTypes
<1>1. ASSUME NEW r, Writes(r), Holds(r) PROVE DtcEffect(d)
  <2>1. BoardTypes' /\ board'[b] = r /\ \A x \in Board : x # b => board'[x] = board[x]
    BY <1>0, <1>1, OneBoard
  <2> QED
    BY <1>1, <2>1 DEF DtcEffect, Keeps
<1>2. ASSUME UNCHANGED board PROVE DtcEffect(d)
  BY <1>2 DEF DtcEffect, Keeps, BoardTypes
<1>3. CASE DtcClearsControl(d)
  <2> DEFINE r == [board[b] EXCEPT !.dcs = FALSE, !.drp = FALSE, !.evb = FALSE,
                                   !.links = IF d \in RealROCs THEN "off" ELSE board[b].links]
  <2>1. board' = [board EXCEPT ![b] = r]
    BY <1>3 DEF DtcClearsControl, ControlCleared
  <2>2. r \in BoardRegisters /\ Holds(r)
    BY <1>0 DEF BoardRegisters
  <2> HIDE DEF r
  <2> QED
    BY <1>1, <2>1, <2>2
<1>4. CASE DtcPollsLock(d)
  <2>1. PICK lock \in {board[b].ja, TRUE} : board' = [board EXCEPT ![b].ja = lock]
    BY <1>4 DEF DtcPollsLock
  <2> DEFINE r == [board[b] EXCEPT !.ja = lock]
  <2>2. board' = [board EXCEPT ![b] = r]
    BY <2>1
  <2>3. r \in BoardRegisters /\ Holds(r)
    BY <1>0, <2>1 DEF BoardRegisters
  <2> HIDE DEF r
  <2> QED
    BY <1>1, <2>2, <2>3
<1>5. CASE DtcEnablesLink(d)
  <2> DEFINE r == [board[b] EXCEPT !.rx = TRUE]
  <2>1. board' = [board EXCEPT ![b] = r]
    BY <1>5 DEF DtcEnablesLink
  <2>2. r \in BoardRegisters /\ Holds(r)
    BY <1>0 DEF BoardRegisters
  <2> HIDE DEF r
  <2> QED
    BY <1>1, <2>1, <2>2
<1>6. CASE board' = SoftReset(b)
  <2> DEFINE r == [board[b] EXCEPT !.err = FALSE]
  <2>1. board' = [board EXCEPT ![b] = r]
    BY <1>6 DEF SoftReset
  <2>2. r \in BoardRegisters /\ Holds(r)
    BY <1>0 DEF BoardRegisters
  <2> HIDE DEF r
  <2> QED
    BY <1>1, <2>1, <2>2
<1>7. ASSUME NEW turned \in SUBSET Downstream(b), NEW latched \in SUBSET Downstream(b),
             board' = Toggled(b, turned, latched)
      PROVE  DtcEffect(d)
  BY <1>0, <1>7, ToggledBoards DEF DtcEffect
<1>8. CASE DtcAppliesOffset(d)
  <2> DEFINE r == [board[b] EXCEPT !.offset = TRUE, !.err = FALSE]
  <2>1. board' = [board EXCEPT ![b] = r]
    BY <1>8 DEF DtcAppliesOffset
  <2>2. r \in BoardRegisters /\ Holds(r)
    BY <1>0 DEF BoardRegisters
  <2> HIDE DEF r
  <2> QED
    BY <1>1, <2>1, <2>2
<1>9. CASE board' = [board EXCEPT ![b].offset = TRUE]
  <2> DEFINE r == [board[b] EXCEPT !.offset = TRUE]
  <2>1. board' = [board EXCEPT ![b] = r]
    BY <1>9
  <2>2. r \in BoardRegisters /\ Holds(r)
    BY <1>0 DEF BoardRegisters
  <2> HIDE DEF r
  <2> QED
    BY <1>1, <2>1, <2>2
<1>10. CASE DtcSetsUpROCs(d)
  <2> DEFINE r == [board[b] EXCEPT !.links = LinksOf(d), !.dcs = TRUE, !.err = FALSE]
  <2>1. board' = [board EXCEPT ![b] = r]
    BY <1>10 DEF DtcSetsUpROCs
  <2>2. r \in BoardRegisters /\ Holds(r)
    BY <1>0 DEF BoardRegisters, LinksOf
  <2> HIDE DEF r
  <2> QED
    BY <1>1, <2>1, <2>2
<1>11. CASE DtcSetsLinks(d)
  <2> DEFINE r == [board[b] EXCEPT !.links = LinksAfter(d)]
  <2>1. board' = [board EXCEPT ![b] = r]
    BY <1>11 DEF DtcSetsLinks
  <2>2. r \in BoardRegisters /\ Holds(r)
    BY <1>0 DEF BoardRegisters, LinksAfter, LinksOf
  <2> HIDE DEF r
  <2> QED
    BY <1>1, <2>1, <2>2
<1>12. CASE DtcSetsDataPath(d)
  <2> DEFINE r == [board[b] EXCEPT !.drp = TRUE, !.evb = board[b].evb \/ d \in RealROCs]
  <2>1. board' = [board EXCEPT ![b] = r]
    BY <1>12 DEF DtcSetsDataPath
  <2>2. r \in BoardRegisters /\ Holds(r)
    BY <1>0 DEF BoardRegisters
  <2> HIDE DEF r
  <2> QED
    BY <1>1, <2>1, <2>2
<1>13. CASE DtcFinalReset(d)
  <2> DEFINE r == [board[b] EXCEPT !.rx = TRUE, !.err = FALSE]
  <2>1. board' = [board EXCEPT ![b] = r]
    BY <1>13 DEF DtcFinalReset
  <2>2. r \in BoardRegisters /\ Holds(r)
    BY <1>0 DEF BoardRegisters
  <2> HIDE DEF r
  <2> QED
    BY <1>1, <2>1, <2>2
<1>14. CASE DtcWaitsForMarkers(d)
  BY <1>2, <1>6, <1>14 DEF DtcWaitsForMarkers, Throw
<1>15. CASE DtcFindsEdgeErrors(d)
  BY <1>2, <1>7, <1>15 DEF DtcFindsEdgeErrors, Throw
<1>16. CASE DtcVerifiesOffset(d)
  BY <1>2, <1>9, <1>16 DEF DtcVerifiesOffset, Throw
<1>17. ASSUME \/ DtcSetsClock(d) \/ DtcChecksLock(d) \/ DtcIdles(d) \/ DtcFindsEdgeClean(d)
              \/ DtcStartsOffset(d) \/ DtcWaitsForHistogram(d) \/ DtcWaitsToVerify(d)
              \/ DtcConfiguresROCs(d) \/ DtcReadsLinks(d)
       PROVE  DtcEffect(d)
  <2>1. UNCHANGED board
    BY <1>17 DEF DtcSetsClock, DtcChecksLock, DtcIdles, DtcFindsEdgeClean, DtcStartsOffset,
                 DtcWaitsForHistogram, DtcWaitsToVerify, DtcConfiguresROCs, DtcReadsLinks, Throw
  <2> QED
    BY <1>2, <2>1
<1> QED
  BY <1>3, <1>4, <1>5, <1>8, <1>10, <1>11, <1>12, <1>13, <1>14, <1>15, <1>16, <1>17 DEF DtcCall

\* The CFO's calls take nothing back on a board either, but for a receiver's SERDES when the
\* chain is enabled; they leave the ROC links and the data path alone.
CfoEffect ==
  /\ BoardTypes'
  /\ \A x \in Board :
       /\ board[x].ja => board'[x].ja
       /\ board[x].rx => board'[x].rx
       /\ board[x].offset => board'[x].offset
       /\ board'[x].stuck => board[x].stuck \/ CfoEnablesChain
       /\ board'[x].links = board[x].links /\ board'[x].dcs = board[x].dcs
       /\ board'[x].drp = board[x].drp /\ board'[x].evb = board[x].evb

LEMMA CfoEffects ==
  ASSUME BoardTypes, CfoCall
  PROVE  CfoEffect
<1>1. ASSUME UNCHANGED board PROVE CfoEffect
  BY <1>1 DEF CfoEffect, BoardTypes
<1>2. CASE CfoEnablesChain
  <2>1. PICK stuck \in SUBSET Board :
          board' = [x \in Board |-> [board[x] EXCEPT !.rx = board[x].rx \/ \E d \in CfoHome : BoardOf[d] = x,
                                                     !.stuck = x \in stuck]]
    BY <1>2 DEF CfoEnablesChain
  <2>2. ASSUME NEW x \in Board
        PROVE  /\ board'[x] \in BoardRegisters
               /\ board'[x].ja = board[x].ja /\ board'[x].offset = board[x].offset
               /\ board[x].rx => board'[x].rx
               /\ board'[x].links = board[x].links /\ board'[x].dcs = board[x].dcs
               /\ board'[x].drp = board[x].drp /\ board'[x].evb = board[x].evb
    <3> DEFINE e == board[x].rx \/ \E d \in CfoHome : BoardOf[d] = x
               l == x \in stuck
    <3>1. board[x] \in BoardRegisters
      BY DEF BoardTypes
    <3>2. e \in BOOLEAN /\ l \in BOOLEAN
      OBVIOUS
    <3>3. board'[x] = [board[x] EXCEPT !.rx = e, !.stuck = l]
      BY <2>1
    <3>4. board[x].rx => e
      OBVIOUS
    <3> HIDE DEF e, l
    <3> QED
      BY <3>1, <3>2, <3>3, <3>4 DEF BoardRegisters
  <2>3. BoardTypes'
    BY <2>1, <2>2 DEF BoardTypes
  <2> QED
    BY <1>2, <2>2, <2>3 DEF CfoEffect
<1>3. CASE board' = [x \in Board |-> [board[x] EXCEPT !.stuck = FALSE]]
  <2>1. ASSUME NEW x \in Board
        PROVE  /\ board'[x] \in BoardRegisters
               /\ board'[x].ja = board[x].ja /\ board'[x].offset = board[x].offset
               /\ board'[x].rx = board[x].rx /\ board'[x].stuck = FALSE
               /\ board'[x].links = board[x].links /\ board'[x].dcs = board[x].dcs
               /\ board'[x].drp = board[x].drp /\ board'[x].evb = board[x].evb
    <3>1. board[x] \in BoardRegisters
      BY DEF BoardTypes
    <3>2. board'[x] = [board[x] EXCEPT !.stuck = FALSE]
      BY <1>3
    <3> QED
      BY <3>1, <3>2 DEF BoardRegisters
  <2>2. BoardTypes'
    BY <1>3, <2>1 DEF BoardTypes
  <2> QED
    BY <2>1, <2>2 DEF CfoEffect
<1>4. ASSUME NEW d \in CfoHome, CfoFixesEdge(d) PROVE CfoEffect
  <2>1. CASE UNCHANGED board
    BY <1>1, <2>1
  <2>2. CASE \E turned, latched \in SUBSET Downstream(BoardOf[d]) : board' = Toggled(BoardOf[d], turned, latched)
    <3>1. BoardOf[d] \in Board
      OBVIOUS
    <3> QED
      BY <2>2, <3>1, ToggledBoards DEF CfoEffect, Keeps
  <2> QED
    BY <1>4, <2>1, <2>2 DEF CfoFixesEdge
<1>5. ASSUME NEW d \in CfoHome, CfoFindsNoMarkers(d) PROVE CfoEffect
  BY <1>1, <1>5 DEF CfoFindsNoMarkers, Throw
<1>6. CASE CfoChecksLocks
  BY <1>1, <1>3, <1>6 DEF CfoChecksLocks, Throw
<1>7. CASE CfoValidatesRTF
  BY <1>1, <1>7 DEF CfoValidatesRTF, Throw
<1>8. CASE CfoEndsPass
  BY <1>1, <1>8 DEF CfoEndsPass, Throw
<1>9. ASSUME CfoClearsControl \/ CfoSetsClock \/ CfoPollsLock \/ CfoIdles \/ CfoStopsEvents
             \/ CfoFinalReset \/ CfoEnablesOperation
      PROVE  CfoEffect
  <2>1. UNCHANGED board
    BY <1>9 DEF CfoClearsControl, CfoSetsClock, CfoPollsLock, CfoIdles, CfoStopsEvents,
                CfoFinalReset, CfoEnablesOperation
  <2> QED
    BY <1>1, <2>1
<1> QED
  BY <1>2, <1>4, <1>5, <1>6, <1>7, <1>8, <1>9 DEF CfoCall

\* What the CFO front end keeps of its pass and writes to the CFO.
LEMMA CfoBooks ==
  ASSUME BookTypes, CfoCall
  PROVE  /\ pass' \in [left : SUBSET CfoHome, toggled : BOOLEAN, clean : 0 .. 1]
         /\ cfo' \in CfoRegisters /\ retried' = retried
<1> DEFINE P == [left : SUBSET CfoHome, toggled : BOOLEAN, clean : 0 .. 1]
<1>0. pass \in P /\ cfo \in CfoRegisters
  BY DEF BookTypes
<1>1. ASSUME UNCHANGED <<pass, cfo, retried>> PROVE pass' \in P /\ cfo' \in CfoRegisters /\ retried' = retried
  BY <1>0, <1>1
<1>2. CASE CfoClearsControl
  BY <1>0, <1>2 DEF CfoClearsControl, FreshCfo, CfoRegisters
<1>3. CASE CfoPollsLock
  BY <1>0, <1>3 DEF CfoPollsLock, CfoRegisters
<1>4. CASE CfoEnablesChain
  <2> DEFINE e == EdgeFixing
  <2>1. cfo' = [cfo EXCEPT !.links = TRUE, !.markers = TRUE, !.events = e] /\ UNCHANGED <<pass, retried>>
    BY <1>4 DEF CfoEnablesChain
  <2>2. e \in BOOLEAN
    BY DEF EdgeFixing
  <2> HIDE DEF e
  <2> QED
    BY <1>0, <2>1, <2>2 DEF CfoRegisters
<1>5. CASE CfoStopsEvents
  BY <1>0, <1>5 DEF CfoStopsEvents, CfoRegisters
<1>6. CASE CfoEnablesOperation
  BY <1>0, <1>6 DEF CfoEnablesOperation, CfoRegisters
<1>7. CASE CfoValidatesRTF
  <2>1. UNCHANGED <<cfo, retried>> /\ (pass' = pass \/ pass' = [NoPass EXCEPT !.left = CfoHome])
    BY <1>7 DEF CfoValidatesRTF, Throw
  <2>2. [NoPass EXCEPT !.left = CfoHome] \in P
    <3>1. NoPass \in P
      BY DEF NoPass
    <3> QED
      BY <3>1
  <2> QED
    BY <1>0, <2>1, <2>2
<1>8. ASSUME NEW d \in CfoHome, CfoFixesEdge(d) PROVE pass' \in P /\ cfo' \in CfoRegisters /\ retried' = retried
  <2>1. UNCHANGED <<cfo, retried>>
    BY <1>8 DEF CfoFixesEdge
  <2> DEFINE L == pass.left \ {d}
  <2>2. \/ pass' = [pass EXCEPT !.left = L]
        \/ pass' = [pass EXCEPT !.left = L, !.toggled = TRUE]
    BY <1>8 DEF CfoFixesEdge
  <2>3. L \in SUBSET CfoHome
    BY <1>0
  <2> HIDE DEF L
  <2>4. pass' \in P
    BY <1>0, <2>2, <2>3
  <2> QED
    BY <1>0, <2>1, <2>4
<1>9. CASE CfoEndsPass
  <2>1. CleanPasses < 2 => CleanPasses \in 0 .. 1
    BY <1>0 DEF CleanPasses
  <2>2. UNCHANGED <<cfo, retried>>
    BY <1>9 DEF CfoEndsPass, Throw
  <2>3. \/ pass' = NoPass \/ UNCHANGED pass
        \/ CleanPasses < 2 /\ pass' = [left |-> CfoHome, toggled |-> FALSE, clean |-> CleanPasses]
    BY <1>9 DEF CfoEndsPass, Throw
  <2>4. NoPass \in P
    BY DEF NoPass
  <2> HIDE DEF P
  <2>5. CleanPasses < 2 => [left |-> CfoHome, toggled |-> FALSE, clean |-> CleanPasses] \in P
    BY <2>1 DEF P
  <2>6. pass' \in P
    BY <1>0, <2>3, <2>4, <2>5
  <2> QED
    BY <1>0, <2>2, <2>6 DEF P
<1>10. ASSUME \/ CfoSetsClock \/ CfoChecksLocks \/ CfoIdles \/ CfoFinalReset
              \/ \E d \in CfoHome : CfoFindsNoMarkers(d)
       PROVE  pass' \in P /\ cfo' \in CfoRegisters /\ retried' = retried
  <2>1. UNCHANGED <<pass, cfo, retried>>
    BY <1>10 DEF CfoSetsClock, CfoChecksLocks, CfoIdles, CfoFinalReset, CfoFindsNoMarkers, Throw
  <2> QED
    BY <1>1, <2>1
<1> QED
  BY <1>2, <1>3, <1>4, <1>5, <1>6, <1>7, <1>8, <1>9, <1>10 DEF CfoCall

\* What a DTC front end keeps.
LEMMA DtcBooks ==
  ASSUME BookTypes, BoardTypes, NEW d \in DTC, DtcCall(d)
  PROVE  retried' \subseteq DTC /\ looked' \in [DTC -> {"not", "off", "emulated", "plain"}]
<1>0. retried \subseteq DTC /\ looked \in [DTC -> {"not", "off", "emulated", "plain"}]
  BY DEF BookTypes
<1>1. CASE DtcReadsLinks(d)
  <2>1. board[BoardOf[d]].links \in {"off", "emulated", "plain"}
    BY DEF BoardTypes, BoardRegisters
  <2> QED
    BY <1>0, <1>1, <2>1 DEF DtcReadsLinks
<1>2. CASE DtcSetsLinks(d)
  BY <1>0, <1>2 DEF DtcSetsLinks
<1>3. CASE DtcStartsOffset(d)
  BY <1>0, <1>3 DEF DtcStartsOffset
<1>4. CASE DtcVerifiesOffset(d)
  BY <1>0, <1>4 DEF DtcVerifiesOffset, Throw
<1>5. ASSUME ~DtcReadsLinks(d), ~DtcSetsLinks(d), ~DtcStartsOffset(d), ~DtcVerifiesOffset(d)
      PROVE  UNCHANGED <<retried, looked>>
  BY <1>5 DEF DtcCall, DtcClearsControl, DtcSetsClock, DtcPollsLock, DtcEnablesLink, DtcChecksLock, DtcIdles,
     DtcWaitsForMarkers, DtcFindsEdgeClean, DtcFindsEdgeErrors, DtcWaitsForHistogram, DtcAppliesOffset,
     DtcWaitsToVerify, DtcSetsUpROCs, DtcConfiguresROCs, DtcSetsDataPath, DtcFinalReset, Throw
<1> QED
  BY <1>0, <1>1, <1>2, <1>3, <1>4, <1>5

\* A reboot leaves the board as after power-up.
LEMMA RebootEffect ==
  ASSUME BoardTypes, NEW b \in MayReboot, Reboot(b)
  PROVE  /\ BoardTypes' /\ b \in Board
         /\ ~board'[b].ja /\ ~board'[b].err /\ board'[b].links = "off"
         /\ \A x \in Board : x # b => board'[x] = board[x]
<1>1. PICK edge \in BOOLEAN : board' = [board EXCEPT ![b] = FreshBoard(edge)]
  BY DEF Reboot
<1>2. b \in Board /\ FreshBoard(edge) \in BoardRegisters
  BY DEF FreshBoard, BoardRegisters
<1>3. BoardTypes' /\ board'[b] = FreshBoard(edge) /\ \A x \in Board : x # b => board'[x] = board[x]
  BY <1>1, <1>2, OneBoard
<1> QED
  BY <1>2, <1>3 DEF FreshBoard

LEMMA TypesInit == Init => Types
<1> SUFFICES ASSUME Init PROVE Types
  OBVIOUS
<1>1. BookTypes
  BY DEF Init, BookTypes, NoPass, FreshCfo, CfoRegisters
<1>2. BoardTypes
  <2>1. \A e \in BOOLEAN : FreshBoard(e) \in BoardRegisters
    BY DEF FreshBoard, BoardRegisters
  <2> QED
    BY <2>1 DEF Init, BoardTypes
<1> QED
  BY <1>1, <1>2, SkeletonInit DEF Types

LEMMA TypesKept ==
  ASSUME Types, [Next]_vars
  PROVE  Types'
<1>0. Skeleton /\ BookTypes /\ BoardTypes /\ Skeleton'
  BY SkeletonKept DEF Types
<1>1. ASSUME NEW f \in FrontEnd, Forgets(f) PROVE stale' \subseteq DTC
  BY <1>0, <1>1 DEF Forgets, BookTypes
<1>2. ASSUME NEW f \in FrontEnd,
             (\E r \in Answer : Answers(f, r)) \/ LeavesOpen(f) \/ (\E why : Fails(f, why))
      PROVE  stale' \subseteq DTC /\ UNCHANGED <<mode, count>>
  BY <1>1, <1>2 DEF Answers, LeavesOpen, Fails, Reply, Throw
<1>3. ASSUME NEW d \in DTC, DtcCall(d) PROVE Types'
  <2>1. d \in FrontEnd
    BY DEF FrontEnd
  <2>2. stale' \subseteq DTC /\ UNCHANGED <<mode, count, pass, cfo>>
    BY <1>0, <1>2, <1>3, <2>1, DtcCallIs
  <2> QED
    BY <1>0, <1>3, <2>2, DtcBooks, DtcEffects DEF BookTypes, DtcEffect, Types
<1>4. CASE CfoCall
  <2>1. Cfo \in FrontEnd
    BY DEF FrontEnd
  <2>2. stale' \subseteq DTC /\ UNCHANGED <<mode, count, looked>>
    BY <1>0, <1>2, <1>4, <2>1, CfoCallIs
  <2> QED
    BY <1>0, <1>4, <2>2, CfoBooks, CfoEffects DEF BookTypes, CfoEffect, Types
<1>5. ASSUME UNCHANGED <<retried, looked, pass, cfo, board>>, UNCHANGED <<mode, count>>, stale' \subseteq DTC
      PROVE  Types'
  BY <1>0, <1>5 DEF BookTypes, BoardTypes, Types
<1>6. ASSUME NEW f \in FrontEnd, NoticesReboot(f) PROVE Types'
  BY <1>0, <1>2, <1>5, <1>6, NoticeIs DEF Fails, Throw
<1>7. ASSUME NEW f \in FrontEnd, Waits(f) PROVE Types'
  BY <1>0, <1>1, <1>5, <1>7, WaitMoves
<1>8. ASSUME NEW f \in FrontEnd, PastLast(f) PROVE Types'
  BY <1>0, <1>2, <1>5, <1>8, PastLastIs DEF Answer
<1>9. ASSUME NEW s \in Subsystem, EndsIteration(s) PROVE Types'
  BY <1>0, <1>5, <1>9 DEF EndsIteration, BookTypes
<1>10. CASE NextTurn
  BY <1>0, <1>5, <1>10 DEF NextTurn, BookTypes
<1>11. ASSUME NEW m \in Modes, Configure(m) PROVE Types'
  <2>1. count' \in [configures : 0 .. MaxConfigures, reboots : SUBSET MayReboot]
    <3>1. count' = [count EXCEPT !.configures = count.configures + 1] /\ count.configures < MaxConfigures
      BY <1>11 DEF Configure
    <3> QED
      BY <1>0, <3>1 DEF BookTypes
  <2> QED
    BY <1>0, <1>11, <2>1 DEF Configure, BookTypes, BoardTypes, Types
<1>12. CASE Halt
  <2>1. cfo' \in CfoRegisters
    BY <1>0, <1>12 DEF Halt, BookTypes, CfoRegisters
  <2> QED
    BY <1>0, <1>12, <2>1 DEF Halt, BookTypes, BoardTypes, Types, NoPass
<1>13. ASSUME NEW b \in MayReboot, Reboot(b) PROVE Types'
  <2>1. count' \in [configures : 0 .. MaxConfigures, reboots : SUBSET MayReboot]
    BY <1>0, <1>13 DEF Reboot, BookTypes
  <2> QED
    BY <1>0, <1>13, <2>1, RebootEffect DEF Reboot, BookTypes, Types
<1>14. CASE UNCHANGED vars
  BY <1>0, <1>5, <1>14 DEF vars, BookTypes
<1> QED
  BY <1>3, <1>4, <1>6, <1>7, <1>8, <1>9, <1>10, <1>11, <1>12, <1>13, <1>14 DEF Next, System

-----------------------------------------------------------------------------
(* The CFO's outputs, along its pass                                        *)

\* From the chain enable on the CFO drives the links and the markers; the null events run
\* from there to phase 3e in the event building modes; the last phase enables RF0.
CfoInv ==
  /\ Past(Cfo, ChainEnable) =>
       cfo.links /\ cfo.markers /\ (cfo.events <=> EdgeFixing /\ ~Past(Cfo, SyncE))
  /\ Past(Cfo, EventSending) => cfo.rf0

LEMMA CalledAt ==
  ASSUME Skeleton, NEW f \in FrontEnd, NEW q, At(f, q), NEW p \in Int
  PROVE  /\ IsCalled(f) /\ IsMyTurn(f) /\ Ph(Home(f)) = q /\ q \in 0 .. 13
         /\ Past(f, p) <=> q > p
         /\ Within(f, p) <=> p = q
<1>1. IsCalled(f) /\ IsMyTurn(f) /\ Ph(Home(f)) = q /\ q \in 0 .. Last(Home(f)) /\ Last(Home(f)) \in {12, 13}
  BY AtIs, PhaseIs
<1>2. /\ Running(Home(f)) /\ OnTurn(Home(f)) /\ f \in gw[Home(f)].todo
      /\ gw[Home(f)].state = "Configuring"
  BY <1>1, Homes DEF IsCalled, Running
<1> QED
  BY <1>1, <1>2 DEF Past, Within

LEMMA CfoWrites ==
  ASSUME CfoCall
  PROVE  \/ CfoClearsControl \/ CfoPollsLock \/ CfoEnablesChain \/ CfoStopsEvents \/ CfoEnablesOperation
         \/ /\ UNCHANGED cfo
            /\ \E q : At(Cfo, q) /\ q \notin {2, 13} /\ (q = 9 => ~EdgeFixing)
<1> USE DEF ClocksA, ClocksB, ChainEnable, ChainCheck, CfoEdgeFix, SyncA, SyncB, SyncC, SyncD, SyncE,
            RocConfig, RocDataPath, FinalSoftReset, EventSending
<1>1. CASE CfoSetsClock
  BY <1>1 DEF CfoSetsClock
<1>2. CASE CfoChecksLocks
  BY <1>2 DEF CfoChecksLocks, Throw
<1>3. CASE CfoIdles
  <2>1. PICK q : At(Cfo, q) /\ CfoIdlePhase(q)
    BY <1>3 DEF CfoIdles
  <2>2. q \notin {2, 13} /\ (q = 9 => ~EdgeFixing)
    BY <2>1 DEF CfoIdlePhase
  <2> QED
    BY <1>3, <2>1, <2>2 DEF CfoIdles
<1>4. CASE CfoValidatesRTF
  BY <1>4 DEF CfoValidatesRTF, AtEdgeFix, Throw
<1>5. ASSUME NEW d \in CfoHome, CfoFixesEdge(d) \/ CfoFindsNoMarkers(d)
      PROVE  UNCHANGED cfo /\ At(Cfo, 4)
  BY <1>5 DEF CfoFixesEdge, CfoFindsNoMarkers, AtEdgeFix, Throw
<1>6. CASE CfoEndsPass
  BY <1>6 DEF CfoEndsPass, AtEdgeFix, Throw
<1>7. CASE CfoFinalReset
  BY <1>7 DEF CfoFinalReset
<1> QED
  BY <1>1, <1>2, <1>3, <1>4, <1>5, <1>6, <1>7 DEF CfoCall

LEMMA HaltedInit ==
  ASSUME Init, NEW g \in FrontEnd, NEW p
  PROVE  ~Past(g, p) /\ ~Within(g, p)
<1>1. gw[Home(g)].state = "Halted"
  BY Homes DEF Init, Halted
<1> QED
  BY <1>1 DEF Past, Within, Running

LEMMA CfoInvInit == Init => CfoInv
BY HaltedInit DEF CfoInv, FrontEnd

LEMMA CfoInvKept ==
  ASSUME Types, CfoInv, [Next]_vars
  PROVE  CfoInv'
<1> USE DEF ChainEnable, SyncE, EventSending
<1>0. Skeleton /\ Cfo \in FrontEnd /\ Home(Cfo) = "cfo" /\ Last(Home(Cfo)) = 13 /\ cfo \in CfoRegisters
  BY Homes DEF Types, BookTypes, FrontEnd, Last
<1>1. ASSUME UNCHANGED <<cfo, mode>>, \A p \in {2, 9, 13} : Past(Cfo, p)' <=> Past(Cfo, p) PROVE CfoInv'
  BY <1>1 DEF CfoInv, EdgeFixing
<1>2. ASSUME \A p \in {2, 13} : ~Past(Cfo, p)' PROVE CfoInv'
  BY <1>2 DEF CfoInv
<1>3. ASSUME NEW f \in FrontEnd, f # Cfo, NEW r \in Answer, Answers(f, r), UNCHANGED cfo PROVE CfoInv'
  BY <1>0, <1>1, <1>3, AnswerMoves DEF Answers
<1>4. ASSUME NEW f \in FrontEnd, LeavesOpen(f), UNCHANGED cfo PROVE CfoInv'
  BY <1>1, <1>4, GwStill DEF LeavesOpen
<1>5. ASSUME NEW f \in FrontEnd, NEW why, Fails(f, why) PROVE CfoInv'
  <2>1. CASE Home(f) = "cfo"
    BY <1>0, <1>2, <1>5, <2>1, FailMoves
  <2>2. CASE Home(f) # "cfo"
    BY <1>0, <1>1, <1>5, <2>2, FailMoves
  <2> QED
    BY <2>1, <2>2
<1>6. ASSUME NEW d \in DTC, DtcCall(d) PROVE CfoInv'
  <2>1. d \in FrontEnd /\ d # Cfo
    BY DEF FrontEnd
  <2> QED
    BY <1>0, <1>3, <1>4, <1>5, <1>6, <2>1, DtcCallIs
<1>7. CASE CfoCall
  <2>1. ASSUME NEW q, At(Cfo, q), NEW r \in Answer, Reply(Cfo, r)
        PROVE  /\ q \in 0 .. 13 /\ UNCHANGED mode
               /\ \A p \in {2, 9, 13} : Past(Cfo, p) <=> q > p
               /\ \A p \in {2, 9, 13} : Past(Cfo, p)' <=> q > p \/ (r # "sub" /\ p = q)
    BY <1>0, <2>1, CalledAt, AnswerMoves
  <2>2. CASE CfoClearsControl
    <3>1. At(Cfo, 0) /\ Reply(Cfo, "sub")
      BY <2>2 DEF CfoClearsControl, ClocksA
    <3> QED
      BY <1>2, <2>1, <3>1 DEF Answer
  <2>3. CASE CfoPollsLock
    <3>1. At(Cfo, 0) /\ (Reply(Cfo, "sub") \/ Reply(Cfo, "more"))
      BY <2>3 DEF CfoPollsLock, ClocksA
    <3> QED
      BY <1>2, <2>1, <3>1 DEF Answer
  <2>4. CASE CfoEnablesChain
    <3>1. At(Cfo, 2) /\ Reply(Cfo, "more")
          /\ cfo' = [cfo EXCEPT !.links = TRUE, !.markers = TRUE, !.events = EdgeFixing]
      BY <2>4 DEF CfoEnablesChain
    <3>2. cfo'.links /\ cfo'.markers /\ (cfo'.events <=> EdgeFixing)
      BY <1>0, <3>1 DEF CfoRegisters
    <3>3. Past(Cfo, 2)' /\ ~Past(Cfo, 9)' /\ ~Past(Cfo, 13)' /\ UNCHANGED mode
      BY <2>1, <3>1 DEF Answer
    <3> QED
      BY <3>2, <3>3 DEF CfoInv, EdgeFixing
  <2>5. CASE CfoStopsEvents
    <3>1. At(Cfo, 9) /\ Reply(Cfo, "more") /\ cfo' = [cfo EXCEPT !.events = FALSE]
      BY <2>5 DEF CfoStopsEvents
    <3>2. cfo'.links = cfo.links /\ cfo'.markers = cfo.markers /\ cfo'.events = FALSE
      BY <1>0, <3>1 DEF CfoRegisters
    <3>3. Past(Cfo, 2) /\ Past(Cfo, 9)' /\ ~Past(Cfo, 13)'
      BY <2>1, <3>1 DEF Answer
    <3> QED
      BY <3>2, <3>3 DEF CfoInv
  <2>6. CASE CfoEnablesOperation
    <3>1. At(Cfo, 13) /\ Reply(Cfo, "done") /\ cfo' = [cfo EXCEPT !.rf0 = TRUE]
      BY <2>6 DEF CfoEnablesOperation
    <3>2. cfo'.links = cfo.links /\ cfo'.markers = cfo.markers /\ cfo'.events = cfo.events /\ cfo'.rf0
      BY <1>0, <3>1 DEF CfoRegisters
    <3>3. Past(Cfo, 2) /\ Past(Cfo, 9) /\ Past(Cfo, 9)'
      BY <2>1, <3>1 DEF Answer
    <3> QED
      BY <3>2, <3>3 DEF CfoInv
  <2>7. ASSUME UNCHANGED cfo, NEW q, At(Cfo, q), q \notin {2, 13}, q = 9 => ~EdgeFixing
        PROVE  CfoInv'
    <3>1. ASSUME NEW r \in Answer, Answers(Cfo, r) PROVE CfoInv'
      <4>1. /\ UNCHANGED mode /\ (Past(Cfo, 2)' <=> Past(Cfo, 2)) /\ (Past(Cfo, 13)' <=> Past(Cfo, 13))
            /\ (Past(Cfo, 9)' <=> Past(Cfo, 9)) \/ ~EdgeFixing
        BY <2>1, <2>7, <3>1 DEF Answers
      <4> QED
        BY <2>7, <4>1 DEF CfoInv, EdgeFixing
    <3> QED
      BY <1>0, <1>4, <1>5, <1>7, <2>7, <3>1, CfoCallIs
  <2> QED
    BY <1>7, <2>2, <2>3, <2>4, <2>5, <2>6, <2>7, CfoWrites
<1>8. ASSUME NEW f \in FrontEnd, NoticesReboot(f) PROVE CfoInv'
  BY <1>0, <1>5, <1>8, NoticeIs
<1>9. ASSUME NEW f \in FrontEnd, Waits(f) PROVE CfoInv'
  BY <1>0, <1>1, <1>9, WaitMoves
<1>10. ASSUME NEW f \in FrontEnd, PastLast(f) PROVE CfoInv'
  <2>1. f # Cfo
    BY <1>0, <1>10, PhaseIs DEF PastLast
  <2> QED
    BY <1>0, <1>3, <1>10, <2>1, PastLastIs DEF Answer
<1>11. ASSUME NEW s \in Subsystem, EndsIteration(s) PROVE CfoInv'
  BY <1>0, <1>1, <1>11, IterationMoves
<1>12. CASE NextTurn
  BY <1>0, <1>1, <1>12, TurnMoves
<1>13. ASSUME NEW m \in Modes, Configure(m) PROVE CfoInv'
  BY <1>0, <1>2, <1>13, ConfigureMoves
<1>14. CASE Halt
  BY <1>0, <1>2, <1>14, HaltMoves
<1>15. ASSUME NEW b \in MayReboot, Reboot(b) PROVE CfoInv'
  BY <1>1, <1>15, GwStill DEF Reboot
<1>16. CASE UNCHANGED vars
  BY <1>1, <1>16, GwStill DEF vars
<1> QED
  BY <1>6, <1>7, <1>8, <1>9, <1>10, <1>11, <1>12, <1>13, <1>14, <1>15, <1>16 DEF Next, System

-----------------------------------------------------------------------------
(* Whatever the constants, with and without a top-level gateway             *)

LEMMA Core == Spec => [](Types /\ CfoInv)
<1>1. Init => Types /\ CfoInv
  BY TypesInit, CfoInvInit
<1>2. Types /\ CfoInv /\ [Next]_vars => (Types /\ CfoInv)'
  BY TypesKept, CfoInvKept
<1> QED
  BY <1>1, <1>2, PTL DEF Spec

\* Type correctness: the gateways' bookkeeping, the bases and the registers.
THEOREM TypeCorrect == Spec => []TypeOK
<1>1. Types => TypeOK
  BY TypesAre
<1> QED
  BY <1>1, Core, PTL

\* A front end in its pass counts from the pass's first iteration.
LEMMA PassBase ==
  ASSUME Types, NEW f \in FrontEnd, InPass(f)
  PROVE  base[f] = FirstIter(Home(f)) /\ Running(Home(f)) /\ OnTurn(Home(f))
BY Homes DEF Types, Skeleton, FrontEndInv, InPass, Running

\* The front ends of a subsystem count their phases from the same iteration, whichever of
\* them has started its pass, whatever halts and launches of run plans have come between.
THEOREM FrontEndsInStep == Spec => []InStep
<1>1. Types => InStep
  BY PassBase DEF InStep
<1> QED
  BY <1>1, Core, PTL

\* Events flow while the edges of the CFO's subsystem are judged, and no front end sets up
\* ROCs, data path or final reset while they do.
THEOREM EventsOnlyForEdges == Spec => []EventsBracketEdges
<1>1. ASSUME Types, CfoInv PROVE EventsBracketEdges
  <2>1. SUFFICES ASSUME NEW d \in DTC, InPass(d), TopLevel \/ d \in CfoHome
                 PROVE  LET p == gw[Home(d)].iter - base[d] IN
                        /\ (d \in CfoHome /\ EdgeFixing /\ p \in CfoEdgeFix .. SyncD) => cfo.events
                        /\ (p \in RocConfig .. EventSending \/ d \notin CfoHome) => ~cfo.events
    BY DEF EventsBracketEdges
  <2> DEFINE p == gw[Home(d)].iter - base[d]
  <2>2. d \in FrontEnd /\ Cfo \in FrontEnd /\ Home(Cfo) = "cfo" /\ Skeleton
    BY <1>1, Homes DEF FrontEnd, Types
  <2>3. p = Ph(Home(d)) /\ Running(Home(d)) /\ OnTurn(Home(d)) /\ Home(d) \in Subsystem
    BY <1>1, <2>1, <2>2, PassBase, Homes DEF Ph
  <2>4. p \in Int
    BY <2>2, <2>3 DEF Skeleton, GatewayInv, Last, EventSending, FinalSoftReset
  <2> HIDE DEF p
  <2>5. CASE d \in CfoHome
    <3>1. Home(d) = "cfo"
      BY <2>2, <2>5, Homes
    <3>2. p \in 4 .. 8 => Past(Cfo, 2) /\ ~Past(Cfo, 9)
      BY <2>2, <2>3, <2>4, <3>1 DEF Past, Running
    <3>3. p \in 10 .. 13 => Past(Cfo, 2) /\ Past(Cfo, 9)
      BY <2>2, <2>3, <2>4, <3>1 DEF Past, Running
    <3> QED
      BY <1>1, <2>5, <3>2, <3>3
      DEF CfoInv, p, ChainEnable, SyncE, CfoEdgeFix, SyncD, RocConfig, EventSending
  <2>6. CASE d \notin CfoHome
    <3>1. gw["detector"].turn = 1
      BY <2>1, <2>2, <2>3, <2>6, Homes DEF Skeleton, GatewayInv, OnTurn, Pass, Running
    <3>2. gw["cfo"].state = "Configured" /\ Cfo \in FEs("cfo")
      BY <2>2, <3>1, Homes DEF Skeleton, GatewayInv, Subsystem
    <3>3. OnTurn("cfo")
      BY <2>2, <3>2 DEF Skeleton, GatewayInv, Subsystem
    <3>4. Past(Cfo, 2) /\ Past(Cfo, 9)
      BY <2>2, <3>2, <3>3 DEF Past
    <3> QED
      BY <1>1, <2>6, <3>4 DEF CfoInv, ChainEnable, SyncE
  <2> QED
    BY <2>5, <2>6
<1> QED
  BY <1>1, Core, PTL

-----------------------------------------------------------------------------
(* The owner of the ROC links                                               *)

\* Where two front ends drive one board, one without real ROCs is next to the CFO and one
\* with them is not.
Owners ==
  \A c \in DTC \ RealROCs, d \in RealROCs : BoardOf[c] = BoardOf[d] => c \in CfoHome /\ d \notin CfoHome

\* What a front end without real ROCs has read of the links still stands when it acts on it:
\* no owner has set them up in between.
LookInv(d) ==
  looked[d] # "not" /\ gw[Home(d)].state # "Failed" =>
    /\ d \notin RealROCs /\ Within(d, RocConfig)
    /\ looked[d] = "off" => board[BoardOf[d]].links # "plain"

\* The subsystems take turns under a top-level gateway.
LEMMA Turns ==
  ASSUME Skeleton, TopLevel, NEW f \in FrontEnd, IsCalled(f), IsMyTurn(f)
  PROVE  /\ Home(f) = "cfo" => ~OnTurn("detector")
         /\ Home(f) = "detector" =>
              gw["detector"].turn = 1 /\ gw["cfo"].state = "Configured" /\ OnTurn("cfo")
<1>1. /\ Home(f) \in Subsystem /\ gw[Home(f)].state = "Configuring" /\ OnTurn(Home(f))
      /\ GatewayInv("cfo") /\ GatewayInv("detector") /\ Cfo \in FEs("cfo")
  BY Homes DEF IsCalled, Skeleton, Subsystem, FEs
<1>2. CASE Home(f) = "cfo"
  <2>1. gw["detector"].state # "Halted"
    BY <1>1, <1>2 DEF Skeleton, AllHalted, Subsystem
  <2> QED
    BY <1>1, <1>2, <2>1 DEF GatewayInv, OnTurn, Pass, Standalone
<1>3. CASE Home(f) = "detector"
  <2>1. gw["detector"].turn = 1
    BY <1>1, <1>3 DEF GatewayInv, OnTurn, Pass, Standalone
  <2>2. gw["cfo"].state = "Configured"
    BY <1>1, <2>1 DEF GatewayInv
  <2> QED
    BY <1>1, <1>3, <2>1, <2>2 DEF GatewayInv
<1> QED
  BY <1>1, <1>2, <1>3 DEF Subsystem

\* Who writes the ROC links, and what.
LEMMA LinksWritten ==
  ASSUME BoardTypes, NEW d \in DTC, DtcCall(d), NEW x \in Board, board'[x].links # board[x].links
  PROVE  /\ x = BoardOf[d]
         /\ \/ DtcClearsControl(d) /\ d \in RealROCs /\ board'[x].links = "off"
            \/ DtcSetsUpROCs(d) /\ board'[x].links = "plain"
            \/ DtcSetsLinks(d) /\ looked[d] = "off" /\ board'[x].links = "emulated"
<1>0. board[x] \in BoardRegisters /\ x = BoardOf[d]
  BY DtcEffects DEF DtcEffect, BoardTypes
<1>1. CASE DtcClearsControl(d)
  <2>1. board' = ControlCleared(d)
    BY <1>1 DEF DtcClearsControl
  <2>2. board'[x].links = IF d \in RealROCs THEN "off" ELSE board[x].links
    BY <1>0, <2>1 DEF ControlCleared, BoardTypes, BoardRegisters
  <2> QED
    BY <1>0, <1>1, <2>2
<1>2. CASE DtcSetsUpROCs(d)
  BY <1>0, <1>2 DEF DtcSetsUpROCs, LinksOf, BoardTypes, BoardRegisters
<1>3. CASE DtcSetsLinks(d)
  <2>1. board' = [board EXCEPT ![x].links = LinksAfter(d)] /\ d \notin RealROCs
    BY <1>0, <1>3 DEF DtcSetsLinks
  <2>2. board'[x].links = LinksAfter(d)
    BY <1>0, <2>1 DEF BoardTypes, BoardRegisters
  <2> QED
    BY <1>0, <1>3, <2>1, <2>2 DEF LinksAfter, LinksOf
<1>4. ASSUME ~DtcClearsControl(d), ~DtcSetsUpROCs(d), ~DtcSetsLinks(d)
      PROVE  board'[x].links = board[x].links
  <2>1. CASE \E turned, latched \in SUBSET Downstream(x) : board' = Toggled(x, turned, latched)
    BY <2>1, ToggledBoards
  <2>2. CASE DtcPollsLock(d)
    BY <1>0, <2>2 DEF DtcPollsLock, BoardTypes, BoardRegisters
  <2>3. CASE DtcEnablesLink(d)
    BY <1>0, <2>3 DEF DtcEnablesLink, BoardTypes, BoardRegisters
  <2>4. CASE DtcWaitsForMarkers(d)
    BY <1>0, <2>4 DEF DtcWaitsForMarkers, SoftReset, Throw, BoardTypes, BoardRegisters
  <2>5. CASE DtcAppliesOffset(d)
    BY <1>0, <2>5 DEF DtcAppliesOffset, BoardTypes, BoardRegisters
  <2>6. CASE DtcVerifiesOffset(d)
    <3>1. UNCHANGED board \/ board' = [board EXCEPT ![x].offset = TRUE]
      BY <1>0, <2>6 DEF DtcVerifiesOffset, Throw
    <3> QED
      BY <1>0, <3>1 DEF BoardTypes, BoardRegisters
  <2>7. CASE DtcSetsDataPath(d)
    <3> DEFINE r == [board[x] EXCEPT !.drp = TRUE, !.evb = board[x].evb \/ d \in RealROCs]
    <3>1. board' = [board EXCEPT ![x] = r]
      BY <1>0, <2>7 DEF DtcSetsDataPath
    <3>2. r \in BoardRegisters /\ r.links = board[x].links
      BY <1>0 DEF BoardRegisters
    <3> HIDE DEF r
    <3> QED
      BY <3>1, <3>2, OneBoard
  <2>8. CASE DtcFinalReset(d)
    BY <1>0, <2>8 DEF DtcFinalReset, BoardTypes, BoardRegisters
  <2>9. CASE DtcFindsEdgeErrors(d)
    BY <1>0, <2>1, <2>9 DEF DtcFindsEdgeErrors, Throw
  <2>10. CASE UNCHANGED board
    BY <2>10
  <2> QED
    BY <1>4, <2>2, <2>3, <2>4, <2>5, <2>6, <2>7, <2>8, <2>9, <2>10
    DEF DtcCall, DtcSetsClock, DtcChecksLock, DtcIdles, DtcFindsEdgeClean, DtcStartsOffset,
        DtcWaitsForHistogram, DtcWaitsToVerify, DtcConfiguresROCs, DtcReadsLinks, Throw
<1> QED
  BY <1>0, <1>1, <1>2, <1>3, <1>4

\* Who writes down what a front end has read of the links.
LEMMA LookedWritten ==
  ASSUME BookTypes, NEW d \in DTC, DtcCall(d)
  PROVE  /\ \A e \in DTC : e # d => looked'[e] = looked[e]
         /\ \/ looked'[d] = looked[d] /\ ~(At(d, RocConfig) /\ d \notin RealROCs)
            \/ looked'[d] = "not"
            \/ DtcReadsLinks(d) /\ looked'[d] = board[BoardOf[d]].links
            \/ \E why : Fails(d, why)
<1> USE DEF ClocksA, ClocksB, ChainEnable, ChainCheck, CfoEdgeFix, SyncA, SyncB, SyncC, SyncD, SyncE,
            RocConfig, RocDataPath, FinalSoftReset
<1>0. looked \in [DTC -> {"not", "off", "emulated", "plain"}]
  BY DEF BookTypes
<1>1. CASE DtcReadsLinks(d)
  BY <1>0, <1>1 DEF DtcReadsLinks
<1>2. CASE DtcSetsLinks(d)
  BY <1>0, <1>2 DEF DtcSetsLinks
<1>3. ASSUME ~DtcReadsLinks(d), ~DtcSetsLinks(d)
      PROVE  UNCHANGED looked /\ ((\E q : At(d, q) /\ q # 10) \/ d \in RealROCs)
  <2>1. UNCHANGED looked
    BY <1>3 DEF DtcCall, DtcClearsControl, DtcSetsClock, DtcPollsLock, DtcEnablesLink, DtcChecksLock, DtcIdles,
       DtcWaitsForMarkers, DtcFindsEdgeClean, DtcFindsEdgeErrors, DtcWaitsForHistogram, DtcAppliesOffset,
       DtcWaitsToVerify, DtcSetsUpROCs, DtcConfiguresROCs, DtcSetsDataPath, DtcFinalReset, DtcStartsOffset,
       DtcVerifiesOffset, Throw
  <2>2. ASSUME DtcClearsControl(d) \/ DtcSetsClock(d) \/ DtcPollsLock(d) \/ DtcEnablesLink(d) \/ DtcChecksLock(d)
        PROVE  \E q : At(d, q) /\ q # 10
    BY <2>2 DEF DtcClearsControl, DtcSetsClock, DtcPollsLock, DtcEnablesLink, DtcChecksLock, ClockPhase
  <2>3. ASSUME DtcIdles(d) \/ DtcWaitsForMarkers(d) \/ DtcFindsEdgeClean(d) \/ DtcFindsEdgeErrors(d)
        PROVE  \E q : At(d, q) /\ q # 10
    <3>1. (\E q \in 0 .. 9 : At(d, q)) \/ At(d, EdgePhase(d))
      BY <2>3 DEF DtcIdles, DtcWaitsForMarkers, DtcFindsEdgeClean, DtcFindsEdgeErrors
    <3>2. EdgePhase(d) # 10
      BY DEF EdgePhase
    <3> QED
      BY <3>1, <3>2
  <2>4. ASSUME \/ DtcStartsOffset(d) \/ DtcWaitsForHistogram(d) \/ DtcAppliesOffset(d)
               \/ DtcWaitsToVerify(d) \/ DtcVerifiesOffset(d)
        PROVE  \E q : At(d, q) /\ q # 10
    <3>1. At(d, OffsetPhase(d))
      BY <2>4 DEF DtcStartsOffset, DtcWaitsForHistogram, DtcAppliesOffset, DtcWaitsToVerify, DtcVerifiesOffset,
                  AtOffset
    <3>2. OffsetPhase(d) # 10
      BY DEF OffsetPhase
    <3> QED
      BY <3>1, <3>2
  <2>5. ASSUME DtcSetsDataPath(d) \/ DtcFinalReset(d)
        PROVE  \E q : At(d, q) /\ q # 10
    BY <2>5 DEF DtcSetsDataPath, DtcFinalReset
  <2>6. ASSUME DtcSetsUpROCs(d) \/ DtcConfiguresROCs(d)
        PROVE  d \in RealROCs
    BY <2>6 DEF DtcSetsUpROCs, DtcConfiguresROCs
  <2> QED
    BY <1>3, <2>1, <2>2, <2>3, <2>4, <2>5, <2>6 DEF DtcCall
<1>4. ASSUME NEW q, At(d, q), q # 10 PROVE ~At(d, 10)
  BY <1>4 DEF At
<1> QED
  BY <1>1, <1>2, <1>3, <1>4

LEMMA LookKept ==
  ASSUME Types, TopLevel, Owners, \A d \in DTC : LookInv(d), [Next]_vars
  PROVE  \A d \in DTC : LookInv(d)'
<1> SUFFICES ASSUME NEW d \in DTC PROVE LookInv(d)'
  OBVIOUS
<1>0. Skeleton /\ d \in FrontEnd /\ LookInv(d) /\ 10 \in 0 .. Last(Home(d)) /\ BoardOf[d] \in Board
      /\ Home(d)' = Home(d) /\ Home(d) \in Subsystem
  BY Homes DEF Types, FrontEnd, Last, EventSending, FinalSoftReset, Home
<1> USE DEF RocConfig
\* A step after which the front end is where it was.
<1>1. ASSUME Within(d, 10) => Within(d, 10)', gw'[Home(d)].state # "Failed" => gw[Home(d)].state # "Failed",
             looked'[d] = looked[d],
             Within(d, 10) /\ looked[d] = "off" /\ board[BoardOf[d]].links # "plain" /\ d \notin RealROCs =>
               board'[BoardOf[d]].links # "plain"
      PROVE  LookInv(d)'
  BY <1>0, <1>1 DEF LookInv
<1>2. ASSUME looked'[d] = "not" \/ gw'[Home(d)].state = "Failed" PROVE LookInv(d)'
  BY <1>0, <1>2 DEF LookInv
<1>3. ASSUME gw[Home(d)].state # "Failed", ~Within(d, 10), looked'[d] = looked[d] PROVE LookInv(d)'
  BY <1>0, <1>2, <1>3 DEF LookInv
\* Another front end's call.
<1>4. ASSUME NEW f \in FrontEnd, f # d, UNCHANGED looked \/ looked'[d] = looked[d],
             (\E r \in Answer : Answers(f, r)) \/ LeavesOpen(f) \/ (\E why : Fails(f, why)),
             Within(d, 10) /\ looked[d] = "off" /\ board[BoardOf[d]].links # "plain" /\ d \notin RealROCs =>
               board'[BoardOf[d]].links # "plain"
      PROVE  LookInv(d)'
  <2>1. CASE \E r \in Answer : Answers(f, r)
    BY <1>0, <1>1, <1>4, <2>1, AnswerMoves DEF Answers
  <2>2. CASE LeavesOpen(f)
    BY <1>1, <1>4, <2>2, GwStill DEF LeavesOpen
  <2>3. CASE \E why : Fails(f, why)
    <3>1. CASE Home(d) = Home(f)
      BY <1>0, <1>2, <2>3, <3>1, FailMoves
    <3>2. CASE Home(d) # Home(f)
      BY <1>0, <1>1, <1>4, <2>3, <3>2, FailMoves
    <3> QED
      BY <3>1, <3>2
  <2> QED
    BY <1>4, <2>1, <2>2, <2>3
<1>5. ASSUME NEW e \in DTC, e # d, DtcCall(e) PROVE LookInv(d)'
  <2>1. e \in FrontEnd /\ BoardTypes /\ BookTypes
    BY DEF FrontEnd, Types
  <2>2. looked'[d] = looked[d]
    BY <1>5, <2>1, LookedWritten
  <2>3. \/ /\ IsCalled(e) /\ IsMyTurn(e)
           /\ (\E r \in Answer : Answers(e, r)) \/ LeavesOpen(e) \/ (\E why : Fails(e, why))
        \/ \E why : Fails(e, why)
    BY <1>0, <1>5, DtcCallIs DEF Answers, LeavesOpen
  <2>4. ASSUME Within(d, 10), board[BoardOf[d]].links # "plain", d \notin RealROCs,
               board'[BoardOf[d]].links = "plain"
        PROVE  FALSE
    <3>1. DtcSetsUpROCs(e) /\ BoardOf[e] = BoardOf[d]
      BY <1>0, <1>5, <2>1, <2>4, LinksWritten
    <3>2. e \in RealROCs /\ IsCalled(e) /\ IsMyTurn(e)
      BY <3>1 DEF DtcSetsUpROCs, At
    <3>3. d \in CfoHome /\ e \notin CfoHome
      BY <2>4, <3>1, <3>2 DEF Owners
    <3>4. gw["cfo"].state = "Configured"
      BY <1>0, <2>1, <3>2, <3>3, Homes, Turns
    <3> QED
      BY <1>0, <2>4, <3>3, <3>4, Homes DEF Within, Running
  <2> QED
    BY <1>4, <1>5, <2>1, <2>2, <2>3, <2>4
<1>6. CASE DtcCall(d)
  <2>1. BoardTypes /\ BookTypes
    BY DEF Types
  <2>2. CASE \E why : Fails(d, why)
    BY <1>0, <1>2, <2>2, FailMoves
  <2>3. CASE looked'[d] = "not"
    BY <1>2, <2>3
  <2>4. CASE DtcReadsLinks(d) /\ looked'[d] = board[BoardOf[d]].links
    <3>1. /\ At(d, 10) /\ d \notin RealROCs /\ UNCHANGED <<gw, board>>
      BY <2>4 DEF DtcReadsLinks
    <3>2. Within(d, 10)
      BY <1>0, <3>1, CalledAt
    <3>3. Within(d, 10)'
      BY <3>1, <3>2, GwStill
    <3> QED
      BY <1>0, <2>4, <3>1, <3>3 DEF LookInv
  <2>5. CASE looked'[d] = looked[d] /\ ~(At(d, RocConfig) /\ d \notin RealROCs) /\ ~\E why : Fails(d, why)
    <3>1. IsCalled(d) /\ IsMyTurn(d) /\ gw[Home(d)].state # "Failed"
      BY <1>0, <1>6, <2>5, DtcCallIs DEF Answers, LeavesOpen, IsCalled
    <3>2. looked[d] = "not"
      <4>1. Phase(d) = Ph(Home(d))
        BY <1>0, <3>1, PhaseIs
      <4> QED
        BY <1>0, <2>5, <3>1, <4>1 DEF LookInv, At, Within
    <3> QED
      BY <1>2, <2>5, <3>2
  <2> QED
    BY <1>6, <2>1, <2>2, <2>3, <2>4, <2>5, LookedWritten
<1>7. CASE CfoCall
  <2>1. Cfo \in FrontEnd /\ Cfo # d /\ BoardTypes
    BY DEF FrontEnd, Types
  <2>2. board'[BoardOf[d]].links = board[BoardOf[d]].links
    BY <1>0, <1>7, <2>1, CfoEffects DEF CfoEffect
  <2> QED
    BY <1>0, <1>4, <1>7, <2>1, <2>2, CfoCallIs
<1>8. ASSUME NEW f \in FrontEnd, NoticesReboot(f) PROVE LookInv(d)'
  <2>1. Fails(f, "rebooted")
    BY <1>0, <1>8, NoticeIs
  <2>2. CASE Home(d) = Home(f)
    BY <1>0, <1>2, <2>1, <2>2, FailMoves
  <2>3. CASE Home(d) # Home(f)
    BY <1>0, <1>1, <2>1, <2>3, FailMoves
  <2> QED
    BY <2>2, <2>3
<1>9. ASSUME NEW f \in FrontEnd, Waits(f) PROVE LookInv(d)'
  BY <1>0, <1>1, <1>9, WaitMoves
<1>10. ASSUME NEW f \in FrontEnd, PastLast(f) PROVE LookInv(d)'
  <2>1. Answers(f, "done") /\ Ph(Home(f)) = 13 /\ UNCHANGED <<looked, board>>
    BY <1>0, <1>10, PastLastIs
  <2>2. CASE f # d
    BY <1>4, <2>1, <2>2 DEF Answer
  <2>3. CASE f = d
    <3>1. ~Within(d, 10) /\ gw[Home(d)].state # "Failed"
      BY <2>1, <2>3 DEF Within, Answers, IsCalled
    <3> QED
      BY <1>3, <2>1, <3>1
  <2> QED
    BY <2>2, <2>3
<1>11. ASSUME NEW s \in Subsystem, EndsIteration(s) PROVE LookInv(d)'
  <2>1. CASE Home(d) = s
    <3>1. gw[Home(d)].state = "Configuring" /\ gw[Home(d)].todo = {} /\ UNCHANGED looked
      BY <1>11, <2>1 DEF EndsIteration
    <3>2. ~Within(d, 10) /\ gw[Home(d)].state # "Failed"
      BY <3>1 DEF Within
    <3> QED
      BY <1>3, <3>1, <3>2
  <2>2. CASE Home(d) # s
    BY <1>0, <1>1, <1>11, <2>2, IterationMoves
  <2> QED
    BY <2>1, <2>2
<1>12. CASE NextTurn
  <2>1. gw[Home(d)].state \in {"PassDone", "Configured"} /\ UNCHANGED looked
    BY <1>0, <1>12, TurnMoves
  <2> QED
    BY <1>3, <2>1 DEF Within, Running
<1>13. ASSUME NEW m \in Modes, Configure(m) PROVE LookInv(d)'
  <2>1. gw[Home(d)].state = "Halted" /\ UNCHANGED looked
    BY <1>0, <1>13, ConfigureMoves
  <2> QED
    BY <1>3, <2>1 DEF Within, Running
<1>14. CASE Halt
  BY <1>2, <1>14 DEF Halt
<1>15. ASSUME NEW b \in MayReboot, Reboot(b) PROVE LookInv(d)'
  <2>1. UNCHANGED <<gw, looked>> /\ (board'[BoardOf[d]].links = "off" \/ board'[BoardOf[d]] = board[BoardOf[d]])
    BY <1>0, <1>15, RebootEffect DEF Reboot, Types
  <2> QED
    BY <1>1, <2>1, GwStill
<1>16. CASE UNCHANGED vars
  BY <1>1, <1>16, GwStill DEF vars
<1> QED
  BY <1>5, <1>6, <1>7, <1>8, <1>9, <1>10, <1>11, <1>12, <1>13, <1>14, <1>15, <1>16 DEF Next, System

\* A DTC front end without real ROCs never turns the links that their owner has set up into
\* emulated ones, although it reads them and writes them in two calls.
THEOREM OwnersLinksStay ==
  ASSUME TopLevel, Owners
  PROVE  Spec => OwnerKeepsLinks
<1> DEFINE I == Types /\ \A d \in DTC : LookInv(d)
<1>1. Init => I
  <2>1. Init => \A d \in DTC : LookInv(d)
    BY DEF Init, LookInv
  <2> QED
    BY <2>1, TypesInit
<1>2. I /\ [Next]_vars => I'
  BY TypesKept, LookKept
<1>3. ASSUME I, [Next]_vars, NEW b \in Board, board[b].links = "plain"
      PROVE  board'[b].links # "emulated"
  <2>0. BoardTypes /\ Skeleton
    BY <1>3 DEF Types
  <2>1. ASSUME NEW d \in DTC, DtcCall(d) PROVE board'[b].links # "emulated"
    <3>1. SUFFICES ASSUME board'[b].links = "emulated" PROVE FALSE
      OBVIOUS
    <3>2. DtcSetsLinks(d) /\ looked[d] = "off" /\ b = BoardOf[d]
      BY <1>3, <2>0, <2>1, <3>1, LinksWritten
    <3>3. gw[Home(d)].state # "Failed"
      BY <3>2 DEF DtcSetsLinks, At, IsCalled
    <3> QED
      BY <1>3, <3>2, <3>3 DEF LookInv
  <2>2. CASE CfoCall
    BY <1>3, <2>0, <2>2, CfoEffects DEF CfoEffect
  <2>3. ASSUME NEW c \in MayReboot, Reboot(c) PROVE board'[b].links # "emulated"
    BY <1>3, <2>0, <2>3, RebootEffect
  <2>4. CASE UNCHANGED board
    BY <1>3, <2>4
  <2> QED
    BY <1>3, <2>1, <2>2, <2>3, <2>4
    DEF Next, System, NoticesReboot, Throw, Waits, PastLast, EndsIteration, NextTurn, Configure, Halt, vars
<1>4. I /\ [Next]_vars => [\A b \in Board : board[b].links = "plain" => board'[b].links # "emulated"]_vars
  BY <1>3
<1> QED
  BY <1>1, <1>2, <1>4, PTL DEF Spec, OwnerKeepsLinks

-----------------------------------------------------------------------------
(* The edges, and the CFO's loop over them                                  *)

Good(b)    == board[b].edge /\ ~board[b].err
HomeBoard  == {BoardOf[c] : c \in CfoHome}
InFix      == Within(Cfo, CfoEdgeFix) /\ sub[Cfo] > 0
Checked(b) == \E c \in CfoHome : BoardOf[c] = b /\ c \notin pass.left

\* Who writes the edges: a front end that finds errors on its own board, and the CFO's loop.
LEMMA EdgesWritten ==
  ASSUME BoardTypes, NEW d \in DTC, DtcCall(d), NEW x \in Board
  PROVE  /\ \/ board'[x].edge = board[x].edge /\ (board'[x].err => board[x].err)
            \/ x >= BoardOf[d] /\ At(d, EdgePhase(d)) /\ EdgeFixing /\ TRUE \in EdgeErrors(BoardOf[d])
         /\ x = 1 /\ board'[x].err => board[x].err
<1> DEFINE b == BoardOf[d]
           Same == board'[x].edge = board[x].edge /\ (board'[x].err => board[x].err)
<1>0. b \in Board /\ board[b] \in BoardRegisters /\ board[x] \in BoardRegisters
  BY DEF BoardTypes
<1>1. ASSUME NEW r \in BoardRegisters, board' = [board EXCEPT ![b] = r], r.edge = board[b].edge,
             r.err => board[b].err
      PROVE  Same
  BY <1>0, <1>1, OneBoard
<1>2. CASE DtcClearsControl(d)
  <2> DEFINE r == [board[b] EXCEPT !.dcs = FALSE, !.drp = FALSE, !.evb = FALSE,
                                   !.links = IF d \in RealROCs THEN "off" ELSE board[b].links]
  <2>1. board' = [board EXCEPT ![b] = r]
    BY <1>2 DEF DtcClearsControl, ControlCleared
  <2>2. r \in BoardRegisters /\ r.edge = board[b].edge /\ r.err = board[b].err
    BY <1>0 DEF BoardRegisters
  <2> HIDE DEF r
  <2> QED
    BY <1>1, <2>1, <2>2
<1>3. CASE DtcPollsLock(d)
  <2>1. PICK lock \in {board[b].ja, TRUE} : board' = [board EXCEPT ![b].ja = lock]
    BY <1>3 DEF DtcPollsLock
  <2> DEFINE r == [board[b] EXCEPT !.ja = lock]
  <2>2. board' = [board EXCEPT ![b] = r]
    BY <2>1
  <2>3. r \in BoardRegisters /\ r.edge = board[b].edge /\ r.err = board[b].err
    BY <1>0, <2>1 DEF BoardRegisters
  <2> HIDE DEF r
  <2> QED
    BY <1>1, <2>2, <2>3
<1>4. CASE DtcEnablesLink(d)
  BY <1>0, <1>4 DEF DtcEnablesLink, BoardTypes, BoardRegisters
<1>5. CASE DtcWaitsForMarkers(d)
  <2>1. UNCHANGED board \/ board' = [board EXCEPT ![b].err = FALSE]
    BY <1>5 DEF DtcWaitsForMarkers, SoftReset, Throw
  <2> DEFINE r == [board[b] EXCEPT !.err = FALSE]
  <2>2. UNCHANGED board \/ board' = [board EXCEPT ![b] = r]
    BY <2>1
  <2>3. r \in BoardRegisters /\ r.edge = board[b].edge /\ ~r.err
    BY <1>0 DEF BoardRegisters
  <2> HIDE DEF r
  <2> QED
    BY <1>1, <2>2, <2>3
<1>6. CASE DtcAppliesOffset(d)
  BY <1>0, <1>6 DEF DtcAppliesOffset, BoardTypes, BoardRegisters
<1>7. CASE DtcVerifiesOffset(d)
  <2>1. UNCHANGED board \/ board' = [board EXCEPT ![b].offset = TRUE]
    BY <1>7 DEF DtcVerifiesOffset, Throw
  <2> DEFINE r == [board[b] EXCEPT !.offset = TRUE]
  <2>2. UNCHANGED board \/ board' = [board EXCEPT ![b] = r]
    BY <2>1
  <2>3. r \in BoardRegisters /\ r.edge = board[b].edge /\ r.err = board[b].err
    BY <1>0 DEF BoardRegisters
  <2> HIDE DEF r
  <2> QED
    BY <1>1, <2>2, <2>3
<1>8. CASE DtcSetsUpROCs(d)
  BY <1>0, <1>8 DEF DtcSetsUpROCs, LinksOf, BoardTypes, BoardRegisters
<1>9. CASE DtcSetsLinks(d)
  BY <1>0, <1>9 DEF DtcSetsLinks, BoardTypes, BoardRegisters
<1>10. CASE DtcSetsDataPath(d)
  <2> DEFINE r == [board[b] EXCEPT !.drp = TRUE, !.evb = board[b].evb \/ d \in RealROCs]
  <2>1. board' = [board EXCEPT ![b] = r]
    BY <1>10 DEF DtcSetsDataPath
  <2>2. r \in BoardRegisters /\ r.edge = board[b].edge /\ r.err = board[b].err
    BY <1>0 DEF BoardRegisters
  <2> HIDE DEF r
  <2> QED
    BY <1>1, <2>1, <2>2
<1>11. CASE DtcFinalReset(d)
  BY <1>0, <1>11 DEF DtcFinalReset, BoardTypes, BoardRegisters
<1>12. CASE DtcFindsEdgeErrors(d)
  <2>1. UNCHANGED board \/ \E turned, latched \in SUBSET Downstream(b) : board' = Toggled(b, turned, latched)
    BY <1>12 DEF DtcFindsEdgeErrors, Throw
  <2>2. CASE \E turned, latched \in SUBSET Downstream(b) : board' = Toggled(b, turned, latched)
    <3>0. PICK turned \in SUBSET Downstream(b), latched \in SUBSET Downstream(b) : board' = Toggled(b, turned, latched)
      BY <2>2
    <3>1. /\ board'[b].err = FALSE
          /\ x < b => board'[x].edge = board[x].edge /\ board'[x].err = board[x].err
      BY <1>0, <3>0, ToggledBoards
    <3>2. x = 1 => x = b \/ x < b
      BY <1>0 DEF Board
    <3>3. x >= b \/ x < b
      BY <1>0 DEF Board
    <3> QED
      BY <1>12, <3>1, <3>2, <3>3 DEF DtcFindsEdgeErrors
  <2> QED
    BY <2>1, <2>2
<1>13. CASE UNCHANGED board
  BY <1>13
<1> QED
  BY <1>2, <1>3, <1>4, <1>5, <1>6, <1>7, <1>8, <1>9, <1>10, <1>11, <1>12, <1>13
  DEF DtcCall, DtcSetsClock, DtcChecksLock, DtcIdles, DtcFindsEdgeClean, DtcStartsOffset,
      DtcWaitsForHistogram, DtcWaitsToVerify, DtcConfiguresROCs, DtcReadsLinks, Throw

LEMMA CfoEdgesWritten ==
  ASSUME BoardTypes, CfoCall, NEW x \in Board
  PROVE  /\ \/ board'[x].edge = board[x].edge /\ board'[x].err = board[x].err
            \/ \E d \in CfoHome : CfoFixesEdge(d)
         /\ x = 1 /\ board'[x].err => board[x].err
<1>1. CASE CfoEnablesChain
  <2>1. PICK stuck \in SUBSET Board :
          board' = [y \in Board |-> [board[y] EXCEPT !.rx = board[y].rx \/ \E d \in CfoHome : BoardOf[d] = y,
                                                     !.stuck = y \in stuck]]
    BY <1>1 DEF CfoEnablesChain
  <2> DEFINE e == board[x].rx \/ \E d \in CfoHome : BoardOf[d] = x
             l == x \in stuck
  <2>2. board'[x] = [board[x] EXCEPT !.rx = e, !.stuck = l] /\ board[x] \in BoardRegisters
    BY <2>1 DEF BoardTypes
  <2> HIDE DEF e, l
  <2> QED
    BY <2>2 DEF BoardRegisters
<1>2. CASE CfoChecksLocks
  BY <1>2 DEF CfoChecksLocks, Throw, BoardTypes, BoardRegisters
<1>3. ASSUME NEW d \in CfoHome, CfoFixesEdge(d)
      PROVE  x = 1 /\ board'[x].err => board[x].err
  <2>1. CASE \E turned, latched \in SUBSET Downstream(BoardOf[d]) : board' = Toggled(BoardOf[d], turned, latched)
    <3> DEFINE b == BoardOf[d]
    <3>1. b \in Board /\ (x = 1 => x = b \/ x < b)
      BY DEF Board
    <3>2. PICK turned \in SUBSET Downstream(b), latched \in SUBSET Downstream(b) : board' = Toggled(b, turned, latched)
      BY <2>1
    <3>3. board'[b].err = FALSE /\ (x < b => board'[x].err = board[x].err)
      BY <3>1, <3>2, ToggledBoards
    <3> QED
      BY <3>1, <3>3
  <2> QED
    BY <1>3, <2>1 DEF CfoFixesEdge
<1>4. CASE UNCHANGED board
  BY <1>4
<1> QED
  BY <1>1, <1>2, <1>3, <1>4
  DEF CfoCall, CfoClearsControl, CfoSetsClock, CfoPollsLock, CfoIdles, CfoValidatesRTF, CfoFindsNoMarkers,
      CfoEndsPass, CfoStopsEvents, CfoFinalReset, CfoEnablesOperation, Throw

\* The DTC front ends idle in the CFO's edge-fix phase.
LEMMA FixPhaseIdle ==
  ASSUME NEW d \in DTC, DtcCall(d), At(d, CfoEdgeFix)
  PROVE  UNCHANGED board
<1> USE DEF ClocksA, ClocksB, ChainEnable, ChainCheck, CfoEdgeFix, SyncA, SyncB, SyncC, SyncD,
            RocConfig, RocDataPath, FinalSoftReset
<1>1. ASSUME NEW q, At(d, q), q # 4 PROVE FALSE
  BY <1>1 DEF At
<1>2. ClockPhase(d) # 4 /\ EdgePhase(d) # 4 /\ OffsetPhase(d) # 4
  BY DEF ClockPhase, EdgePhase, OffsetPhase
<1>3. ~DtcClearsControl(d) /\ ~DtcSetsClock(d) /\ ~DtcPollsLock(d)
  BY <1>1, <1>2 DEF DtcClearsControl, DtcSetsClock, DtcPollsLock
<1>6. ~DtcEnablesLink(d) /\ ~DtcChecksLock(d)
  BY <1>1 DEF DtcEnablesLink, DtcChecksLock
<1>7. ~DtcWaitsForMarkers(d) /\ ~DtcFindsEdgeClean(d)
  BY <1>1, <1>2 DEF DtcWaitsForMarkers, DtcFindsEdgeClean
<1>8. ~DtcFindsEdgeErrors(d)
  BY <1>1, <1>2 DEF DtcFindsEdgeErrors
<1>4. /\ ~DtcStartsOffset(d) /\ ~DtcWaitsForHistogram(d) /\ ~DtcAppliesOffset(d) /\ ~DtcWaitsToVerify(d)
      /\ ~DtcVerifiesOffset(d)
  BY <1>1, <1>2 DEF DtcStartsOffset, DtcWaitsForHistogram, DtcAppliesOffset, DtcWaitsToVerify,
     DtcVerifiesOffset, AtOffset
<1>5. /\ ~DtcSetsUpROCs(d) /\ ~DtcConfiguresROCs(d) /\ ~DtcReadsLinks(d) /\ ~DtcSetsLinks(d)
      /\ ~DtcSetsDataPath(d) /\ ~DtcFinalReset(d)
  BY <1>1 DEF DtcSetsUpROCs, DtcConfiguresROCs, DtcReadsLinks, DtcSetsLinks, DtcSetsDataPath, DtcFinalReset
<1> QED
  BY <1>3, <1>4, <1>5, <1>6, <1>7, <1>8 DEF DtcCall, DtcIdles

\* In its CFO edge-fix phase the CFO front end does nothing but run the loop.
LEMMA FixCalls ==
  ASSUME Skeleton, CfoCall, EdgeFixing, Ph("cfo") = 4
  PROVE  \/ CfoValidatesRTF
         \/ \E d \in CfoHome : CfoFixesEdge(d) \/ CfoFindsNoMarkers(d)
         \/ CfoEndsPass
<1> USE DEF ClocksA, ClocksB, ChainEnable, ChainCheck, CfoEdgeFix, SyncA, SyncB, SyncC, SyncD, SyncE,
            RocConfig, RocDataPath, FinalSoftReset, EventSending
<1>1. ASSUME NEW q, At(Cfo, q), q # 4 PROVE FALSE
  <2>1. Cfo \in FrontEnd /\ Home(Cfo) = "cfo"
    BY Homes DEF FrontEnd
  <2> QED
    BY <1>1, <2>1, AtIs
<1>2. ~CfoClearsControl /\ ~CfoSetsClock /\ ~CfoPollsLock
  BY <1>1 DEF CfoClearsControl, CfoSetsClock, CfoPollsLock
<1>5. ~CfoEnablesChain
  <2>1. CfoEnablesChain => At(Cfo, 2)
    BY DEF CfoEnablesChain
  <2> QED
    BY <1>1, <2>1
<1>6. ~CfoChecksLocks
  BY <1>1 DEF CfoChecksLocks
<1>3. ~CfoIdles
  BY <1>1 DEF CfoIdles, CfoIdlePhase
<1>4. ~CfoStopsEvents /\ ~CfoFinalReset /\ ~CfoEnablesOperation
  BY <1>1 DEF CfoStopsEvents, CfoFinalReset, CfoEnablesOperation
<1> QED
  BY <1>2, <1>3, <1>4, <1>5, <1>6 DEF CfoCall

\* From the second pass per board on, counted from the head of the chain, the board's edge is
\* right and no error is left: the pass before that finds a clean board and perhaps a wrong
\* edge, and the one before it perhaps an error that a toggle upstream has latched.
Settled(b) ==
  /\ sub[Cfo] >= 2 * b => Good(b)
  /\ sub[Cfo] = 2 * b - 1 => ~board[b].err /\ (Checked(b) => board[b].edge)
  /\ sub[Cfo] = 2 * b - 2 => (Checked(b) => ~board[b].err)

LoopInv ==
  EdgeFixing /\ InFix =>
    /\ sub[Cfo] >= 2 * Boards => ~pass.toggled
    /\ \A b \in HomeBoard : Locked(b) => Settled(b)

\* Nothing upstream of the first board can latch errors there.
FixInv ==
  /\ ~board[1].err /\ LoopInv
  /\ MaxPasses >= 2 * Boards => failure # "notConverged"

\* A board that is locked and shows no error while events flow is good, and one that shows an
\* error is not.
LEMMA EventsTell ==
  ASSUME NEW b, cfo.events
  PROVE  /\ FALSE \in EdgeErrors(b) => Good(b)
         /\ TRUE \in EdgeErrors(b) => ~Good(b)
BY DEF EdgeErrors, Good

\* The loop's verdict on one board.
LEMMA FixingSettles ==
  ASSUME Types, CfoInv, LoopInv, NEW d \in CfoHome, CfoFixesEdge(d)
  PROVE  LoopInv'
<1> DEFINE x == BoardOf[d]
<1>0. /\ Skeleton /\ BoardTypes /\ Cfo \in FrontEnd /\ Home(Cfo) = "cfo" /\ sub[Cfo] \in Nat
      /\ x \in Board /\ x \in HomeBoard
      /\ pass \in [left : SUBSET CfoHome, toggled : BOOLEAN, clean : 0 .. 1]
  BY Homes DEF Types, BookTypes, FrontEnd, HomeBoard, Skeleton, SkeletonTypes
<1>1. Within(Cfo, 4) /\ Past(Cfo, 2) /\ ~Past(Cfo, 9) /\ sub[Cfo] > 0 /\ EdgeFixing
  <2>1. At(Cfo, 4)
    BY DEF CfoFixesEdge, AtEdgeFix, CfoEdgeFix
  <2> QED
    BY <1>0, <2>1, CalledAt DEF CfoFixesEdge, AtEdgeFix
<1>2. cfo.events /\ InFix /\ Locked(x)
  BY <1>1 DEF CfoInv, ChainEnable, SyncE, InFix, CfoEdgeFix, CfoFixesEdge, MarkersArrive
<1>3. /\ sub[Cfo] >= 2 * Boards => ~pass.toggled
      /\ \A b \in HomeBoard : Locked(b) => Settled(b)
  BY <1>1, <1>2 DEF LoopInv
<1>4. /\ UNCHANGED <<mode, gw, sub, cfo>> /\ pass'.left = pass.left \ {d}
      /\ \/ FALSE \in EdgeErrors(x) /\ pass'.toggled = pass.toggled /\ UNCHANGED board
         \/ /\ TRUE \in EdgeErrors(x) /\ pass'.toggled = TRUE
            /\ \E turned, latched \in SUBSET Downstream(x) : board' = Toggled(x, turned, latched)
  BY <1>0 DEF CfoFixesEdge
<1>5. \A b \in Board : b # x => Checked(b)' = Checked(b)
  BY <1>4 DEF Checked
<1>6. CASE FALSE \in EdgeErrors(x) /\ pass'.toggled = pass.toggled /\ UNCHANGED board
  <2>1. Good(x)
    BY <1>2, <1>6, EventsTell
  <2>2. ASSUME NEW b \in HomeBoard, Locked(b)' PROVE Settled(b)'
    <3>1. b \in Board /\ Locked(b) /\ Settled(b)
      BY <1>3, <1>4, <1>6, <2>2 DEF Locked, HomeBoard
    <3>2. CASE b = x
      BY <1>6, <2>1, <3>2 DEF Settled, Good
    <3>3. CASE b # x
      BY <1>4, <1>5, <1>6, <3>1, <3>3 DEF Settled, Good
    <3> QED
      BY <3>2, <3>3
  <2> QED
    BY <1>3, <1>4, <1>6, <2>2 DEF LoopInv
<1>7. CASE /\ TRUE \in EdgeErrors(x) /\ pass'.toggled = TRUE
           /\ \E turned, latched \in SUBSET Downstream(x) : board' = Toggled(x, turned, latched)
  <2>1. ~Good(x) /\ Settled(x)
    BY <1>0, <1>2, <1>3, <1>7, EventsTell
  <2>2. sub[Cfo] < 2 * x /\ x \in 1 .. Boards /\ Boards \in Nat
    BY <1>0, <2>1 DEF Settled, Board
  <2>3. /\ board'[x].edge = ~board[x].edge /\ board'[x].err = FALSE
        /\ \A b \in Board : b < x => board'[b].edge = board[b].edge /\ board'[b].err = board[b].err
        /\ \A b \in Board : /\ board'[b].ja = board[b].ja /\ board'[b].rx = board[b].rx
                            /\ board'[b].stuck = board[b].stuck
    <3>1. PICK turned \in SUBSET Downstream(x), latched \in SUBSET Downstream(x) : board' = Toggled(x, turned, latched)
      BY <1>7
    <3> QED
      BY <1>0, <3>1, ToggledBoards
  <2>5. ASSUME NEW b \in HomeBoard, Locked(b)' PROVE Settled(b)'
    <3>1. b \in Board /\ b \in 1 .. Boards
      BY DEF HomeBoard, Board
    <3>2. Locked(b)
      <4>1. \A u \in 1 .. b : u \in Board
        BY <2>2, <3>1 DEF Board
      <4> QED
        BY <1>4, <2>3, <2>5, <4>1 DEF Locked
    <3>3. Settled(b)
      BY <1>3, <3>2
    <3>4. CASE b = x
      <4>1. board[x].err \in BOOLEAN /\ board[x].edge \in BOOLEAN
        BY <1>0 DEF BoardTypes, BoardRegisters
      <4>2. sub[Cfo] = 2 * x - 1 => board'[x].edge
        BY <2>1, <2>3, <4>1 DEF Settled, Good
      <4>3. sub'[Cfo] = sub[Cfo] /\ ~(sub[Cfo] >= 2 * x) /\ ~board'[x].err
        BY <1>0, <1>4, <2>2, <2>3
      <4> QED
        BY <3>4, <4>2, <4>3 DEF Settled
    <3>5. CASE b < x
      BY <1>4, <1>5, <2>3, <3>1, <3>3, <3>5 DEF Settled, Good
    <3>6. CASE b > x
      <4>1. ~(sub[Cfo] >= 2 * b) /\ sub[Cfo] # 2 * b - 1 /\ sub[Cfo] # 2 * b - 2
        BY <1>0, <2>2, <3>1, <3>6
      <4> QED
        BY <1>4, <4>1 DEF Settled
    <3> QED
      BY <1>0, <3>1, <3>4, <3>5, <3>6 DEF Board
  <2>6. ~(sub[Cfo] >= 2 * Boards)
    BY <1>0, <2>2
  <2> QED
    BY <1>4, <2>5, <2>6 DEF LoopInv
<1> QED
  BY <1>4, <1>6, <1>7

\* The end of a pass that has another one to come.
LEMMA PassSettles ==
  ASSUME Types, LoopInv, CfoEndsPass, Reply(Cfo, "sub"), Within(Cfo, 4),
         pass' = [left |-> CfoHome, toggled |-> FALSE, clean |-> CleanPasses], UNCHANGED <<cfo, board>>
  PROVE  LoopInv'
<1>1. sub[Cfo] > 0 /\ sub[Cfo] \in Nat /\ pass.left = {} /\ EdgeFixing /\ sub'[Cfo] = sub[Cfo] + 1
  BY DEF CfoEndsPass, AtEdgeFix, Reply, Types, Skeleton, SkeletonTypes, FrontEnd
<1>2. \A b \in HomeBoard : Locked(b) => Settled(b)
  BY <1>1 DEF LoopInv, InFix, CfoEdgeFix
<1>3. ASSUME NEW b \in HomeBoard, Locked(b)' PROVE Settled(b)'
  <2>1. Locked(b) /\ Settled(b) /\ b \in Nat
    BY <1>2, <1>3 DEF Locked, HomeBoard, Board
  <2>2. Checked(b) /\ ~Checked(b)'
    BY <1>1 DEF Checked, HomeBoard
  <2>3. /\ sub[Cfo] >= 2 * b - 1 => Good(b)
        /\ sub[Cfo] = 2 * b - 2 => ~board[b].err
    BY <1>1, <2>1, <2>2 DEF Settled, Good
  <2> QED
    BY <1>1, <2>1, <2>2, <2>3 DEF Settled, Good
<1> QED
  BY <1>3 DEF LoopInv

LEMMA HeadKept ==
  ASSUME Types, ~board[1].err, [Next]_vars
  PROVE  ~board'[1].err
<1>0. BoardTypes /\ 1 \in Board /\ Skeleton
  BY DEF Types, Board
<1>1. CASE UNCHANGED board
  BY <1>1
<1>2. ASSUME NEW d \in DTC, DtcCall(d) PROVE ~board'[1].err
  BY <1>0, <1>2, EdgesWritten
<1>3. CASE CfoCall
  BY <1>0, <1>3, CfoEdgesWritten
<1>4. ASSUME NEW b \in MayReboot, Reboot(b) PROVE ~board'[1].err
  BY <1>0, <1>4, RebootEffect
<1>5. ASSUME NEW f \in FrontEnd, NoticesReboot(f) \/ Waits(f) \/ PastLast(f) PROVE UNCHANGED board
  BY <1>5 DEF NoticesReboot, Throw, Waits, PastLast
<1>6. ASSUME NEW s \in Subsystem, EndsIteration(s) PROVE UNCHANGED board
  BY <1>6 DEF EndsIteration
<1>7. NextTurn \/ (\E m \in Modes : Configure(m)) \/ Halt \/ UNCHANGED vars => UNCHANGED board
  BY DEF NextTurn, Configure, Halt, vars
<1> QED
  BY <1>1, <1>2, <1>3, <1>4, <1>5, <1>6, <1>7 DEF Next, System

\* What a step of another kind than the loop's own does to it.
LEMMA LoopKept ==
  ASSUME Types, CfoInv, TopLevel, LoopInv, ~board[1].err, [Next]_vars
  PROVE  LoopInv'
<1> USE DEF CfoEdgeFix
<1>0. /\ Skeleton /\ BoardTypes /\ Cfo \in FrontEnd /\ Home(Cfo) = "cfo" /\ sub[Cfo] \in Nat
      /\ 4 \in 0 .. Last(Home(Cfo)) /\ OnTurn("cfo")
  <2>1. /\ Skeleton /\ BoardTypes /\ Cfo \in FrontEnd /\ Home(Cfo) = "cfo" /\ sub[Cfo] \in Nat
        /\ 4 \in 0 .. Last(Home(Cfo)) /\ gw["cfo"].turn \in -1 .. 1
    BY Homes DEF Types, Skeleton, SkeletonTypes, FrontEnd, Last, EventSending, Subsystem
  <2>2. gw["cfo"].turn # 1
    BY <2>1 DEF Skeleton, GatewayInv, Subsystem
  <2> QED
    BY <2>1, <2>2 DEF OnTurn, Standalone, Pass
<1>1. ASSUME UNCHANGED <<mode, board, pass, cfo>>, Within(Cfo, 4)' => Within(Cfo, 4), sub'[Cfo] = sub[Cfo]
      PROVE  LoopInv'
  <2>1. /\ EdgeFixing' = EdgeFixing /\ (InFix' => InFix)
        /\ \A b \in HomeBoard : Locked(b)' = Locked(b) /\ Settled(b)' = Settled(b)
    BY <1>1 DEF EdgeFixing, InFix, Locked, Settled, Good, Checked
  <2> QED
    BY <1>1, <2>1 DEF LoopInv
<1>2. ASSUME ~Within(Cfo, 4)' \/ sub'[Cfo] = 0 PROVE LoopInv'
  BY <1>0, <1>2 DEF LoopInv, InFix
<1>3. ASSUME NEW f \in FrontEnd, NEW why, Fails(f, why) PROVE LoopInv'
  BY <1>0, <1>1, <1>3, FailMoves
<1>4. ASSUME NEW d \in DTC, DtcCall(d) PROVE LoopInv'
  <2>1. d \in FrontEnd /\ d # Cfo
    BY DEF FrontEnd
  <2>2. ASSUME IsCalled(d), IsMyTurn(d), Within(Cfo, 4) PROVE UNCHANGED board
    <3>1. Home(d) = "cfo"
      <4>1. Home(d) \in Subsystem /\ gw["cfo"].state = "Configuring"
        BY <1>0, <2>1, <2>2, Homes DEF Within, Running
      <4> QED
        BY <1>0, <2>1, <2>2, <4>1, Turns DEF Subsystem
    <3>2. Phase(d) = 4
      BY <1>0, <2>1, <2>2, <3>1, PhaseIs DEF Within
    <3> QED
      BY <1>4, <2>2, <3>2, FixPhaseIdle DEF At
  <2>3. ASSUME NEW r \in Answer, Answers(d, r) PROVE LoopInv'
    <3>1. (Within(Cfo, 4)' <=> Within(Cfo, 4)) /\ sub'[Cfo] = sub[Cfo] /\ UNCHANGED mode
      BY <1>0, <2>1, <2>3, AnswerMoves DEF Answers
    <3> QED
      BY <1>0, <1>1, <1>2, <1>4, <2>2, <2>3, <3>1, DtcCallIs DEF Answers
  <2>4. CASE LeavesOpen(d) /\ board' = board
    BY <1>0, <1>1, <1>4, <2>4, GwStill, DtcCallIs DEF LeavesOpen
  <2> QED
    BY <1>0, <1>3, <1>4, <2>1, <2>3, <2>4, DtcCallIs
<1>5. CASE CfoCall
  <2>1. CASE Within(Cfo, 4) /\ EdgeFixing
    <3>0. Ph("cfo") = 4 /\ sub'[Cfo] \in Nat
      BY <1>0, <2>1, TypesKept DEF Within, Types, Skeleton, SkeletonTypes
    <3>1. CASE CfoValidatesRTF
      <4>1. CASE /\ pass' = [NoPass EXCEPT !.left = CfoHome] /\ Reply(Cfo, "sub") /\ UNCHANGED <<cfo, board>>
        <5>1. sub'[Cfo] = 1 /\ pass'.left = CfoHome /\ ~pass'.toggled
          BY <1>0, <3>1, <4>1 DEF CfoValidatesRTF, NoPass, Reply, Skeleton, SkeletonTypes
        <5>2. ASSUME NEW b \in HomeBoard PROVE Settled(b)'
          <6>1. b \in Nat /\ b >= 1
            BY DEF HomeBoard, Board
          <6>2. ~Checked(b)' /\ board' = board
            BY <4>1, <5>1 DEF Checked
          <6> QED
            BY <5>1, <6>1, <6>2 DEF Settled
        <5> QED
          BY <5>1, <5>2 DEF LoopInv
      <4>2. CASE Throw(Cfo, "rtfStatus")
        <5>1. gw'["cfo"].state = "Failed"
          BY <1>0, <4>2 DEF Throw, Skeleton, SkeletonTypes, Subsystem
        <5> QED
          BY <1>0, <1>2, <5>1 DEF Within, Running, Home
      <4> QED
        BY <3>1, <4>1, <4>2 DEF CfoValidatesRTF
    <3>2. ASSUME NEW d \in CfoHome, CfoFixesEdge(d) PROVE LoopInv'
      BY <3>2, FixingSettles
    <3>3. ASSUME NEW d \in CfoHome, CfoFindsNoMarkers(d) PROVE LoopInv'
      <4>1. gw'["cfo"].state = "Failed"
        BY <1>0, <3>3 DEF CfoFindsNoMarkers, Throw, Skeleton, SkeletonTypes, Subsystem
      <4> QED
        BY <1>0, <1>2, <4>1 DEF Within, Running, Home
    <3>4. CASE CfoEndsPass
      <4>1. CASE Reply(Cfo, "more")
        <5>1. sub'[Cfo] = 0
          BY <1>0, <4>1 DEF Reply, Skeleton, SkeletonTypes
        <5> QED
          BY <1>2, <5>1
      <4>2. CASE /\ pass' = [left |-> CfoHome, toggled |-> FALSE, clean |-> CleanPasses]
                 /\ Reply(Cfo, "sub") /\ UNCHANGED <<cfo, board>>
        BY <2>1, <3>4, <4>2, PassSettles
      <4>3. CASE Throw(Cfo, "notConverged")
        <5>1. gw'["cfo"].state = "Failed"
          BY <1>0, <4>3 DEF Throw, Skeleton, SkeletonTypes, Subsystem
        <5> QED
          BY <1>0, <1>2, <5>1 DEF Within, Running, Home
      <4> QED
        BY <3>4, <4>1, <4>2, <4>3 DEF CfoEndsPass
    <3> QED
      BY <1>0, <1>5, <2>1, <3>0, <3>1, <3>2, <3>3, <3>4, FixCalls
  <2>2. CASE ~(Within(Cfo, 4) /\ EdgeFixing)
    <3>1. ASSUME NEW r \in Answer, Answers(Cfo, r) PROVE LoopInv'
      <4>1. (Within(Cfo, 4)' => Within(Cfo, 4)) /\ UNCHANGED mode
        BY <1>0, <3>1, AnswerMoves DEF Answers
      <4> QED
        BY <2>2, <4>1 DEF LoopInv, InFix, EdgeFixing
    <3>2. CASE LeavesOpen(Cfo)
      <4>1. (Within(Cfo, 4)' <=> Within(Cfo, 4)) /\ UNCHANGED mode
        BY <3>2, GwStill DEF LeavesOpen
      <4> QED
        BY <2>2, <4>1 DEF LoopInv, InFix, EdgeFixing
    <3> QED
      BY <1>0, <1>3, <1>5, <3>1, <3>2, CfoCallIs
  <2> QED
    BY <2>1, <2>2
<1>6. ASSUME NEW f \in FrontEnd, NoticesReboot(f) PROVE LoopInv'
  BY <1>0, <1>3, <1>6, NoticeIs
<1>7. ASSUME NEW f \in FrontEnd, Waits(f) PROVE LoopInv'
  BY <1>0, <1>1, <1>7, WaitMoves
<1>8. ASSUME NEW f \in FrontEnd, PastLast(f) PROVE LoopInv'
  <2>1. Answers(f, "done") /\ Ph(Home(f)) = 13 /\ UNCHANGED <<pass, cfo, board>>
    BY <1>0, <1>8, PastLastIs
  <2>2. (Within(Cfo, 4)' => Within(Cfo, 4) /\ f # Cfo) /\ (f # Cfo => sub'[Cfo] = sub[Cfo]) /\ UNCHANGED mode
    BY <1>0, <2>1, AnswerMoves DEF Answers, Answer
  <2> QED
    BY <1>1, <1>2, <2>1, <2>2
<1>9. ASSUME NEW s \in Subsystem, EndsIteration(s) PROVE LoopInv'
  <2>1. CASE Home(Cfo) # s
    BY <1>0, <1>1, <1>9, <2>1, IterationMoves
  <2>2. CASE Home(Cfo) = s
    BY <1>0, <1>2, <1>9, <2>2, IterationMoves
  <2> QED
    BY <2>1, <2>2
<1>10. CASE NextTurn
  <2>1. Within(Cfo, 4)' => 4 = 0
    BY <1>0, <1>10, TurnMoves
  <2> QED
    BY <1>2, <2>1
<1>11. ASSUME NEW m \in Modes, Configure(m) PROVE LoopInv'
  <2>1. Within(Cfo, 4)' => 4 = 0
    BY <1>0, <1>11, ConfigureMoves
  <2> QED
    BY <1>2, <2>1
<1>12. CASE Halt
  BY <1>0, <1>2, <1>12, HaltMoves
<1>13. ASSUME NEW b \in MayReboot, Reboot(b) PROVE LoopInv'
  <2>1. /\ b \in Board /\ ~board'[b].ja /\ \A x \in Board : x # b => board'[x] = board[x]
        /\ UNCHANGED <<mode, gw, sub, pass, cfo>>
    BY <1>0, <1>13, RebootEffect DEF Reboot
  <2>2. EdgeFixing' = EdgeFixing /\ InFix' = InFix
    BY <2>1 DEF EdgeFixing, InFix, Within, Running, OnTurn, Ph, FirstIter, Home, Pass
  <2>3. ASSUME NEW x \in HomeBoard, Locked(x)', Locked(x) => Settled(x) PROVE Settled(x)'
    <3>1. x \in Board
      BY DEF HomeBoard
    <3>2. x < b
      <4>1. ~(b \in 1 .. x)
        BY <2>1, <2>3 DEF Locked
      <4> QED
        BY <2>1, <3>1, <4>1 DEF Board
    <3>3. \A u \in 1 .. x : u \in Board /\ u # b
      BY <2>1, <3>1, <3>2 DEF Board
    <3>4. Locked(x) /\ board'[x] = board[x]
      BY <2>1, <2>3, <3>1, <3>2, <3>3 DEF Locked, Board
    <3> QED
      BY <2>1, <2>3, <3>4 DEF Settled, Good, Checked
  <2> QED
    BY <2>1, <2>2, <2>3 DEF LoopInv
<1>14. CASE UNCHANGED vars
  BY <1>1, <1>14, GwStill DEF vars
<1> QED
  BY <1>4, <1>5, <1>6, <1>7, <1>8, <1>9, <1>10, <1>11, <1>12, <1>13, <1>14 DEF Next, System

\* The CFO gives up only in a pass that has toggled an edge.
LEMMA NeverGivesUp ==
  ASSUME Types, LoopInv, MaxPasses >= 2 * Boards, failure # "notConverged", [Next]_vars
  PROVE  failure' # "notConverged"
<1>0. Skeleton /\ Cfo \in FrontEnd /\ Home(Cfo) = "cfo" /\ sub[Cfo] \in Nat
  BY Homes DEF Types, Skeleton, SkeletonTypes, FrontEnd
<1>1. CASE UNCHANGED failure
  BY <1>1
<1>2. ASSUME NEW f \in FrontEnd, NEW why, Fails(f, why), why # "notConverged" PROVE failure' # "notConverged"
  BY <1>2 DEF Fails, Throw
<1>3. ASSUME NEW f \in FrontEnd, (\E r \in Answer : Answers(f, r)) \/ LeavesOpen(f) PROVE UNCHANGED failure
  BY <1>3 DEF Answers, Reply, LeavesOpen
<1>4. ASSUME NEW d \in DTC, DtcCall(d) PROVE failure' # "notConverged"
  BY <1>0, <1>1, <1>2, <1>3, <1>4, DtcCallIs DEF FrontEnd
<1>5. CASE CfoCall
  <2>1. ~GivesUp
    <3>1. SUFFICES ASSUME GivesUp PROVE FALSE
      OBVIOUS
    <3>2. Within(Cfo, 4)
      <4>1. IsCalled(Cfo) /\ Ph("cfo") = 4 /\ Cfo \in gw["cfo"].todo /\ Running("cfo")
        BY <1>0, <1>5, <3>1, CfoCallIs DEF GivesUp, CfoEdgeFix, IsCalled, Running
      <4>2. gw["cfo"].turn \in -1 .. 1 /\ gw["cfo"].turn # 1
        BY <1>0 DEF Skeleton, SkeletonTypes, GatewayInv, Subsystem
      <4> QED
        BY <1>0, <4>1, <4>2 DEF Within, OnTurn, Standalone, Pass
    <3>3. ~pass.toggled
      <4>1. sub[Cfo] >= 2 * Boards
        BY <1>0, <3>1 DEF GivesUp
      <4> QED
        BY <3>1, <3>2, <4>1 DEF LoopInv, GivesUp, InFix, CfoEdgeFix
    <3> QED
      BY <3>1, <3>3 DEF GivesUp
  <2> QED
    BY <1>0, <1>1, <1>2, <1>3, <1>5, <2>1, CfoCallIs
<1>6. ASSUME NEW f \in FrontEnd, NoticesReboot(f) PROVE failure' # "notConverged"
  BY <1>0, <1>2, <1>6, NoticeIs
<1>7. ASSUME NEW f \in FrontEnd, Waits(f) \/ PastLast(f) PROVE UNCHANGED failure
  BY <1>7 DEF Waits, PastLast, Reply
<1>8. ASSUME NEW s \in Subsystem, EndsIteration(s) PROVE UNCHANGED failure
  BY <1>8 DEF EndsIteration
<1>9. ASSUME NEW m \in Modes, Configure(m) PROVE failure' # "notConverged"
  BY <1>9 DEF Configure
<1>10. NextTurn \/ Halt \/ (\E b \in MayReboot : Reboot(b)) \/ UNCHANGED vars => UNCHANGED failure
  BY DEF NextTurn, Halt, Reboot, vars
<1> QED
  BY <1>1, <1>4, <1>5, <1>6, <1>7, <1>8, <1>9, <1>10 DEF Next, System

\* With a limit of two passes per board the CFO's loop over the sample edges never gives up,
\* although fixing an edge may undo the boards downstream of it.
THEOREM EdgeFixEnds ==
  ASSUME TopLevel
  PROVE  Spec => []EdgeFixConverges
<1> DEFINE Inv == Types /\ CfoInv /\ FixInv
<1>1. Init => Inv
  <2> SUFFICES ASSUME Init PROVE Inv
    OBVIOUS
  <2>1. Types /\ CfoInv
    BY TypesInit, CfoInvInit
  <2>2. ~board[1].err
    BY DEF Init, FreshBoard, Board
  <2>3. LoopInv
    BY HaltedInit DEF LoopInv, InFix, FrontEnd
  <2> QED
    BY <2>1, <2>2, <2>3 DEF FixInv, Init
<1>2. Inv /\ [Next]_vars => Inv'
  <2> SUFFICES ASSUME Inv, [Next]_vars PROVE Inv'
    OBVIOUS
  <2>1. Types' /\ CfoInv'
    BY TypesKept, CfoInvKept
  <2>2. ~board'[1].err /\ LoopInv'
    BY HeadKept, LoopKept DEF FixInv
  <2>3. MaxPasses >= 2 * Boards => failure' # "notConverged"
    BY NeverGivesUp DEF FixInv
  <2> QED
    BY <2>1, <2>2, <2>3 DEF FixInv
<1>3. Inv => EdgeFixConverges
  BY DEF FixInv, EdgeFixConverges
<1> QED
  BY <1>1, <1>2, <1>3, PTL DEF Spec

-----------------------------------------------------------------------------
(* What a finished configure leaves on the boards                           *)

\* Every board has a front end that would notice its reboot; and so, in the CFO's subsystem,
\* has every board upstream of one that the CFO's subsystem brings up first.
Layout ==
  /\ \A b \in Board : \E d \in DTC : BoardOf[d] = b
  /\ \A h \in HomeBoard, b \in Board : b < h => b \in HomeBoard

\* No reboot waits to be noticed in the front end's pass.  A detector's front end depends on
\* the boards that the CFO's subsystem has brought up, not the other way round.
Fresh(d) == IF d \in CfoHome THEN stale \cap CfoHome = {} ELSE stale = {}

\* Home edges are good once the loop has ended, and the checked ones in a pass without toggle.
EdgesInv ==
  stale \cap CfoHome = {} /\ EdgeFixing => \A c \in CfoHome :
    Past(Cfo, CfoEdgeFix) \/ (InFix /\ ~pass.toggled /\ c \notin pass.left) => Good(BoardOf[c])

ChainInv(d) == Past(d, ChainCheck) => Locked(BoardOf[d])

OffsetInv(d) ==
  Syncing /\ (Past(d, OffsetPhase(d)) \/ (Within(d, OffsetPhase(d)) /\ sub[d] > OffsetSteps)) =>
    board[BoardOf[d]].offset

\* A front end has the last word on its board's data path unless a detector's front end that
\* drives the same board has begun its pass.
LastOn(d) ==
  \/ d \notin CfoHome \/ gw["detector"].turn # 1
  \/ ~\E e \in DTC \ CfoHome : BoardOf[e] = BoardOf[d]

DataInv(d) == LastOn(d) =>
  /\ d \in RealROCs /\ (Past(d, RocConfig) \/ (Within(d, RocConfig) /\ sub[d] > 0)) =>
       board[BoardOf[d]].links = "plain" /\ board[BoardOf[d]].dcs
  /\ d \notin RealROCs /\ (Past(d, RocConfig) \/ (looked[d] \notin {"not", "off"} /\ Within(d, RocConfig))) =>
       board[BoardOf[d]].links # "off"
  /\ Past(d, RocDataPath) => board[BoardOf[d]].drp /\ (d \in RealROCs => board[BoardOf[d]].evb)

BoardInv(d) == Fresh(d) => ChainInv(d) /\ OffsetInv(d) /\ DataInv(d)

\* Before the phase that checks the chain nothing is claimed of a front end's board.
Early(d) == \A p \in 3 .. 12 : ~Past(d, p) /\ ~Within(d, p)

LEMMA EarlyHolds ==
  ASSUME NEW d \in DTC, Early(d)'
  PROVE  BoardInv(d)'
<1>1. OffsetPhase(d) \in 3 .. 12 /\ OffsetPhase(d)' = OffsetPhase(d)
  BY DEF OffsetPhase, SyncC, SyncD
<1>2. \A p \in {3, 10, 11, OffsetPhase(d)} : ~Past(d, p)' /\ ~Within(d, p)'
  BY <1>1 DEF Early
<1> QED
  BY <1>1, <1>2 DEF BoardInv, ChainInv, OffsetInv, DataInv, ChainCheck, RocConfig, RocDataPath

\* A front end that has not gone on in a step, and whose board keeps what is claimed.
StillThere(d) ==
  /\ mode' = mode /\ (Fresh(d)' => Fresh(d))
  /\ gw["detector"].turn = 1 => gw'["detector"].turn = 1
  /\ \A p \in 3 .. 12 :
       /\ Past(d, p)' => Past(d, p)
       /\ Within(d, p)' => \/ Within(d, p) /\ sub'[d] = sub[d] /\ looked'[d] = looked[d]
                           \/ sub'[d] = 0 /\ looked'[d] = "not"

KeepsChain(d) ==
  /\ cfo.links => cfo'.links
  /\ \A u \in 1 .. BoardOf[d] : Keeps(u)

KeepsData(d) ==
  LET b == BoardOf[d] IN
  /\ IF d \in RealROCs THEN board[b].links = "plain" => board'[b].links = "plain"
     ELSE board[b].links # "off" => board'[b].links # "off"
  /\ board[b].dcs => board'[b].dcs
  /\ board[b].drp => board'[b].drp
  /\ board[b].evb => board'[b].evb

LEMMA LockedStays ==
  ASSUME NEW b \in Board, Locked(b), cfo.links => cfo'.links, \A u \in 1 .. b : Keeps(u)
  PROVE  Locked(b)'
BY DEF Locked, Keeps

LEMMA StillHolds ==
  ASSUME NEW d \in DTC, BoardInv(d), StillThere(d), KeepsChain(d), LastOn(d) => KeepsData(d) \/ Early(d)
  PROVE  BoardInv(d)'
<1> DEFINE b == BoardOf[d]
           o == OffsetPhase(d)
<1>0. /\ b \in Board /\ b \in 1 .. b /\ o \in 3 .. 12 /\ o' = o
      /\ {3, 10, 11, o} \subseteq 3 .. 12
  BY DEF Board, OffsetPhase, SyncC, SyncD
<1> SUFFICES ASSUME Fresh(d)' PROVE ChainInv(d)' /\ OffsetInv(d)' /\ DataInv(d)'
  BY DEF BoardInv
<1>1. Fresh(d) /\ ChainInv(d) /\ OffsetInv(d) /\ DataInv(d)
  BY DEF StillThere, BoardInv
<1>2. \A p \in {3, 10, 11, o} :
        /\ Past(d, p)' => Past(d, p)
        /\ Within(d, p)' => \/ Within(d, p) /\ sub'[d] = sub[d] /\ looked'[d] = looked[d]
                            \/ sub'[d] = 0 /\ looked'[d] = "not"
  BY <1>0 DEF StillThere
<1> HIDE DEF o
<1>3. ChainInv(d)'
  BY <1>0, <1>1, <1>2, LockedStays DEF ChainInv, KeepsChain, ChainCheck
<1>4. OffsetInv(d)'
  <2>1. board[b].offset => board'[b].offset
    BY <1>0 DEF KeepsChain, Keeps
  <2>2. Syncing' = Syncing /\ ~(0 > OffsetSteps)
    BY DEF StillThere, Syncing
  <2> QED
    BY <1>0, <1>1, <1>2, <2>1, <2>2 DEF OffsetInv, o
<1>5. DataInv(d)'
  <2>1. LastOn(d)' => LastOn(d)
    BY DEF LastOn, StillThere
  <2>2. CASE LastOn(d) /\ Early(d)
    <3>1. \A p \in {10, 11} : ~Past(d, p)' /\ (Within(d, p)' => sub'[d] = 0 /\ looked'[d] = "not")
      BY <1>2, <2>2 DEF Early
    <3> QED
      BY <3>1 DEF DataInv, RocConfig, RocDataPath
  <2>3. CASE LastOn(d) /\ KeepsData(d)
    BY <1>1, <1>2, <2>3 DEF DataInv, KeepsData, RocConfig, RocDataPath
  <2>4. CASE ~LastOn(d)
    BY <2>1, <2>4 DEF DataInv
  <2> QED
    BY <2>2, <2>3, <2>4
<1> QED
  BY <1>3, <1>4, <1>5

\* A front end that has not begun its pass, or has just begun it.
LEMMA EarlyIs ==
  ASSUME Skeleton, TopLevel, NEW d \in DTC,
         ~OnTurn(Home(d)) \/ (Running(Home(d)) /\ Ph(Home(d)) < 3)
           \/ gw[Home(d)].state \notin {"Configuring", "Configured"}
  PROVE  Early(d)
<1>1. ASSUME NEW p \in 3 .. 12 PROVE ~Past(d, p) /\ ~Within(d, p)
  <2>1. CASE ~OnTurn(Home(d)) \/ gw[Home(d)].state \notin {"Configuring", "Configured"}
    BY <2>1 DEF Past, Within, Running
  <2>2. CASE Running(Home(d)) /\ Ph(Home(d)) < 3
    <3>1. Ph(Home(d)) \in Int
      BY Homes DEF Skeleton, SkeletonTypes, Ph, FirstIter, FrontEnd
    <3> QED
      BY <2>2, <3>1 DEF Past, Within, Running
  <2> QED
    BY <2>1, <2>2
<1> QED
  BY <1>1 DEF Early

\* A reboot is forgotten only before anything is claimed of the boards of its subsystem, or of
\* the detectors' boards.
LEMMA ForgetsEarly ==
  ASSUME Skeleton, TopLevel, NEW f \in FrontEnd, IsCalled(f), Forgets(f), NEW d \in DTC, Fresh(d)'
  PROVE  Fresh(d) \/ Early(d)
<1>0. d \in FrontEnd /\ Home(f) \in Subsystem /\ Home(d) \in Subsystem
  BY Homes DEF FrontEnd
<1>1. CASE stale' = stale
  BY <1>1 DEF Fresh
<1>2. CASE IsFirst(f) /\ stale' = stale \ {f}
  <2>1. Running(Home(f)) /\ Ph(Home(f)) = 0 /\ gw[Home(f)].turn # 1
    <3>1. gw[Home(f)].turn # 1 /\ gw[Home(f)].iter = 0
      BY <1>2 DEF IsFirst, Standalone
    <3>2. FirstIter(Home(f)) = 0
      BY <3>1 DEF FirstIter
    <3> QED
      BY <3>1, <3>2 DEF Ph, IsCalled, Running
  <2>2. CASE Home(f) = Home(d)
    BY <2>1, <2>2, EarlyIs
  <2>3. CASE Home(f) # Home(d) /\ d \in CfoHome
    <3>1. f \notin CfoHome
      BY <1>0, <2>3, Homes
    <3> QED
      BY <1>2, <2>3, <3>1 DEF Fresh
  <2>4. CASE Home(f) # Home(d) /\ d \notin CfoHome
    <3>1. Home(f) = "cfo" /\ Home(d) = "detector"
      BY <1>0, <2>4, Homes DEF Subsystem
    <3>2. GatewayInv("detector") /\ gw["detector"].turn # 1
      BY <2>1, <3>1 DEF Skeleton, GatewayInv, Running, Subsystem
    <3>3. gw["detector"].state # "Halted" => gw["detector"].turn # Standalone
      BY <3>2 DEF GatewayInv
    <3>4. ~OnTurn("detector") \/ gw["detector"].state = "Halted"
      BY <3>2, <3>3 DEF OnTurn, Pass
    <3> QED
      BY <3>1, <3>4, EarlyIs
  <2> QED
    BY <2>2, <2>3, <2>4
<1> QED
  BY <1>1, <1>2 DEF Forgets

\* A call changes nobody's turn.
LEMMA TurnStays ==
  ASSUME Skeleton, NEW f \in FrontEnd,
         \/ \E r \in {"sub", "more", "later", "done"} : Reply(f, r)
         \/ UNCHANGED gw
         \/ \E why : Throw(f, why),
         NEW s \in Subsystem
  PROVE  gw'[s].turn = gw[s].turn
<1>0. Home(f) \in Subsystem /\ SkeletonTypes
  BY Homes DEF Skeleton
<1>1. ASSUME NEW r \in {"sub", "more", "later", "done"}, Reply(f, r) PROVE gw'[s].turn = gw[s].turn
  BY <1>0, <1>1, ReplyGateway
<1>2. ASSUME NEW why, Throw(f, why) PROVE gw'[s].turn = gw[s].turn
  <2>1. gw' = [gw EXCEPT ![Home(f)].state = "Failed"]
    BY <1>2 DEF Throw
  <2> QED
    BY <1>0, <2>1 DEF SkeletonTypes
<1> QED
  BY <1>1, <1>2

\* Nothing but the first clearing of the control register takes back what the data path needs.
LEMMA DataWritten ==
  ASSUME BoardTypes, NEW d \in DTC, DtcCall(d), ~DtcClearsControl(d), NEW x \in Board
  PROVE  /\ board[x].dcs => board'[x].dcs
         /\ board[x].drp => board'[x].drp
         /\ board[x].evb => board'[x].evb
<1> DEFINE b == BoardOf[d]
           Kept == /\ board[x].dcs => board'[x].dcs
                   /\ board[x].drp => board'[x].drp
                   /\ board[x].evb => board'[x].evb
<1>0. b \in Board /\ board[b] \in BoardRegisters /\ board[x] \in BoardRegisters
  BY DEF BoardTypes
<1>1. ASSUME NEW r \in BoardRegisters, board' = [board EXCEPT ![b] = r],
             board[b].dcs => r.dcs, board[b].drp => r.drp, board[b].evb => r.evb
      PROVE  Kept
  <2>1. board'[b] = r /\ (x # b => board'[x] = board[x])
    BY <1>0, <1>1, OneBoard
  <2> QED
    BY <1>1, <2>1
<1>2. CASE DtcPollsLock(d)
  <2>1. PICK lock \in {board[b].ja, TRUE} : board' = [board EXCEPT ![b].ja = lock]
    BY <1>2 DEF DtcPollsLock
  <2> QED
    BY <1>0, <2>1 DEF BoardTypes, BoardRegisters
<1>3. CASE DtcEnablesLink(d)
  BY <1>0, <1>3 DEF DtcEnablesLink, BoardTypes, BoardRegisters
<1>4. CASE DtcWaitsForMarkers(d)
  <2>1. UNCHANGED board \/ board' = SoftReset(b)
    BY <1>4 DEF DtcWaitsForMarkers, Throw
  <2> DEFINE r == [board[b] EXCEPT !.err = FALSE]
  <2>2. UNCHANGED board \/ board' = [board EXCEPT ![b] = r]
    BY <2>1 DEF SoftReset
  <2>3. r \in BoardRegisters /\ r.dcs = board[b].dcs /\ r.drp = board[b].drp /\ r.evb = board[b].evb
    BY <1>0 DEF BoardRegisters
  <2> HIDE DEF r
  <2> QED
    BY <1>1, <2>2, <2>3
<1>5. CASE DtcFindsEdgeErrors(d)
  <2>1. UNCHANGED board \/ \E turned, latched \in SUBSET Downstream(b) : board' = Toggled(b, turned, latched)
    BY <1>5 DEF DtcFindsEdgeErrors, Throw
  <2> QED
    BY <1>0, <2>1, ToggledBoards
<1>6. CASE DtcAppliesOffset(d)
  BY <1>0, <1>6 DEF DtcAppliesOffset, BoardTypes, BoardRegisters
<1>7. CASE DtcVerifiesOffset(d)
  <2>1. UNCHANGED board \/ board' = [board EXCEPT ![b].offset = TRUE]
    BY <1>7 DEF DtcVerifiesOffset, Throw
  <2> DEFINE r == [board[b] EXCEPT !.offset = TRUE]
  <2>2. UNCHANGED board \/ board' = [board EXCEPT ![b] = r]
    BY <2>1
  <2>3. r \in BoardRegisters /\ r.dcs = board[b].dcs /\ r.drp = board[b].drp /\ r.evb = board[b].evb
    BY <1>0 DEF BoardRegisters
  <2> HIDE DEF r
  <2> QED
    BY <1>1, <2>2, <2>3
<1>8. CASE DtcSetsUpROCs(d)
  <2> DEFINE r == [board[b] EXCEPT !.links = LinksOf(d), !.dcs = TRUE, !.err = FALSE]
  <2>1. board' = [board EXCEPT ![b] = r]
    BY <1>8 DEF DtcSetsUpROCs
  <2>2. r \in BoardRegisters /\ r.dcs /\ r.drp = board[b].drp /\ r.evb = board[b].evb
    BY <1>0 DEF BoardRegisters, LinksOf
  <2> HIDE DEF r
  <2> QED
    BY <1>1, <2>1, <2>2
<1>9. CASE DtcSetsLinks(d)
  BY <1>0, <1>9 DEF DtcSetsLinks, BoardTypes, BoardRegisters
<1>10. CASE DtcSetsDataPath(d)
  <2> DEFINE r == [board[b] EXCEPT !.drp = TRUE, !.evb = board[b].evb \/ d \in RealROCs]
  <2>1. board' = [board EXCEPT ![b] = r]
    BY <1>10 DEF DtcSetsDataPath
  <2>2. r \in BoardRegisters /\ r.dcs = board[b].dcs /\ r.drp /\ (board[b].evb => r.evb)
    BY <1>0 DEF BoardRegisters
  <2> HIDE DEF r
  <2> QED
    BY <1>1, <2>1, <2>2
<1>11. CASE DtcFinalReset(d)
  BY <1>0, <1>11 DEF DtcFinalReset, BoardTypes, BoardRegisters
<1>12. CASE UNCHANGED board
  BY <1>12
<1> QED
  BY <1>2, <1>3, <1>4, <1>5, <1>6, <1>7, <1>8, <1>9, <1>10, <1>11, <1>12
  DEF DtcCall, DtcSetsClock, DtcChecksLock, DtcIdles, DtcFindsEdgeClean, DtcStartsOffset,
      DtcWaitsForHistogram, DtcWaitsToVerify, DtcConfiguresROCs, DtcReadsLinks, Throw

\* Another DTC front end's call.
LEMMA OtherDtcKeeps ==
  ASSUME Types, TopLevel, Owners, NEW d \in DTC, BoardInv(d), NEW e \in DTC, e # d, DtcCall(e)
  PROVE  BoardInv(d)'
<1> DEFINE b == BoardOf[d]
<1>0. /\ Skeleton /\ BoardTypes /\ BookTypes /\ d \in FrontEnd /\ e \in FrontEnd
      /\ Home(d) \in Subsystem /\ Home(e) \in Subsystem /\ b \in Board
      /\ Last(Home(d)) >= 12 /\ Home(d)' = Home(d)
  BY Homes DEF Types, FrontEnd, Last, EventSending, FinalSoftReset, Home
<1>1. UNCHANGED cfo /\ \A u \in Board : Keeps(u)
  BY <1>0, DtcEffects, DtcCallIs DEF DtcEffect
<1>2. KeepsChain(d)
  <2>1. \A u \in 1 .. b : u \in Board
    BY <1>0 DEF Board
  <2> QED
    BY <1>1, <2>1 DEF KeepsChain
<1>3. ASSUME NEW why, Fails(e, why) PROVE BoardInv(d)'
  <2>1. CASE Home(e) = Home(d)
    <3>1. \A p \in 3 .. 12 : ~Past(d, p)' /\ ~Within(d, p)'
      BY <1>0, <1>3, <2>1, FailMoves
    <3> QED
      BY <3>1, EarlyHolds DEF Early
  <2>2. CASE Home(e) # Home(d)
    <3>1. \A p \in 3 .. 12 : (Past(d, p)' <=> Past(d, p)) /\ (Within(d, p)' <=> Within(d, p))
      BY <1>0, <1>3, <2>2, FailMoves
    <3>2. UNCHANGED <<mode, sub, looked, board>> /\ IsCalled(e) /\ Forgets(e)
      BY <1>3 DEF Fails, Throw
    <3>3. gw'["detector"].turn = gw["detector"].turn
      BY <1>0, <1>3, TurnStays DEF Fails, Subsystem
    <3>4. CASE Early(d)
      BY <3>1, <3>4, EarlyHolds DEF Early
    <3>5. CASE Fresh(d)' => Fresh(d)
      <4>1. StillThere(d)
        BY <3>1, <3>2, <3>3, <3>5 DEF StillThere
      <4>2. KeepsData(d)
        BY <3>2 DEF KeepsData
      <4> QED
        BY <1>2, <4>1, <4>2, StillHolds
    <3> QED
      BY <1>0, <3>2, <3>4, <3>5, ForgetsEarly
  <2> QED
    BY <2>1, <2>2
<1>4. ASSUME (\E r \in Answer : Answers(e, r)) \/ LeavesOpen(e) PROVE BoardInv(d)'
  <2>1. IsCalled(e) /\ IsMyTurn(e) /\ Forgets(e) /\ Phase(e) = Ph(Home(e)) /\ Running(Home(e)) /\ UNCHANGED mode
    BY <1>0, <1>4, PhaseIs DEF Answers, LeavesOpen, IsCalled, Running, Reply
  <2>2. \A p \in 3 .. 12 : /\ Past(d, p)' <=> Past(d, p)
                           /\ Within(d, p)' <=> Within(d, p)
                           /\ sub'[d] = sub[d]
    <3>1. CASE \E r \in Answer : Answers(e, r)
      BY <1>0, <3>1, AnswerMoves DEF Answers
    <3>2. CASE LeavesOpen(e)
      BY <3>2, GwStill DEF LeavesOpen
    <3> QED
      BY <1>4, <3>1, <3>2
  <2>3. gw'["detector"].turn = gw["detector"].turn
    BY <1>0, <1>4, TurnStays DEF Answers, Answer, LeavesOpen, Subsystem
  <2>4. looked'[d] = looked[d]
    BY <1>0, LookedWritten
  <2>5. CASE Early(d)
    BY <2>2, <2>5, EarlyHolds DEF Early
  <2>6. CASE ~Early(d) /\ (Fresh(d)' => Fresh(d))
    <3>1. StillThere(d)
      BY <2>1, <2>2, <2>3, <2>4, <2>6 DEF StillThere
    <3>2. ASSUME LastOn(d) PROVE KeepsData(d)
      <4>1. CASE BoardOf[e] # b
        <5>1. /\ board'[b].links = board[b].links /\ board'[b].dcs = board[b].dcs
              /\ board'[b].drp = board[b].drp /\ board'[b].evb = board[b].evb
          BY <1>0, <4>1, DtcEffects DEF DtcEffect
        <5> QED
          BY <5>1 DEF KeepsData
      <4>2. CASE BoardOf[e] = b /\ Home(e) # Home(d)
        <5>1. CASE Home(e) = "cfo"
          <6>1. Home(d) = "detector" /\ ~OnTurn("detector")
            BY <1>0, <2>1, <4>2, <5>1, Turns DEF Subsystem
          <6> QED
            BY <1>0, <2>6, <6>1, EarlyIs
        <5>2. CASE Home(e) = "detector"
          <6>1. gw["detector"].turn = 1
            BY <1>0, <2>1, <5>2, Turns
          <6>2. d \in CfoHome /\ e \notin CfoHome
            BY <1>0, <4>2, <5>2, Homes DEF Subsystem
          <6> QED
            BY <3>2, <4>2, <6>1, <6>2 DEF LastOn
        <5> QED
          BY <1>0, <5>1, <5>2 DEF Subsystem
      <4>3. CASE BoardOf[e] = b /\ Home(e) = Home(d)
        <5>1. ~DtcClearsControl(e)
          <6>1. DtcClearsControl(e) => Ph(Home(e)) \in {0, 1}
            BY <2>1 DEF DtcClearsControl, At, ClockPhase, ClocksA, ClocksB
          <6>2. Ph(Home(d)) \in {0, 1} => Early(d)
            BY <1>0, <2>1, <4>3, EarlyIs
          <6> QED
            BY <2>6, <4>3, <6>1, <6>2
        <5>2. \/ board'[b].links = board[b].links
              \/ board'[b].links = "plain"
              \/ board'[b].links = "emulated" /\ DtcSetsLinks(e)
          BY <1>0, <5>1, LinksWritten
        <5>3. d \in RealROCs => ~DtcSetsLinks(e)
          <6>1. DtcSetsLinks(e) => e \notin RealROCs
            BY DEF DtcSetsLinks
          <6>2. e \in CfoHome <=> d \in CfoHome
            BY <4>3, Homes DEF FrontEnd
          <6> QED
            BY <4>3, <6>1, <6>2 DEF Owners
        <5> QED
          BY <1>0, <5>1, <5>2, <5>3, DataWritten DEF KeepsData
      <4> QED
        BY <4>1, <4>2, <4>3
    <3> QED
      BY <1>2, <3>1, <3>2, StillHolds
  <2> QED
    BY <1>0, <2>1, <2>5, <2>6, ForgetsEarly DEF BoardInv
<1> QED
  BY <1>0, <1>3, <1>4, DtcCallIs

\* Once its chain is enabled the CFO's calls leave its links on and a receiver as it is.
LEMMA CfoKeepsChain ==
  ASSUME Types, CfoCall, Ph("cfo") >= 3
  PROVE  /\ cfo.links => cfo'.links
         /\ \A u \in Board : Keeps(u)
<1>0. /\ Skeleton /\ BoardTypes /\ cfo \in CfoRegisters
      /\ \A q : At(Cfo, q) => q >= 3
  <2>1. Skeleton /\ BoardTypes /\ cfo \in CfoRegisters /\ Cfo \in FrontEnd /\ Home(Cfo) = "cfo"
    BY Homes DEF Types, BookTypes, FrontEnd
  <2> QED
    BY <2>1, AtIs
<1>1. ~CfoClearsControl /\ ~CfoPollsLock
  BY <1>0 DEF CfoClearsControl, CfoPollsLock, ClocksA
<1>2. ~CfoEnablesChain
  <2>1. CfoEnablesChain => At(Cfo, 2)
    BY DEF CfoEnablesChain, ChainEnable
  <2> QED
    BY <1>0, <2>1
<1>3. \A u \in Board : Keeps(u)
  BY <1>0, <1>2, CfoEffects DEF CfoEffect, Keeps
<1>4. CASE CfoStopsEvents
  BY <1>0, <1>3, <1>4 DEF CfoStopsEvents, CfoRegisters
<1>5. CASE CfoEnablesOperation
  BY <1>0, <1>3, <1>5 DEF CfoEnablesOperation, CfoRegisters
<1>6. CASE UNCHANGED cfo
  BY <1>3, <1>6
<1> QED
  BY <1>1, <1>2, <1>4, <1>5, <1>6, CfoWrites

\* The CFO front end's call.
LEMMA CfoKeeps ==
  ASSUME Types, TopLevel, NEW d \in DTC, BoardInv(d), CfoCall
  PROVE  BoardInv(d)'
<1> DEFINE b == BoardOf[d]
<1>0. /\ Skeleton /\ BoardTypes /\ d \in FrontEnd /\ Cfo \in FrontEnd /\ d # Cfo
      /\ Home(d) \in Subsystem /\ Home(Cfo) = "cfo" /\ b \in Board /\ Home(d)' = Home(d)
      /\ looked' = looked /\ IsCalled(Cfo)
  BY Homes, CfoCallIs DEF Types, FrontEnd, Home
<1>1. KeepsData(d)
  BY <1>0, CfoEffects DEF CfoEffect, KeepsData
<1>2. ASSUME NEW why, Fails(Cfo, why) PROVE BoardInv(d)'
  <2>1. CASE Home(d) = "cfo"
    <3>1. \A p \in 3 .. 12 : ~Past(d, p)' /\ ~Within(d, p)'
      BY <1>0, <1>2, <2>1, FailMoves
    <3> QED
      BY <3>1, EarlyHolds DEF Early
  <2>2. CASE Home(d) # "cfo"
    <3>1. \A p \in 3 .. 12 : (Past(d, p)' <=> Past(d, p)) /\ (Within(d, p)' <=> Within(d, p))
      BY <1>0, <1>2, <2>2, FailMoves
    <3>2. UNCHANGED <<mode, sub, looked, board, cfo>> /\ Forgets(Cfo)
      BY <1>2 DEF Fails, Throw
    <3>3. gw'["detector"].turn = gw["detector"].turn
      BY <1>0, <1>2, TurnStays DEF Fails, Subsystem
    <3>4. CASE Early(d)
      BY <3>1, <3>4, EarlyHolds DEF Early
    <3>5. CASE Fresh(d)' => Fresh(d)
      <4>1. StillThere(d)
        BY <3>1, <3>2, <3>3, <3>5 DEF StillThere
      <4>2. KeepsChain(d)
        BY <3>2 DEF KeepsChain, Keeps
      <4> QED
        BY <1>1, <4>1, <4>2, StillHolds
    <3> QED
      BY <1>0, <3>2, <3>4, <3>5, ForgetsEarly
  <2> QED
    BY <2>1, <2>2
<1>3. ASSUME (\E r \in Answer : Answers(Cfo, r)) \/ LeavesOpen(Cfo) PROVE BoardInv(d)'
  <2>1. IsMyTurn(Cfo) /\ Forgets(Cfo) /\ Running("cfo") /\ UNCHANGED mode
    BY <1>0, <1>3 DEF Answers, LeavesOpen, IsCalled, Running, Reply
  <2>2. \A p \in 3 .. 12 : /\ Past(d, p)' <=> Past(d, p)
                           /\ Within(d, p)' <=> Within(d, p)
                           /\ sub'[d] = sub[d]
    <3>1. CASE \E r \in Answer : Answers(Cfo, r)
      BY <1>0, <3>1, AnswerMoves DEF Answers
    <3>2. CASE LeavesOpen(Cfo)
      BY <3>2, GwStill DEF LeavesOpen
    <3> QED
      BY <1>3, <3>1, <3>2
  <2>3. CASE Early(d)
    BY <2>2, <2>3, EarlyHolds DEF Early
  <2>4. CASE ~Early(d) /\ (Fresh(d)' => Fresh(d))
    <3>1. StillThere(d)
      <4>1. gw'["detector"].turn = gw["detector"].turn
        BY <1>0, <1>3, TurnStays DEF Answers, Answer, LeavesOpen, Subsystem
      <4> QED
        BY <1>0, <2>1, <2>2, <2>4, <4>1 DEF StillThere
    <3>2. Home(d) = "cfo" /\ Ph("cfo") >= 3
      <4>1. Home(d) = "cfo"
        <5>1. ~OnTurn("detector")
          BY <1>0, <2>1, Turns
        <5> QED
          BY <1>0, <2>4, <5>1, EarlyIs DEF Subsystem
      <4>2. ~(Ph("cfo") < 3)
        BY <1>0, <2>1, <2>4, <4>1, EarlyIs
      <4>3. Ph("cfo") \in Int
        BY <1>0 DEF Skeleton, SkeletonTypes, Ph, FirstIter, Subsystem
      <4> QED
        BY <4>1, <4>2, <4>3
    <3>3. KeepsChain(d)
      <4>1. \A u \in 1 .. b : u \in Board
        BY <1>0 DEF Board
      <4> QED
        BY <3>2, <4>1, CfoKeepsChain DEF KeepsChain
    <3> QED
      BY <1>1, <3>1, <3>3, StillHolds
  <2> QED
    BY <1>0, <2>1, <2>3, <2>4, ForgetsEarly DEF BoardInv
<1> QED
  BY <1>0, <1>2, <1>3, CfoCallIs

\* The calls of a front end at the phases whose outcome is claimed.
LEMMA RocCallIs ==
  ASSUME NEW d \in DTC, DtcCall(d)
  PROVE  /\ At(d, 3) => DtcChecksLock(d)
         /\ At(d, 10) => IF d \in RealROCs THEN DtcSetsUpROCs(d) \/ DtcConfiguresROCs(d)
                         ELSE DtcReadsLinks(d) \/ DtcSetsLinks(d)
         /\ At(d, 11) => DtcSetsDataPath(d)
<1> USE DEF ClocksA, ClocksB, ChainEnable, ChainCheck, CfoEdgeFix, SyncA, SyncB, SyncC, SyncD, SyncE,
            RocConfig, RocDataPath, FinalSoftReset
<1>1. ASSUME NEW q, NEW p, At(d, q), At(d, p) PROVE q = p
  BY <1>1 DEF At
<1>2. SUFFICES ASSUME NEW p \in {3, 10, 11}, At(d, p)
               PROVE  /\ p = 3 => DtcChecksLock(d)
                      /\ p = 10 => IF d \in RealROCs THEN DtcSetsUpROCs(d) \/ DtcConfiguresROCs(d)
                                   ELSE DtcReadsLinks(d) \/ DtcSetsLinks(d)
                      /\ p = 11 => DtcSetsDataPath(d)
  OBVIOUS
<1>3. ClockPhase(d) \in {0, 1} /\ EdgePhase(d) \in {5, 6} /\ OffsetPhase(d) \in {7, 8}
  BY DEF ClockPhase, EdgePhase, OffsetPhase
<1>12. ~At(d, ClockPhase(d)) /\ ~At(d, EdgePhase(d)) /\ ~At(d, OffsetPhase(d))
  BY <1>1, <1>2, <1>3
<1>4. ~DtcClearsControl(d) /\ ~DtcSetsClock(d) /\ ~DtcPollsLock(d)
  BY <1>12 DEF DtcClearsControl, DtcSetsClock, DtcPollsLock
<1>5. ~DtcEnablesLink(d) /\ ~DtcFinalReset(d)
  BY <1>1, <1>2 DEF DtcEnablesLink, DtcFinalReset
<1>6. ~DtcWaitsForMarkers(d) /\ ~DtcFindsEdgeClean(d)
  BY <1>12 DEF DtcWaitsForMarkers, DtcFindsEdgeClean
<1>7. ~DtcFindsEdgeErrors(d)
  BY <1>12 DEF DtcFindsEdgeErrors
<1>8. /\ ~DtcStartsOffset(d) /\ ~DtcWaitsForHistogram(d) /\ ~DtcAppliesOffset(d) /\ ~DtcWaitsToVerify(d)
      /\ ~DtcVerifiesOffset(d)
  BY <1>12 DEF DtcStartsOffset, DtcWaitsForHistogram, DtcAppliesOffset, DtcWaitsToVerify,
     DtcVerifiesOffset, AtOffset
<1>9. ~DtcIdles(d)
  <2>1. SUFFICES ASSUME NEW q \in 0 .. 9, At(d, q), DtcIdlePhase(d, q) PROVE FALSE
    BY DEF DtcIdles
  <2>2. q = 3
    BY <1>1, <1>2, <2>1
  <2> QED
    BY <2>1, <2>2 DEF DtcIdlePhase
<1>10. /\ DtcChecksLock(d) => p = 3
       /\ DtcSetsDataPath(d) => p = 11
  BY <1>1, <1>2 DEF DtcChecksLock, DtcSetsDataPath
<1>11. /\ DtcSetsUpROCs(d) \/ DtcConfiguresROCs(d) => p = 10 /\ d \in RealROCs
       /\ DtcReadsLinks(d) \/ DtcSetsLinks(d) => p = 10 /\ d \notin RealROCs
  BY <1>1, <1>2 DEF DtcSetsUpROCs, DtcConfiguresROCs, DtcReadsLinks, DtcSetsLinks
<1> QED
  BY <1>4, <1>5, <1>6, <1>7, <1>8, <1>9, <1>10, <1>11 DEF DtcCall

\* Up to the last sub-step that may apply the offset, a front end calls for another sub-step
\* until it has applied it.
LEMMA OffsetCallIs ==
  ASSUME SkeletonTypes, BoardTypes, NEW d \in DTC, DtcCall(d), At(d, OffsetPhase(d)), Syncing,
         sub[d] <= OffsetSteps
  PROVE  \/ board'[BoardOf[d]].offset
         \/ sub'[d] = sub[d] + 1 /\ sub[d] < OffsetSteps
         \/ \E why : Throw(d, why)
<1> USE DEF ClocksA, ClocksB, ChainEnable, ChainCheck, CfoEdgeFix, SyncA, SyncB, SyncC, SyncD, SyncE,
            RocConfig, RocDataPath, FinalSoftReset
<1> DEFINE o == OffsetPhase(d)
<1>0. /\ sub[d] \in Nat /\ (Reply(d, "sub") => sub'[d] = sub[d] + 1)
      /\ BoardOf[d] \in Board
  BY DEF SkeletonTypes, Reply, FrontEnd
<1>1. ASSUME NEW q, At(d, q) PROVE q = o
  BY <1>1 DEF At
<1>2. ClockPhase(d) \in {0, 1} /\ EdgePhase(d) \in {5, 6} /\ o \in {7, 8}
  BY DEF ClockPhase, EdgePhase, OffsetPhase
<1>3. /\ ~At(d, ClockPhase(d)) /\ ~At(d, EdgePhase(d)) /\ ~At(d, 2) /\ ~At(d, 3) /\ ~At(d, 10)
      /\ ~At(d, 11) /\ ~At(d, 12)
  BY <1>1, <1>2
<1>4. ~DtcClearsControl(d) /\ ~DtcSetsClock(d) /\ ~DtcPollsLock(d)
  BY <1>3 DEF DtcClearsControl, DtcSetsClock, DtcPollsLock
<1>5. /\ ~DtcEnablesLink(d) /\ ~DtcFinalReset(d) /\ ~DtcChecksLock(d)
      /\ ~DtcSetsDataPath(d)
  BY <1>3 DEF DtcEnablesLink, DtcFinalReset, DtcChecksLock, DtcSetsDataPath
<1>6. ~DtcWaitsForMarkers(d) /\ ~DtcFindsEdgeClean(d)
  BY <1>3 DEF DtcWaitsForMarkers, DtcFindsEdgeClean
<1>7. ~DtcFindsEdgeErrors(d)
  BY <1>3 DEF DtcFindsEdgeErrors
<1>8. ~DtcSetsUpROCs(d) /\ ~DtcConfiguresROCs(d) /\ ~DtcReadsLinks(d) /\ ~DtcSetsLinks(d)
  BY <1>3 DEF DtcSetsUpROCs, DtcConfiguresROCs, DtcReadsLinks, DtcSetsLinks
<1>9. ~DtcIdles(d)
  <2>1. SUFFICES ASSUME NEW q \in 0 .. 9, At(d, q), DtcIdlePhase(d, q) PROVE FALSE
    BY DEF DtcIdles
  <2>2. q = o
    BY <1>1, <2>1
  <2> HIDE DEF o
  <2> QED
    BY <1>2, <2>1, <2>2 DEF DtcIdlePhase, o
<1>10. CASE DtcStartsOffset(d)
  BY <1>0, <1>10 DEF DtcStartsOffset
<1>11. CASE DtcWaitsForHistogram(d)
  BY <1>0, <1>11 DEF DtcWaitsForHistogram
<1>12. CASE DtcAppliesOffset(d)
  BY <1>0, <1>12 DEF DtcAppliesOffset, BoardTypes, BoardRegisters
<1>13. ~DtcWaitsToVerify(d) /\ ~DtcVerifiesOffset(d)
  <2>1. ~(sub[d] > OffsetSteps)
    BY <1>0
  <2>2. DtcWaitsToVerify(d) \/ DtcVerifiesOffset(d) => sub[d] > OffsetSteps
    BY DEF DtcWaitsToVerify, DtcVerifiesOffset
  <2> QED
    BY <2>1, <2>2
<1> QED
  BY <1>4, <1>5, <1>6, <1>7, <1>8, <1>9, <1>10, <1>11, <1>12, <1>13 DEF DtcCall

\* What the front end's own call leaves on its board, at the phases that claim it.
LEMMA OwnChain ==
  ASSUME Types, NEW d \in DTC, DtcCall(d), ChainInv(d), NEW r \in Answer, Answers(d, r)
  PROVE  ChainInv(d)'
<1>0. Skeleton /\ BoardTypes /\ d \in FrontEnd /\ BoardOf[d] \in Board
  BY DEF Types, FrontEnd
<1>1. UNCHANGED cfo /\ \A u \in 1 .. BoardOf[d] : Keeps(u)
  BY <1>0, DtcEffects, DtcCallIs DEF DtcEffect, Board
<1>2. Past(d, 3)' <=> Past(d, 3) \/ (r # "sub" /\ Within(d, 3))
  BY <1>0, AnswerMoves DEF Answers
<1>3. Locked(BoardOf[d]) => Locked(BoardOf[d])'
  BY <1>0, <1>1, LockedStays
<1>4. ASSUME Within(d, 3) PROVE Locked(BoardOf[d])
  <2>1. At(d, 3)
    BY <1>0, <1>4, PhaseIs DEF Answers, At, Within
  <2>2. DtcChecksLock(d)
    BY <2>1, RocCallIs
  <2>3. ~Throw(d, "noLock")
    <3>1. Throw(d, "noLock") => gw'[Home(d)].state = "Failed"
      BY <1>0, Homes DEF Throw, Skeleton, SkeletonTypes
    <3>2. gw'[Home(d)].state = gw[Home(d)].state /\ gw[Home(d)].state = "Configuring"
      BY <1>0, <1>4, AnswerMoves DEF Answers, Within, Running
    <3> QED
      BY <3>1, <3>2
  <2> QED
    BY <2>2, <2>3 DEF DtcChecksLock
<1> QED
  BY <1>2, <1>3, <1>4 DEF ChainInv, ChainCheck

LEMMA OwnOffset ==
  ASSUME Types, NEW d \in DTC, DtcCall(d), OffsetInv(d), NEW r \in Answer, Answers(d, r)
  PROVE  OffsetInv(d)'
<1> DEFINE o == OffsetPhase(d)
           b == BoardOf[d]
<1>0. /\ Skeleton /\ BoardTypes /\ d \in FrontEnd /\ b \in Board /\ sub[d] \in Nat /\ o' = o
      /\ OffsetSteps \in Nat /\ OffsetSteps > 0
  BY DEF Types, FrontEnd, Skeleton, SkeletonTypes, OffsetPhase
<1>1. board[b].offset => board'[b].offset
  BY <1>0, DtcEffects DEF DtcEffect, Keeps
<1> HIDE DEF o
<1>2. /\ Past(d, o)' <=> Past(d, o) \/ (r # "sub" /\ Within(d, o))
      /\ Within(d, o)' <=> Within(d, o) /\ r = "sub"
      /\ sub'[d] = IF r = "sub" THEN sub[d] + 1 ELSE 0
      /\ mode' = mode /\ gw'[Home(d)].state = gw[Home(d)].state
  BY <1>0, AnswerMoves DEF Answers
<1>3. ASSUME Within(d, o), Syncing, sub[d] <= OffsetSteps, r # "sub" \/ sub[d] + 1 > OffsetSteps
      PROVE  board'[b].offset
  <2>1. At(d, OffsetPhase(d)) /\ gw[Home(d)].state = "Configuring"
    BY <1>0, <1>3, PhaseIs DEF Answers, At, Within, o, Running
  <2>2. ASSUME NEW why, Throw(d, why) PROVE FALSE
    <3>1. gw'[Home(d)].state = "Failed"
      BY <1>0, <2>2, Homes DEF Throw, Skeleton, SkeletonTypes
    <3> QED
      BY <1>2, <2>1, <3>1
  <2>3. ~(sub'[d] = sub[d] + 1 /\ sub[d] < OffsetSteps)
    BY <1>0, <1>2, <1>3
  <2> QED
    BY <1>0, <1>3, <2>1, <2>2, <2>3, OffsetCallIs DEF Skeleton
<1>4. ASSUME Syncing, Past(d, o)' \/ (Within(d, o)' /\ sub'[d] > OffsetSteps) PROVE board'[b].offset
  <2>1. CASE Past(d, o) \/ (Within(d, o) /\ sub[d] > OffsetSteps)
    BY <1>1, <1>4, <2>1 DEF OffsetInv, o
  <2>2. CASE Within(d, o) /\ ~Past(d, o) /\ ~(sub[d] > OffsetSteps)
    <3>1. r # "sub" \/ sub[d] + 1 > OffsetSteps
      BY <1>2, <1>4, <2>2
    <3> QED
      BY <1>0, <1>3, <1>4, <2>2, <3>1
  <2> QED
    BY <1>2, <1>4, <2>1, <2>2
<1> QED
  BY <1>0, <1>2, <1>4 DEF OffsetInv, o, Syncing

LEMMA OwnData ==
  ASSUME Types, NEW d \in DTC, DtcCall(d), DataInv(d),
         \/ LeavesOpen(d) /\ board' = board
         \/ \E r \in Answer : Answers(d, r)
  PROVE  DataInv(d)'
<1> USE DEF RocConfig, RocDataPath
<1> DEFINE b == BoardOf[d]
           s == Home(d)
<1>0. /\ Skeleton /\ BoardTypes /\ BookTypes /\ d \in FrontEnd /\ b \in Board /\ sub[d] \in Nat
      /\ s \in Subsystem /\ s' = s
  BY Homes DEF Types, FrontEnd, Skeleton, SkeletonTypes, Home
<1>1. /\ IsCalled(d) /\ IsMyTurn(d) /\ Phase(d) = Ph(s) /\ Running(s) /\ gw'[s].state = "Configuring"
  <2>1. IsCalled(d) /\ IsMyTurn(d)
    BY DEF Answers, LeavesOpen
  <2>2. Phase(d) = Ph(s) /\ Running(s)
    BY <1>0, <2>1, PhaseIs DEF IsCalled, Running
  <2>3. gw'[s].state = gw[s].state
    BY <1>0, AnswerMoves DEF Answers, LeavesOpen
  <2> QED
    BY <2>1, <2>2, <2>3 DEF Running
<1>2. LastOn(d)' => LastOn(d)
  <2>1. gw'["detector"].turn = gw["detector"].turn
    BY <1>0, TurnStays DEF Answers, Answer, LeavesOpen, Subsystem
  <2> QED
    BY <2>1 DEF LastOn
<1>3. ASSUME NEW why, Throw(d, why) PROVE FALSE
  <2>1. gw'[s].state = "Failed"
    BY <1>0, <1>3 DEF Throw, Skeleton, SkeletonTypes
  <2> QED
    BY <1>1, <2>1
<1>4. ASSUME Ph(s) >= 10 PROVE KeepsData(d)
  <2>1. ~DtcClearsControl(d)
    <3>1. DtcClearsControl(d) => Ph(s) \in {0, 1}
      BY <1>1 DEF DtcClearsControl, At, ClockPhase, ClocksA, ClocksB
    <3> QED
      BY <1>4, <3>1
  <2>2. \/ board'[b].links = board[b].links
        \/ board'[b].links = "plain"
        \/ board'[b].links = "emulated" /\ d \notin RealROCs
    <3>1. DtcSetsLinks(d) => d \notin RealROCs
      BY DEF DtcSetsLinks
    <3> QED
      BY <1>0, <2>1, <3>1, LinksWritten
  <2> QED
    BY <1>0, <2>1, <2>2, DataWritten DEF KeepsData
<1>5. \A p \in {10, 11} : Past(d, p) \/ Within(d, p) => Ph(s) >= 10
  <2>1. Ph(s) \in Int
    BY <1>0 DEF Skeleton, SkeletonTypes, Ph, FirstIter
  <2> QED
    BY <1>1, <2>1 DEF Past, Within, Running
<1>6. ASSUME Within(d, 10) \/ Within(d, 11) PROVE \A p \in {10, 11} : Within(d, p) => At(d, p)
  BY <1>1 DEF At, Within
<1>7. CASE LeavesOpen(d) /\ board' = board
  <2>1. \A p \in {10, 11} : (Past(d, p)' <=> Past(d, p)) /\ (Within(d, p)' <=> Within(d, p))
    BY <1>7, GwStill DEF LeavesOpen
  <2>2. sub' = sub /\ board' = board
    BY <1>7 DEF LeavesOpen
  <2>3. \/ looked'[d] = looked[d] \/ looked'[d] = "not" \/ looked'[d] = board[b].links
    BY <1>0, <1>3, LookedWritten DEF Fails
  <2> QED
    BY <1>2, <2>1, <2>2, <2>3 DEF DataInv
<1>8. ASSUME NEW r \in Answer, Answers(d, r) PROVE DataInv(d)'
  <2>1. /\ \A p \in {10, 11} : /\ Past(d, p)' <=> Past(d, p) \/ (r # "sub" /\ Within(d, p))
                               /\ Within(d, p)' <=> Within(d, p) /\ r = "sub"
        /\ sub'[d] = IF r = "sub" THEN sub[d] + 1 ELSE 0
    BY <1>0, <1>8, AnswerMoves DEF Answers
  <2>2. ASSUME LastOn(d), d \in RealROCs, Past(d, 10)' \/ Within(d, 10)'
        PROVE  board'[b].links = "plain" /\ board'[b].dcs
    <3>1. CASE Past(d, 10)
      BY <1>4, <1>5, <2>2, <3>1 DEF DataInv, KeepsData
    <3>2. CASE Within(d, 10)
      <4>1. DtcSetsUpROCs(d) \/ DtcConfiguresROCs(d)
        BY <1>6, <2>2, <3>2, RocCallIs
      <4>2. CASE DtcSetsUpROCs(d)
        BY <1>0, <2>2, <4>2 DEF DtcSetsUpROCs, LinksOf, BoardTypes, BoardRegisters
      <4>3. CASE DtcConfiguresROCs(d)
        <5>1. sub[d] > 0 /\ board' = board
          BY <1>3, <4>3 DEF DtcConfiguresROCs
        <5> QED
          BY <2>2, <3>2, <5>1 DEF DataInv
      <4> QED
        BY <4>1, <4>2, <4>3
    <3> QED
      BY <2>1, <2>2, <3>1, <3>2
  <2>3. ASSUME LastOn(d), d \notin RealROCs, Past(d, 10)' \/ Within(d, 10)'
        PROVE  board'[b].links # "off"
    <3>1. CASE Past(d, 10)
      BY <1>4, <1>5, <2>3, <3>1 DEF DataInv, KeepsData
    <3>2. CASE Within(d, 10)
      <4>1. ~DtcReadsLinks(d)
        <5>1. DtcReadsLinks(d) => UNCHANGED <<gw, sub>>
          BY DEF DtcReadsLinks
        <5>2. UNCHANGED gw => (Within(d, 10)' <=> Within(d, 10))
          BY GwStill
        <5> QED
          BY <1>0, <2>1, <3>2, <5>1, <5>2
      <4>2. DtcSetsLinks(d)
        BY <1>6, <2>3, <3>2, <4>1, RocCallIs
      <4>3. board'[b].links = LinksAfter(d) /\ looked[d] # "not"
        BY <1>0, <4>2 DEF DtcSetsLinks, BoardTypes, BoardRegisters
      <4>4. looked[d] # "off" => board[b].links # "off"
        BY <2>3, <3>2, <4>3 DEF DataInv
      <4> QED
        BY <2>3, <4>3, <4>4 DEF LinksAfter, LinksOf
    <3> QED
      BY <2>1, <2>3, <3>1, <3>2
  <2>4. ASSUME LastOn(d), Past(d, 11)'
        PROVE  board'[b].drp /\ (d \in RealROCs => board'[b].evb)
    <3>1. CASE Past(d, 11)
      BY <1>4, <1>5, <2>4, <3>1 DEF DataInv, KeepsData
    <3>2. CASE Within(d, 11)
      <4>1. DtcSetsDataPath(d)
        BY <1>6, <3>2, RocCallIs
      <4> DEFINE v == board[b].evb \/ d \in RealROCs
                 n == [board[b] EXCEPT !.drp = TRUE, !.evb = v]
      <4>2. board' = [board EXCEPT ![b] = n]
        BY <4>1 DEF DtcSetsDataPath
      <4>3. board[b] \in BoardRegisters
        BY <1>0 DEF BoardTypes
      <4>4. v \in BOOLEAN
        BY <4>3 DEF BoardRegisters
      <4> HIDE DEF v
      <4>5. n \in BoardRegisters /\ n.drp /\ n.evb = v
        BY <4>3, <4>4 DEF BoardRegisters
      <4> HIDE DEF n
      <4>6. board'[b] = n
        BY <1>0, <4>2, <4>5, OneBoard
      <4> QED
        BY <4>5, <4>6 DEF v
    <3> QED
      BY <2>1, <2>4, <3>1, <3>2
  <2> QED
    BY <1>2, <2>2, <2>3, <2>4 DEF DataInv
<1> QED
  BY <1>7, <1>8

\* The front end's own call.
LEMMA OwnKeeps ==
  ASSUME Types, TopLevel, NEW d \in DTC, BoardInv(d), DtcCall(d)
  PROVE  BoardInv(d)'
<1>0. Skeleton /\ BoardTypes /\ d \in FrontEnd /\ Home(d) \in Subsystem /\ BoardOf[d] \in Board
      /\ Home(d)' = Home(d)
  BY Homes DEF Types, FrontEnd, Home
<1>1. ASSUME NEW why, Fails(d, why) PROVE BoardInv(d)'
  <2>1. \A p \in 3 .. 12 : ~Past(d, p)' /\ ~Within(d, p)'
    BY <1>0, <1>1, FailMoves
  <2> QED
    BY <2>1, EarlyHolds DEF Early
<1>2. CASE LeavesOpen(d) /\ board' = board
  <2>1. UNCHANGED <<gw, mode, sub, cfo>> /\ IsCalled(d) /\ Forgets(d)
    BY <1>0, <1>2, DtcCallIs DEF LeavesOpen
  <2>2. \A p : (Past(d, p)' <=> Past(d, p)) /\ (Within(d, p)' <=> Within(d, p))
    BY <2>1, GwStill
  <2>3. CASE Early(d)
    BY <2>2, <2>3, EarlyHolds DEF Early
  <2>4. CASE Fresh(d)' => Fresh(d)
    <3> SUFFICES ASSUME Fresh(d)' PROVE ChainInv(d)' /\ OffsetInv(d)' /\ DataInv(d)'
      BY DEF BoardInv
    <3>1. ChainInv(d) /\ OffsetInv(d) /\ DataInv(d)
      BY <2>4 DEF BoardInv
    <3>2. ChainInv(d)'
      BY <1>2, <2>1, <2>2, <3>1 DEF ChainInv, Locked
    <3>3. OffsetInv(d)'
      BY <1>2, <2>1, <2>2, <3>1 DEF OffsetInv, Syncing, OffsetPhase
    <3> QED
      BY <1>2, <3>1, <3>2, <3>3, OwnData
  <2> QED
    BY <1>0, <2>1, <2>3, <2>4, ForgetsEarly
<1>3. ASSUME NEW r \in Answer, Answers(d, r) PROVE BoardInv(d)'
  <2>1. IsCalled(d) /\ Forgets(d)
    BY <1>3 DEF Answers
  <2>2. CASE Early(d)
    <3>1. \A p \in 3 .. 12 : ~Past(d, p)' /\ ~Within(d, p)'
      <4>1. ASSUME NEW p \in 3 .. 12 PROVE ~Past(d, p)' /\ ~Within(d, p)'
        <5>1. ~Past(d, p) /\ ~Within(d, p)
          BY <2>2 DEF Early
        <5> QED
          BY <1>0, <1>3, <5>1, AnswerMoves DEF Answers
      <4> QED
        BY <4>1
    <3> QED
      BY <3>1, EarlyHolds DEF Early
  <2>3. CASE Fresh(d)' => Fresh(d)
    <3> SUFFICES ASSUME Fresh(d)' PROVE ChainInv(d)' /\ OffsetInv(d)' /\ DataInv(d)'
      BY DEF BoardInv
    <3>1. ChainInv(d) /\ OffsetInv(d) /\ DataInv(d)
      BY <2>3 DEF BoardInv
    <3> QED
      BY <1>3, <3>1, OwnChain, OwnOffset, OwnData
  <2> QED
    BY <1>0, <2>1, <2>2, <2>3, ForgetsEarly
<1> QED
  BY <1>0, <1>1, <1>2, <1>3, DtcCallIs

\* Whatever the step, what is claimed of a front end's board still holds.
LEMMA BoardKept ==
  ASSUME Types, TopLevel, Owners, Layout, NEW d \in DTC, LookInv(d), BoardInv(d), [Next]_vars
  PROVE  BoardInv(d)'
<1> DEFINE b == BoardOf[d]
           s == Home(d)
<1>0. /\ Skeleton /\ BoardTypes /\ d \in FrontEnd /\ s \in Subsystem /\ b \in Board /\ Home(d)' = s
      /\ (3 .. 12) \subseteq 0 .. Last(s) /\ (3 .. 12) \subseteq 0 .. 13
  BY Homes DEF Types, FrontEnd, Last, EventSending, FinalSoftReset, Home
<1>1. ASSUME \A p \in 3 .. 12 : ~Past(d, p)' /\ ~Within(d, p)' PROVE BoardInv(d)'
  BY <1>1, EarlyHolds DEF Early
<1>2. ASSUME UNCHANGED <<board, cfo>>, StillThere(d) PROVE BoardInv(d)'
  <2>1. KeepsChain(d) /\ KeepsData(d)
    BY <1>2 DEF KeepsChain, KeepsData, Keeps
  <2> QED
    BY <1>2, <2>1, StillHolds
<1>3. ASSUME NEW f \in FrontEnd, NoticesReboot(f) PROVE BoardInv(d)'
  <2>1. Fails(f, "rebooted") /\ UNCHANGED <<mode, sub, looked, board, cfo, stale>>
    BY <1>0, <1>3, NoticeIs DEF NoticesReboot, Throw
  <2>2. CASE Home(f) = s
    BY <1>0, <1>1, <2>1, <2>2, FailMoves
  <2>3. CASE Home(f) # s
    <3>1. \A p \in 3 .. 12 : (Past(d, p)' <=> Past(d, p)) /\ (Within(d, p)' <=> Within(d, p))
      BY <1>0, <2>1, <2>3, FailMoves
    <3>2. gw'["detector"].turn = gw["detector"].turn
      BY <1>0, <2>1, TurnStays DEF Fails, Subsystem
    <3> QED
      BY <1>2, <2>1, <3>1, <3>2 DEF StillThere, Fresh
  <2> QED
    BY <2>2, <2>3
<1>4. ASSUME NEW f \in FrontEnd, Waits(f) PROVE BoardInv(d)'
  <2>1. \A p \in 3 .. 12 : (Past(d, p)' <=> Past(d, p)) /\ (Within(d, p)' <=> Within(d, p))
    BY <1>0, <1>4, WaitMoves
  <2>2. sub'[d] = sub[d] /\ Forgets(f) /\ IsCalled(f) /\ UNCHANGED <<mode, looked, board, cfo>>
    BY <1>0, <1>4, WaitMoves DEF Waits
  <2>3. CASE Early(d)
    BY <1>1, <2>1, <2>3 DEF Early
  <2>4. CASE Fresh(d)' => Fresh(d)
    <3>1. gw'["detector"].turn = gw["detector"].turn
      BY <1>0, <1>4, TurnStays DEF Waits, Subsystem
    <3> QED
      BY <1>2, <2>1, <2>2, <2>4, <3>1 DEF StillThere
  <2> QED
    BY <1>0, <2>2, <2>3, <2>4, ForgetsEarly
<1>5. ASSUME NEW f \in FrontEnd, PastLast(f) PROVE BoardInv(d)'
  <2>1. Answers(f, "done") /\ Ph(Home(f)) = 13 /\ UNCHANGED <<looked, cfo, board>>
    BY <1>0, <1>5, PastLastIs
  <2>2. IsCalled(f) /\ Forgets(f) /\ Running(Home(f)) /\ UNCHANGED mode
    BY <2>1 DEF Answers, IsCalled, Running, Reply
  <2>3. f = d => \A p \in 3 .. 12 : ~Within(d, p)
    BY <2>1 DEF Within
  <2>4. \A p \in 3 .. 12 : /\ Past(d, p)' <=> Past(d, p)
                           /\ Within(d, p)' <=> Within(d, p)
                           /\ f # d => sub'[d] = sub[d]
    BY <1>0, <2>1, <2>3, AnswerMoves DEF Answers, Answer
  <2>5. CASE Early(d)
    BY <1>1, <2>4, <2>5 DEF Early
  <2>6. CASE Fresh(d)' => Fresh(d)
    <3>1. gw'["detector"].turn = gw["detector"].turn
      BY <1>0, <2>1, TurnStays DEF Answers, Subsystem
    <3> QED
      BY <1>2, <2>1, <2>2, <2>3, <2>4, <2>6, <3>1 DEF StillThere
  <2> QED
    BY <1>0, <2>2, <2>5, <2>6, ForgetsEarly
<1>6. ASSUME NEW t \in Subsystem, EndsIteration(t) PROVE BoardInv(d)'
  <2>1. /\ UNCHANGED <<mode, sub, stale, looked, board, cfo>>
        /\ \A p \in 3 .. 12 : Past(d, p)' <=> Past(d, p)
    BY <1>0, <1>6, IterationMoves DEF EndsIteration
  <2>2. gw'["detector"].turn = gw["detector"].turn
    <3>1. gw' = [gw EXCEPT ![t] = gw'[t]] /\ gw'[t].turn = gw[t].turn
      BY <1>0, <1>6 DEF EndsIteration, Skeleton, SkeletonTypes
    <3> QED
      BY <1>0, <3>1 DEF Skeleton, SkeletonTypes, Subsystem
  <2>3. ASSUME NEW p \in 3 .. 12, Within(d, p)'
        PROVE  \/ Within(d, p) /\ sub'[d] = sub[d] /\ looked'[d] = looked[d]
               \/ sub'[d] = 0 /\ looked'[d] = "not"
    <3>1. CASE s # t
      BY <1>0, <1>6, <2>1, <2>3, <3>1, IterationMoves
    <3>2. CASE s = t
      <4>1. sub[d] = 0 /\ ~Within(d, 10)
        BY <1>0, <1>6, <3>2, IterationMoves
      <4>2. looked[d] = "not"
        BY <1>6, <3>2, <4>1 DEF LookInv, EndsIteration, RocConfig
      <4> QED
        BY <2>1, <4>1, <4>2
    <3> QED
      BY <3>1, <3>2
  <2>4. StillThere(d)
    BY <2>1, <2>2, <2>3 DEF StillThere, Fresh
  <2> QED
    BY <1>2, <2>1, <2>4
<1>7. CASE NextTurn
  <2>1. /\ UNCHANGED <<mode, sub, stale, looked, board, cfo>>
        /\ \A p \in 3 .. 12 : (Past(d, p)' <=> Past(d, p)) /\ ~Within(d, p)'
    BY <1>0, <1>7, TurnMoves DEF NextTurn
  <2>2. gw["detector"].turn = 0
    BY <1>0, <1>7, TurnBegins
  <2> QED
    BY <1>2, <2>1, <2>2 DEF StillThere, Fresh
<1>8. ASSUME NEW m \in Modes, Configure(m) PROVE BoardInv(d)'
  <2>1. ASSUME NEW p \in 3 .. 12 PROVE ~Past(d, p)' /\ ~Within(d, p)'
    <3>1. p \in 0 .. 13 /\ p # 0
      OBVIOUS
    <3> QED
      BY <1>0, <1>8, <3>1, ConfigureMoves
  <2> QED
    BY <1>1, <2>1
<1>9. CASE Halt
  BY <1>0, <1>1, <1>9, HaltMoves
<1>10. ASSUME NEW x \in MayReboot, Reboot(x) PROVE BoardInv(d)'
  <2> SUFFICES ASSUME Fresh(d)' PROVE BoardInv(d)'
    BY DEF BoardInv
  <2>1. /\ x \in Board /\ \A u \in Board : u # x => board'[u] = board[u]
        /\ UNCHANGED <<mode, gw, sub, looked, cfo>>
        /\ stale' = stale \cup {e \in DTC : BoardOf[e] = x}
    BY <1>0, <1>10, RebootEffect DEF Reboot
  <2>2. d \in CfoHome /\ x \notin HomeBoard
    <3>1. PICK e \in DTC : BoardOf[e] = x
      BY <2>1 DEF Layout
    <3>2. e \in stale'
      BY <2>1, <3>1
    <3>3. d \in CfoHome
      BY <3>2 DEF Fresh
    <3>4. \A h \in CfoHome : BoardOf[h] # x
      BY <2>1, <3>3 DEF Fresh
    <3> QED
      BY <3>3, <3>4 DEF HomeBoard
  <2>3. \A u \in 1 .. b : board'[u] = board[u]
    <3>1. b \in HomeBoard
      BY <2>2 DEF HomeBoard
    <3>2. ~(x < b) /\ x # b
      BY <2>1, <2>2, <3>1 DEF Layout
    <3> QED
      BY <1>0, <2>1, <3>2 DEF Board
  <2>4. KeepsChain(d) /\ KeepsData(d)
    <3>1. board'[b] = board[b]
      BY <1>0, <2>3 DEF Board
    <3> QED
      BY <2>1, <2>3, <3>1 DEF KeepsChain, KeepsData, Keeps
  <2>5. StillThere(d)
    <3>1. \A p : (Past(d, p)' <=> Past(d, p)) /\ (Within(d, p)' <=> Within(d, p))
      BY <2>1, GwStill
    <3>2. Fresh(d)' => Fresh(d)
      BY <2>1 DEF Fresh
    <3> QED
      BY <2>1, <3>1, <3>2 DEF StillThere
  <2> QED
    BY <2>4, <2>5, StillHolds
<1>11. CASE UNCHANGED vars
  <2>1. \A p : (Past(d, p)' <=> Past(d, p)) /\ (Within(d, p)' <=> Within(d, p))
    BY <1>11, GwStill DEF vars
  <2> QED
    BY <1>2, <1>11, <2>1 DEF StillThere, Fresh, vars
<1>12. ASSUME NEW e \in DTC, DtcCall(e) PROVE BoardInv(d)'
  BY <1>12, OwnKeeps, OtherDtcKeeps
<1>13. CASE CfoCall
  BY <1>13, CfoKeeps
<1> QED
  BY <1>3, <1>4, <1>5, <1>6, <1>7, <1>8, <1>9, <1>10, <1>11, <1>12, <1>13 DEF Next, System

\* The edges of the home boards, once the loop has passed them.
LEMMA EdgesKept ==
  ASSUME Types, CfoInv, TopLevel, Layout, EdgesInv, [Next]_vars
  PROVE  EdgesInv'
<1> USE DEF CfoEdgeFix
<1> DEFINE Claimed(c) == Past(Cfo, 4) \/ (InFix /\ ~pass.toggled /\ c \notin pass.left)
<1>0. /\ Skeleton /\ BoardTypes /\ Cfo \in FrontEnd /\ Home(Cfo) = "cfo" /\ sub[Cfo] \in Nat
      /\ 4 \in 0 .. Last(Home(Cfo)) /\ 4 \in 0 .. 13 /\ "cfo" \in Subsystem
      /\ pass \in [left : SUBSET CfoHome, toggled : BOOLEAN, clean : 0 .. 1]
  BY Homes DEF Types, BookTypes, Skeleton, SkeletonTypes, FrontEnd, Last, EventSending, Subsystem
<1>1. ASSUME ~Past(Cfo, 4)', ~Within(Cfo, 4)' \/ sub'[Cfo] = 0 PROVE EdgesInv'
  BY <1>1 DEF EdgesInv, InFix
\* A step that forgets no reboot of the CFO's subsystem, and does not move the CFO front end.
<1>2. ASSUME mode' = mode, (stale' \cap CfoHome = {} => stale \cap CfoHome = {}),
             pass' = pass, sub'[Cfo] = sub[Cfo], (Past(Cfo, 4)' => Past(Cfo, 4)), (Within(Cfo, 4)' => Within(Cfo, 4)),
             stale \cap CfoHome = {} /\ EdgeFixing =>
               \A c \in CfoHome : Claimed(c) /\ Good(BoardOf[c]) => Good(BoardOf[c])'
      PROVE  EdgesInv'
  <2>1. EdgeFixing' = EdgeFixing /\ \A c \in CfoHome : Claimed(c)' => Claimed(c)
    BY <1>2 DEF EdgeFixing, InFix
  <2>2. SUFFICES ASSUME stale' \cap CfoHome = {}, EdgeFixing', NEW c \in CfoHome, Claimed(c)'
                 PROVE  Good(BoardOf[c])'
    BY DEF EdgesInv
  <2>3. Good(BoardOf[c])
    BY <1>2, <2>1, <2>2 DEF EdgesInv
  <2> QED
    BY <1>2, <2>1, <2>2, <2>3
\* A call forgets a reboot of the CFO's subsystem only before the loop.
<1>3. ASSUME NEW f \in FrontEnd, IsCalled(f), Forgets(f), ~(stale' \cap CfoHome = {} => stale \cap CfoHome = {})
      PROVE  ~Past(Cfo, 4) /\ ~Within(Cfo, 4)
  <2>1. IsFirst(f) /\ f \in CfoHome
    BY <1>3 DEF Forgets
  <2>2. Home(f) = "cfo"
    BY <2>1, Homes
  <2>3. gw["cfo"].turn # 1 /\ gw["cfo"].iter = 0 /\ gw["cfo"].state = "Configuring"
    BY <1>3, <2>1, <2>2 DEF IsFirst, IsCalled, Standalone
  <2>4. FirstIter("cfo") = 0
    BY <2>3 DEF FirstIter
  <2>5. Ph("cfo") = 0
    BY <2>3, <2>4 DEF Ph
  <2> QED
    BY <1>0, <2>3, <2>5 DEF Past, Within, Running
<1>4. ASSUME NEW f \in FrontEnd, f # Cfo,
             (\E r \in Answer : Answers(f, r)) \/ LeavesOpen(f) \/ (\E why : Fails(f, why)), pass' = pass,
             stale \cap CfoHome = {} /\ EdgeFixing =>
               \A c \in CfoHome : Claimed(c) /\ Good(BoardOf[c]) => Good(BoardOf[c])'
      PROVE  EdgesInv'
  <2>1. /\ Past(Cfo, 4)' => Past(Cfo, 4)
        /\ Within(Cfo, 4)' => Within(Cfo, 4)
        /\ sub'[Cfo] = sub[Cfo] /\ mode' = mode /\ IsCalled(f) /\ Forgets(f)
    <3>1. CASE \E r \in Answer : Answers(f, r)
      BY <1>0, <1>4, <3>1, AnswerMoves DEF Answers
    <3>2. CASE LeavesOpen(f)
      BY <3>2, GwStill DEF LeavesOpen
    <3>3. CASE \E why : Fails(f, why)
      BY <1>0, <3>3, FailMoves DEF Fails
    <3> QED
      BY <1>4, <3>1, <3>2, <3>3
  <2> QED
    BY <1>1, <1>2, <1>3, <1>4, <2>1
<1>5. ASSUME NEW d \in DTC, DtcCall(d) PROVE EdgesInv'
  <2>1. d \in FrontEnd /\ d # Cfo /\ pass' = pass /\ Home(d) \in Subsystem
    BY <1>0, <1>5, DtcCallIs, Homes DEF FrontEnd
  <2>2. ASSUME IsCalled(d), IsMyTurn(d), stale \cap CfoHome = {}, EdgeFixing, NEW c \in CfoHome, Claimed(c),
               Good(BoardOf[c])
        PROVE  Good(BoardOf[c])'
    <3>0. BoardOf[c] \in Board /\ BoardOf[d] \in Board
      OBVIOUS
    <3>1. CASE Within(Cfo, 4)
      <4>1. Home(d) = "cfo"
        <5>1. IsCalled(Cfo) /\ IsMyTurn(Cfo)
          BY <1>0, <3>1, Homes DEF Within, IsCalled, Running
        <5> QED
          BY <1>0, <2>1, <2>2, <5>1, Turns, Homes DEF Subsystem
      <4>2. Phase(d) = 4
        BY <1>0, <2>1, <2>2, <3>1, <4>1, PhaseIs DEF Within
      <4>3. UNCHANGED board
        BY <1>5, <2>2, <4>2, FixPhaseIdle DEF At
      <4> QED
        BY <2>2, <4>3 DEF Good
    <3>2. CASE Past(Cfo, 4)
      <4>1. CASE board'[BoardOf[c]].edge = board[BoardOf[c]].edge /\ (board'[BoardOf[c]].err => board[BoardOf[c]].err)
        BY <2>2, <4>1 DEF Good
      <4>2. CASE BoardOf[c] >= BoardOf[d] /\ TRUE \in EdgeErrors(BoardOf[d])
        <5>1. BoardOf[d] \in HomeBoard
          <6>1. BoardOf[c] = BoardOf[d] \/ BoardOf[d] < BoardOf[c]
            BY <3>0, <4>2 DEF Board
          <6> QED
            BY <3>0, <6>1 DEF Layout, HomeBoard
        <5>2. Good(BoardOf[d])
          BY <2>2, <3>2, <5>1 DEF EdgesInv, HomeBoard
        <5>3. TRUE \notin EdgeErrors(BoardOf[d])
          BY <5>2 DEF Good, EdgeErrors
        <5> QED
          BY <4>2, <5>3
      <4> QED
        BY <1>0, <1>5, <3>0, <4>1, <4>2, EdgesWritten
    <3> QED
      BY <2>2, <3>1, <3>2 DEF InFix
  <2>3. ASSUME NEW r \in Answer, Answers(d, r) PROVE EdgesInv'
    BY <1>4, <2>1, <2>2, <2>3 DEF Answers
  <2>4. CASE LeavesOpen(d) /\ board' = board
    BY <1>4, <2>1, <2>4 DEF Good
  <2>5. ASSUME NEW why, Fails(d, why) PROVE EdgesInv'
    BY <1>4, <2>1, <2>5 DEF Good, Fails, Throw
  <2> QED
    BY <1>0, <1>5, <2>3, <2>4, <2>5, DtcCallIs
<1>6. CASE CfoCall
  <2>0. Cfo \in FrontEnd /\ IsCalled(Cfo)
    BY <1>0, <1>6, CfoCallIs
  <2>1. CASE Within(Cfo, 4) /\ EdgeFixing
    <3>0. Ph("cfo") = 4 /\ cfo.events /\ ~Past(Cfo, 4)
      <4>1. Ph("cfo") = 4 /\ Past(Cfo, 2) /\ ~Past(Cfo, 9) /\ ~Past(Cfo, 4)
        BY <1>0, <2>1 DEF Past, Within, Running
      <4> QED
        BY <2>1, <4>1 DEF CfoInv, ChainEnable, SyncE
    <3>1. CASE CfoValidatesRTF
      <4>1. CASE pass' = [NoPass EXCEPT !.left = CfoHome] /\ Reply(Cfo, "sub")
        <5>1. pass'.left = CfoHome /\ ~Past(Cfo, 4)'
          BY <1>0, <2>1, <3>0, <4>1, <3>1, AnswerMoves DEF NoPass, CfoValidatesRTF, AtEdgeFix, At, Answer
        <5> QED
          BY <5>1 DEF EdgesInv
      <4>2. CASE Throw(Cfo, "rtfStatus")
        <5>1. gw'["cfo"].state = "Failed"
          BY <1>0, <4>2 DEF Throw, Skeleton, SkeletonTypes
        <5> QED
          BY <1>0, <1>1, <5>1 DEF Past, Within, Running, Home
      <4> QED
        BY <3>1, <4>1, <4>2 DEF CfoValidatesRTF
    <3>2. ASSUME NEW d \in CfoHome, CfoFixesEdge(d) PROVE EdgesInv'
      <4>1. /\ UNCHANGED <<mode, gw, sub, stale, cfo>> /\ pass'.left = pass.left \ {d} /\ sub[Cfo] > 0
            /\ \/ FALSE \in EdgeErrors(BoardOf[d]) /\ pass'.toggled = pass.toggled /\ UNCHANGED board
               \/ pass'.toggled = TRUE
        BY <1>0, <3>2 DEF CfoFixesEdge
      <4>2. ~Past(Cfo, 4)' /\ InFix' /\ EdgeFixing' /\ InFix
        BY <2>1, <3>0, <4>1, GwStill DEF InFix, EdgeFixing
      <4>3. CASE FALSE \in EdgeErrors(BoardOf[d]) /\ pass'.toggled = pass.toggled /\ UNCHANGED board
        <5>1. Good(BoardOf[d])
          BY <3>0, <4>3, EventsTell
        <5>2. ASSUME stale' \cap CfoHome = {}, ~pass'.toggled, NEW c \in CfoHome, c \notin pass'.left
              PROVE  Good(BoardOf[c])'
          <6>1. c = d \/ c \notin pass.left
            BY <4>1, <5>2
          <6>2. Good(BoardOf[c])
            BY <2>1, <4>1, <4>2, <4>3, <5>1, <5>2, <6>1 DEF EdgesInv
          <6> QED
            BY <4>3, <6>2 DEF Good
        <5> QED
          BY <4>2, <5>2 DEF EdgesInv
      <4>4. CASE pass'.toggled = TRUE
        BY <4>2, <4>4 DEF EdgesInv
      <4> QED
        BY <4>1, <4>3, <4>4
    <3>3. ASSUME NEW d \in CfoHome, CfoFindsNoMarkers(d) PROVE EdgesInv'
      <4>1. gw'["cfo"].state = "Failed"
        BY <1>0, <3>3 DEF CfoFindsNoMarkers, Throw, Skeleton, SkeletonTypes
      <4> QED
        BY <1>0, <1>1, <4>1 DEF Past, Within, Running, Home
    <3>4. CASE CfoEndsPass
      <4>0. sub[Cfo] > 0 /\ pass.left = {} /\ InFix /\ stale' = stale
        BY <2>1, <3>4 DEF CfoEndsPass, InFix
      <4>1. CASE CleanPasses >= 2 /\ Reply(Cfo, "more") /\ UNCHANGED board
        <5>1. ~pass.toggled
          BY <4>1 DEF CleanPasses
        <5>2. mode' = mode
          BY <4>1 DEF Reply
        <5>3. ASSUME stale' \cap CfoHome = {}, NEW c \in CfoHome PROVE Good(BoardOf[c])'
          BY <2>1, <4>0, <4>1, <5>1, <5>3 DEF EdgesInv, Good
        <5> QED
          BY <5>3 DEF EdgesInv
      <4>2. CASE pass' = [left |-> CfoHome, toggled |-> FALSE, clean |-> CleanPasses] /\ Reply(Cfo, "sub")
        <5>1. pass'.left = CfoHome /\ ~Past(Cfo, 4)'
          BY <1>0, <2>1, <3>0, <4>2, <3>4, AnswerMoves DEF CfoEndsPass, AtEdgeFix, At, Answer
        <5> QED
          BY <5>1 DEF EdgesInv
      <4>3. CASE Throw(Cfo, "notConverged")
        <5>1. gw'["cfo"].state = "Failed"
          BY <1>0, <4>3 DEF Throw, Skeleton, SkeletonTypes
        <5> QED
          BY <1>0, <1>1, <5>1 DEF Past, Within, Running, Home
      <4> QED
        BY <3>4, <4>1, <4>2, <4>3 DEF CfoEndsPass
    <3> QED
      BY <1>0, <1>6, <2>1, <3>0, <3>1, <3>2, <3>3, <3>4, FixCalls
  <2>2. CASE ~EdgeFixing
    <3>1. mode' = mode
      BY <1>0, <1>6, CfoCallIs DEF Answers, LeavesOpen, Fails, Throw, Reply
    <3> QED
      BY <2>2, <3>1 DEF EdgesInv, EdgeFixing
  <2>3. CASE ~Within(Cfo, 4) /\ EdgeFixing
    <3>1. ~\E d \in CfoHome : CfoFixesEdge(d)
      <4>1. SUFFICES ASSUME NEW d \in CfoHome, CfoFixesEdge(d) PROVE FALSE
        OBVIOUS
      <4>2. At(Cfo, 4)
        BY <4>1 DEF CfoFixesEdge, AtEdgeFix
      <4> QED
        BY <1>0, <2>3, <4>2, CalledAt
    <3>2. \A c \in CfoHome : board'[BoardOf[c]].edge = board[BoardOf[c]].edge /\ board'[BoardOf[c]].err = board[BoardOf[c]].err
      BY <1>0, <1>6, <3>1, CfoEdgesWritten
    <3>3. ASSUME IsMyTurn(Cfo), Forgets(Cfo), mode' = mode, Past(Cfo, 4)' => Past(Cfo, 4), ~Within(Cfo, 4)'
          PROVE  EdgesInv'
      <4>1. CASE ~Past(Cfo, 4)'
        BY <1>1, <3>3, <4>1
      <4>2. CASE Past(Cfo, 4)
        <5>1. stale' \cap CfoHome = {} => stale \cap CfoHome = {}
          BY <1>3, <2>0, <3>3, <4>2
        <5> QED
          BY <2>3, <3>2, <3>3, <4>2, <5>1 DEF EdgesInv, Good, InFix
      <4> QED
        BY <3>3, <4>1, <4>2
    <3>4. ASSUME NEW r \in Answer, Answers(Cfo, r) PROVE EdgesInv'
      <4>1. (Past(Cfo, 4)' => Past(Cfo, 4)) /\ ~Within(Cfo, 4)' /\ mode' = mode
        BY <1>0, <2>3, <3>4, AnswerMoves DEF Answers
      <4> QED
        BY <3>3, <3>4, <4>1 DEF Answers
    <3>5. CASE LeavesOpen(Cfo)
      <4>1. (Past(Cfo, 4)' => Past(Cfo, 4)) /\ ~Within(Cfo, 4)' /\ mode' = mode
        BY <2>3, <3>5, GwStill DEF LeavesOpen
      <4> QED
        BY <3>3, <3>5, <4>1 DEF LeavesOpen
    <3>6. ASSUME NEW why, Fails(Cfo, why) PROVE EdgesInv'
      BY <1>0, <1>1, <3>6, FailMoves
    <3> QED
      BY <1>0, <1>6, <3>4, <3>5, <3>6, CfoCallIs
  <2> QED
    BY <2>1, <2>2, <2>3
<1>7. ASSUME NEW f \in FrontEnd, NoticesReboot(f) PROVE EdgesInv'
  <2>1. Fails(f, "rebooted") /\ UNCHANGED <<mode, sub, pass, board, stale>>
    BY <1>0, <1>7, NoticeIs DEF NoticesReboot, Throw
  <2>2. (Past(Cfo, 4)' => Past(Cfo, 4)) /\ (Within(Cfo, 4)' => Within(Cfo, 4))
    BY <1>0, <2>1, FailMoves
  <2> QED
    BY <1>2, <2>1, <2>2 DEF Good
<1>8. ASSUME NEW f \in FrontEnd, Waits(f) PROVE EdgesInv'
  <2>1. /\ (Past(Cfo, 4)' <=> Past(Cfo, 4)) /\ (Within(Cfo, 4)' <=> Within(Cfo, 4))
        /\ sub'[Cfo] = sub[Cfo] /\ Forgets(f) /\ IsCalled(f) /\ UNCHANGED <<mode, pass, board>>
    BY <1>0, <1>8, WaitMoves DEF Waits
  <2> QED
    BY <1>1, <1>2, <1>3, <2>1 DEF Good
<1>9. ASSUME NEW f \in FrontEnd, PastLast(f) PROVE EdgesInv'
  <2>1. Answers(f, "done") /\ Ph(Home(f)) = 13 /\ UNCHANGED <<pass, board>>
    BY <1>0, <1>9, PastLastIs
  <2>2. f # Cfo
    <3>1. Last("cfo") = 13
      BY DEF Last, EventSending
    <3>2. IsCalled(f) /\ IsMyTurn(f) /\ (f = Cfo => Phase(f) > 13)
      BY <1>0, <1>9 DEF PastLast, At, EventSending, FinalSoftReset
    <3> QED
      BY <1>0, <3>1, <3>2, PhaseIs
  <2> QED
    BY <1>4, <2>1, <2>2 DEF Answer, Good
<1>10. ASSUME NEW s \in Subsystem, EndsIteration(s) PROVE EdgesInv'
  <2>1. (Past(Cfo, 4)' <=> Past(Cfo, 4)) /\ UNCHANGED <<mode, sub, stale, pass, board>>
    BY <1>0, <1>10, IterationMoves
  <2>2. CASE s # "cfo"
    BY <1>0, <1>2, <1>10, <2>1, <2>2, IterationMoves DEF Good
  <2>3. CASE s = "cfo"
    <3>1. sub[Cfo] = 0
      BY <1>0, <1>10, <2>3, IterationMoves
    <3> QED
      BY <2>1, <3>1 DEF EdgesInv, InFix, EdgeFixing, Good
  <2> QED
    BY <2>2, <2>3
<1>11. CASE NextTurn
  <2>1. /\ (Past(Cfo, 4)' <=> Past(Cfo, 4)) /\ UNCHANGED <<mode, sub, stale, pass, board>>
        /\ Within(Cfo, 4)' => 4 = 0
    BY <1>0, <1>11, TurnMoves
  <2> QED
    BY <1>2, <2>1 DEF Good
<1>12. ASSUME NEW m \in Modes, Configure(m) PROVE EdgesInv'
  <2>1. ~Past(Cfo, 4)' /\ (Within(Cfo, 4)' => 4 = 0)
    BY <1>0, <1>12, ConfigureMoves
  <2> QED
    BY <1>1, <2>1
<1>13. CASE Halt
  BY <1>0, <1>1, <1>13, HaltMoves
<1>14. ASSUME NEW b \in MayReboot, Reboot(b) PROVE EdgesInv'
  <2>1. /\ \A u \in Board : u # b => board'[u] = board[u]
        /\ UNCHANGED <<mode, gw, sub, pass>>
        /\ stale' = stale \cup {e \in DTC : BoardOf[e] = b}
    BY <1>0, <1>14, RebootEffect DEF Reboot
  <2>2. CASE b \in HomeBoard
    <3>1. stale' \cap CfoHome # {}
      BY <2>1, <2>2 DEF HomeBoard
    <3> QED
      BY <3>1 DEF EdgesInv
  <2>3. CASE b \notin HomeBoard
    <3>1. \A c \in CfoHome : board'[BoardOf[c]] = board[BoardOf[c]]
      BY <2>1, <2>3 DEF HomeBoard
    <3>2. (Past(Cfo, 4)' <=> Past(Cfo, 4)) /\ (Within(Cfo, 4)' <=> Within(Cfo, 4))
      BY <2>1, GwStill
    <3> QED
      BY <1>2, <2>1, <3>1, <3>2 DEF Good
  <2> QED
    BY <2>2, <2>3
<1>15. CASE UNCHANGED vars
  <2>1. (Past(Cfo, 4)' <=> Past(Cfo, 4)) /\ (Within(Cfo, 4)' <=> Within(Cfo, 4))
    BY <1>15, GwStill DEF vars
  <2> QED
    BY <1>2, <1>15, <2>1 DEF Good, vars
<1> QED
  BY <1>5, <1>6, <1>7, <1>8, <1>9, <1>10, <1>11, <1>12, <1>13, <1>14, <1>15 DEF Next, System

\* In a finished configure a front end has been through all its phases.
LEMMA AllPast ==
  ASSUME Skeleton, TopLevel, NEW f \in FrontEnd, gw[Home(f)].state = "Configured"
  PROVE  (\A p : Past(f, p)) /\ (Home(f) = "detector" => gw["detector"].turn = 1)
<1>1. Home(f) \in Subsystem /\ f \in FEs(Home(f))
  BY Homes
<1>2. OnTurn(Home(f)) /\ gw[Home(f)].turn # Standalone
  BY <1>1 DEF Skeleton, GatewayInv
<1>3. \A p : Past(f, p)
  BY <1>2 DEF Past
<1> QED
  BY <1>2, <1>3 DEF OnTurn, Pass

LEMMA ReadyBoard ==
  ASSUME Types, CfoInv, TopLevel, Owners, EdgesInv, \A d \in DTC : BoardInv(d), stale = {},
         \A s \in Subsystem : gw[s].state = "Configured", NEW d \in DTC
  PROVE  BoardReady(BoardOf[d])
<1> DEFINE b == BoardOf[d]
<1>0. Skeleton /\ Cfo \in FrontEnd /\ DTC \subseteq FrontEnd /\ b \in Board /\ "detector" \in Subsystem
  BY DEF Types, FrontEnd, Subsystem
<1>1. \A f \in FrontEnd : \A p : Past(f, p)
  BY <1>0, AllPast, Homes
<1>2. \A e \in DTC : ChainInv(e) /\ OffsetInv(e) /\ DataInv(e)
  BY DEF BoardInv, Fresh
\* The front end that had the last word on the board.
<1>3. PICK e \in DTC : BoardOf[e] = b /\ LastOn(e)
  BY DEF LastOn
<1>4. Locked(b) /\ board[b].rx
  <2>1. Locked(b)
    BY <1>0, <1>1, <1>2 DEF ChainInv
  <2>2. b \in 1 .. b
    BY <1>0 DEF Board
  <2> QED
    BY <2>1, <2>2 DEF Locked
<1>5. ASSUME EdgeFixing, NEW c \in CfoHome, BoardOf[c] = b PROVE board[b].edge
  BY <1>0, <1>1, <1>5 DEF EdgesInv, Good
<1>6. Syncing => board[b].offset
  BY <1>0, <1>1, <1>2 DEF OffsetInv
<1>7. board[b].drp
  BY <1>0, <1>1, <1>2, <1>3 DEF DataInv
<1>8. CASE \E o \in RealROCs : BoardOf[o] = b
  <2>1. e \in RealROCs
    <3>1. PICK o \in RealROCs : BoardOf[o] = b
      BY <1>8
    <3>2. o \in DTC
      BY <3>1, ChainAssumption
    <3>3. SUFFICES ASSUME e \notin RealROCs PROVE FALSE
      OBVIOUS
    <3>4. e \in CfoHome /\ o \notin CfoHome
      BY <1>3, <3>1, <3>3 DEF Owners
    \* The owner, a detector's front end, would have had the last word.
    <3>5. gw["detector"].turn = 1
      BY <1>0, <3>2, <3>4, AllPast, ChainAssumption DEF Home
    <3> QED
      BY <1>3, <3>1, <3>2, <3>4, <3>5 DEF LastOn
  <2>2. board[b].links = "plain" /\ board[b].dcs /\ board[b].evb
    BY <1>0, <1>1, <1>2, <1>3, <2>1 DEF DataInv
  <2> QED
    BY <1>4, <1>5, <1>6, <1>7, <1>8, <2>2 DEF BoardReady
<1>9. CASE ~\E o \in RealROCs : BoardOf[o] = b
  <2>1. board[b].links # "off"
    BY <1>0, <1>1, <1>2, <1>3, <1>9 DEF DataInv
  <2> QED
    BY <1>4, <1>5, <1>6, <1>7, <1>9, <2>1 DEF BoardReady
<1> QED
  BY <1>8, <1>9

\* When both subsystems report Configured and no reboot waits to be noticed, every board has
\* what the run needs, whichever front ends have worked on it after which, and the CFO sends
\* markers but no events.
THEOREM ReadyWhenConfigured ==
  ASSUME TopLevel, Owners, Layout
  PROVE  Spec => []ConfiguredIsReady
<1> DEFINE Inv == /\ Types /\ CfoInv /\ EdgesInv
                  /\ \A d \in DTC : LookInv(d) /\ BoardInv(d)
<1>1. Init => Inv
  <2> SUFFICES ASSUME Init PROVE Inv
    OBVIOUS
  <2>1. Types /\ CfoInv /\ Skeleton /\ Cfo \in FrontEnd /\ DTC \subseteq FrontEnd
    BY TypesInit, CfoInvInit DEF Types, FrontEnd
  <2>2. EdgesInv
    BY <2>1, HaltedInit DEF EdgesInv, InFix
  <2>3. ASSUME NEW d \in DTC PROVE LookInv(d) /\ BoardInv(d)
    <3>1. LookInv(d)
      BY DEF Init, LookInv
    <3>2. \A p : ~Past(d, p) /\ ~Within(d, p)
      BY <2>1, HaltedInit
    <3> QED
      BY <3>1, <3>2 DEF BoardInv, ChainInv, OffsetInv, DataInv
  <2> QED
    BY <2>1, <2>2, <2>3
<1>2. Inv /\ [Next]_vars => Inv'
  <2> SUFFICES ASSUME Inv, [Next]_vars PROVE Inv'
    OBVIOUS
  <2>1. Types' /\ CfoInv'
    BY TypesKept, CfoInvKept
  <2>2. EdgesInv' /\ \A d \in DTC : LookInv(d)'
    BY EdgesKept, LookKept
  <2>3. \A d \in DTC : BoardInv(d)'
    BY BoardKept
  <2> QED
    BY <2>1, <2>2, <2>3
<1>3. ASSUME Inv PROVE ConfiguredIsReady
  <2> SUFFICES ASSUME stale = {}, \A s \in Subsystem : gw[s].state = "Configured"
               PROVE  /\ cfo.links /\ cfo.markers /\ cfo.rf0 /\ ~cfo.events
                      /\ \A d \in DTC : BoardReady(BoardOf[d])
    BY DEF ConfiguredIsReady
  <2>1. \A p : Past(Cfo, p)
    BY <1>3, AllPast, Homes DEF Types, FrontEnd
  <2> QED
    BY <1>3, <2>1, ReadyBoard DEF CfoInv
<1> QED
  BY <1>1, <1>2, <1>3, PTL DEF Spec
=============================================================================
