------------------------- MODULE SharedRunPlanProofs -------------------------
(***************************************************************************)
(* Proofs about the shared run plan, for loops of any sizes nested to any  *)
(* depth, any subsystems, duty cycles, offsets and counts.                 *)
(*                                                                         *)
(* The invariant says where the program stands (Position: the number of    *)
(* the next event against the operation and the passes left in the loops), *)
(* how the masks of a bit that no macro works on look and when the bit is  *)
(* on (Resting: always, never, in fine slots, at the start of a coarse     *)
(* loop), and for the bit in work how far its macro has come (MacroOK).    *)
(* Every step of the CFO is a step of each bit alone (BitTurns), every     *)
(* word that is written changes the bit in work only.                      *)
(*                                                                         *)
(* Hypotheses: Careful, as in the runs, and OneTeam: one macro at a time.  *)
(* Macros that overlap write back masks that they have read before the     *)
(* others have written.                                                    *)
(***************************************************************************)
EXTENDS SharedRunPlan, FiniteSetTheorems, FunctionTheorems, WellFoundedInduction, TLAPS

-----------------------------------------------------------------------------
(* Arithmetic                                                               *)

\* The remainder and the quotient of a division.
LEMMA Division ==
  ASSUME NEW a \in Int, NEW n \in Nat, n > 0
  PROVE  /\ a % n \in 0..(n - 1) /\ a \div n \in Int
         /\ a = n * (a \div n) + (a % n)
  OBVIOUS

\* Nothing else is the remainder.
LEMMA Remainder ==
  ASSUME NEW a \in Int, NEW n \in Nat, n > 0, NEW q \in Int, NEW r \in 0..(n - 1), a = n * q + r
  PROVE  a % n = r
  OBVIOUS

\* What divides a divisor divides.
LEMMA Divides ==
  ASSUME NEW a \in Int, NEW n \in Nat, NEW d \in Nat, n > 0, d > 0, n % d = 0
  PROVE  (a % n) % d = a % d
  <1> DEFINE p == n \div d
             q == a \div n
             s == (a % n) \div d
             r == (a % n) % d
  <1>1. p \in Int /\ n = d * p
    BY Division
  <1>2. q \in Int /\ a % n \in Int /\ a = n * q + (a % n)
    BY Division
  <1>3. s \in Int /\ r \in 0..(d - 1) /\ a % n = d * s + r
    BY <1>2, Division
  <1> HIDE DEF p, q, s, r
  <1>4. a = d * (p * q + s) + r
    <2>1. a = (d * p) * q + (d * s + r)
      BY <1>1, <1>2, <1>3
    <2>2. (d * p) * q = d * (p * q)
      BY <1>1, <1>2
    <2>3. d * (p * q + s) = d * (p * q) + d * s
      BY <1>1, <1>2, <1>3
    <2>4. p * q \in Int /\ d * s \in Int /\ d * (p * q) \in Int
      BY <1>1, <1>2, <1>3
    <2> QED
      BY <2>1, <2>2, <2>3, <2>4, <1>3
  <1>5. p * q + s \in Int
    BY <1>1, <1>2, <1>3
  <1>6. a % d = r
    BY <1>4, <1>5, <1>3, Remainder
  <1> QED
    BY <1>6 DEF r

\* The remainder of the successor.
LEMMA NextRemainder ==
  ASSUME NEW a \in Int, NEW n \in Nat, n > 0
  PROVE  (a + 1) % n = IF a % n = n - 1 THEN 0 ELSE (a % n) + 1
  <1> DEFINE q == a \div n
             r == a % n
  <1>1. q \in Int /\ r \in 0..(n - 1) /\ a = n * q + r
    BY Division
  <1> HIDE DEF q, r
  <1>2. CASE r = n - 1
    <2>1. a + 1 = n * (q + 1) + 0
      BY <1>1, <1>2
    <2>2. a + 1 \in Int /\ q + 1 \in Int /\ 0 \in 0..(n - 1)
      BY <1>1
    <2>3. (a + 1) % n = 0
      BY <2>1, <2>2, Remainder
    <2> QED
      BY <2>3, <1>2 DEF r
  <1>3. CASE r # n - 1
    <2>1. a + 1 = n * q + (r + 1)
      BY <1>1
    <2>2. r + 1 \in 0..(n - 1)
      BY <1>1, <1>3
    <2>3. (a + 1) % n = r + 1
      BY <2>1, <2>2, <1>1, Remainder
    <2> QED
      BY <2>3, <1>3 DEF r
  <1> QED
    BY <1>2, <1>3

\* Differences may be taken before or after.
LEMMA ShiftedRemainder ==
  ASSUME NEW a \in Int, NEW f \in Int, NEW n \in Nat, NEW d \in Nat, n > 0, d > 0, n % d = 0
  PROVE  (a - f) % d = ((a % n) - f) % d
  <1> DEFINE p == n \div d
             q == a \div n
             r == a % n
             s == (r - f) \div d
             u == (r - f) % d
  <1>1. p \in Int /\ n = d * p
    BY Division
  <1>2. q \in Int /\ r \in Int /\ a = n * q + r
    BY Division
  <1>3. s \in Int /\ u \in 0..(d - 1) /\ r - f = d * s + u
    <2> HIDE DEF r
    <2>1. r - f \in Int
      BY <1>2
    <2> QED
      BY <2>1, Division
  <1> HIDE DEF p, q, r, s, u
  <1>4. a - f = d * (p * q + s) + u
    <2>1. a - f = (d * p) * q + (d * s + u)
      BY <1>1, <1>2, <1>3
    <2>2. (d * p) * q = d * (p * q)
      BY <1>1, <1>2
    <2>3. d * (p * q + s) = d * (p * q) + d * s
      BY <1>1, <1>2, <1>3
    <2>4. p * q \in Int /\ d * s \in Int /\ d * (p * q) \in Int
      BY <1>1, <1>2, <1>3
    <2> QED
      BY <2>1, <2>2, <2>3, <2>4, <1>3
  <1>5. p * q + s \in Int /\ a - f \in Int
    BY <1>1, <1>2, <1>3
  <1>6. (a - f) % d = u
    BY <1>4, <1>5, <1>3, Remainder
  <1> QED
    BY <1>6 DEF u, r

\* A multiple of d behind j multiples of d, and at most behind one more, is behind that one.
LEMMA NextMultiple ==
  ASSUME NEW d \in Nat, d > 0, NEW j \in Nat, NEW a \in Nat, a % d = 0, j * d < a, a <= (j + 1) * d
  PROVE  a = (j + 1) * d
  <1> DEFINE q == a \div d
  <1>1. q \in Int /\ a = d * q
    BY Division
  <1> HIDE DEF q
  <1>2. q > j
    <2>1. SUFFICES ASSUME q <= j PROVE FALSE
      BY <1>1
    <2>2. d * q <= d * j
      BY <2>1, <1>1
    <2> QED
      BY <2>2, <1>1
  <1>3. q <= j + 1
    <2>1. SUFFICES ASSUME q >= j + 2 PROVE FALSE
      BY <1>1
    <2>2. d * q >= d * (j + 2)
      BY <2>1, <1>1
    <2>3. d * (j + 2) = d * (j + 1) + d
      OBVIOUS
    <2>4. d * (j + 1) \in Int /\ d * (j + 1) = (j + 1) * d
      OBVIOUS
    <2> QED
      BY <2>2, <2>3, <2>4, <1>1
  <1> QED
    BY <1>1, <1>2, <1>3

\* A loop over multiples of d that has done j of its passes, and the events of one more, has
\* done one more of them.
LEMMA PassEnds ==
  ASSUME NEW a \in Nat, a > 0, NEW d \in Nat, d > 0, NEW n \in Nat, n > 0, n % d = 0, a % d = 0,
         NEW j \in Nat, j * d <= (a - 1) % n, (a - 1) % n < (j + 1) * d
  PROVE  /\ (j + 1) * d = n => a % n = 0
         /\ (j + 1) * d < n => a % n = (j + 1) * d
         /\ (j + 1) * d <= n
  <1> DEFINE r == (a - 1) % n
             m == (j + 1) * d
  <1>1. r \in 0..(n - 1) /\ a % n = (IF r = n - 1 THEN 0 ELSE r + 1)
    <2>1. a - 1 \in Int /\ (a - 1) + 1 = a
      OBVIOUS
    <2> QED
      BY <2>1, Division, NextRemainder
  <1>2. (r + 1) % d = 0
    <2>1. (a % n) % d = 0
      BY Divides
    <2>2. CASE r = n - 1
      <3>1. r + 1 = n
        BY <1>1, <2>2
      <3> QED
        BY <3>1
    <2>3. CASE r # n - 1
      BY <2>1, <2>3, <1>1
    <2> QED
      BY <2>2, <2>3
  <1>3. j * d \in Nat /\ m \in Nat
    OBVIOUS
  <1>4. j * d <= r /\ r < m
    OBVIOUS
  <1> HIDE DEF r
  <1>5. r + 1 = m
    <2>1. j * d < r + 1 /\ r + 1 <= m /\ r + 1 \in Nat
      BY <1>1, <1>3, <1>4
    <2> QED
      BY <2>1, <1>2, NextMultiple
  <1> HIDE DEF m
  <1>6. /\ m = n => a % n = 0
        /\ m < n => a % n = m
        /\ m <= n
    BY <1>1, <1>3, <1>5
  <1> QED
    BY <1>6 DEF m

\* Multiples of d have no remainder.
LEMMA MultipleIs ==
  ASSUME NEW d \in Nat, d > 0, NEW j \in Int
  PROVE  (j * d) % d = 0
  <1>1. j * d = d * j + 0 /\ j * d \in Int /\ 0 \in 0..(d - 1)
    OBVIOUS
  <1> QED
    BY <1>1, Remainder

\* A step that ends no round of d stays in the pass of a loop over multiples of d.
LEMMA StaysInPass ==
  ASSUME NEW a \in Int, NEW d \in Nat, d > 0, NEW n \in Nat, n > 0, n % d = 0, (a + 1) % d # 0,
         NEW j \in Nat, j * d <= a % n, a % n < (j + 1) * d
  PROVE  /\ (a + 1) % n = (a % n) + 1
         /\ j * d <= (a + 1) % n /\ (a + 1) % n < (j + 1) * d
  <1> DEFINE r == a % n
             m == (j + 1) * d
             k == j * d
  <1>1. r \in 0..(n - 1) /\ (a + 1) % n = (IF r = n - 1 THEN 0 ELSE r + 1)
    BY Division, NextRemainder
  <1>2. ((a + 1) % n) % d = (a + 1) % d
    <2>1. a + 1 \in Int
      OBVIOUS
    <2> QED
      BY <2>1, Divides
  <1>3. m % d = 0 /\ m \in Int /\ k \in Int /\ k <= r /\ r < m
    <2>1. j + 1 \in Int
      OBVIOUS
    <2> QED
      BY <2>1, MultipleIs
  <1>4. 0 % d = 0
    OBVIOUS
  <1> HIDE DEF r, m, k
  <1>5. r # n - 1
    BY <1>1, <1>2, <1>4
  <1>6. r + 1 # m
    BY <1>1, <1>2, <1>3, <1>5
  <1>7. (a + 1) % n = r + 1 /\ k <= r + 1 /\ r + 1 < m
    BY <1>1, <1>3, <1>5, <1>6
  <1> QED
    BY <1>7 DEF r, m, k

\* What the assumption about the standard values says of the loops.
LEMMA Parameters ==
  /\ Fine \in Nat /\ Fine > 1 /\ Coarse \in Nat /\ Period \in Nat
  /\ Fine = NValues[1] /\ Period = NValues[Coarse + 1]
  /\ \A k \in 1..(Coarse + 1) : NValues[k] \in Nat /\ NValues[k] >= Fine
  /\ \A k \in 1..(Coarse + 1) : \A j \in 1..k : NValues[k] % NValues[j] = 0
  /\ \A k \in 1..(Coarse + 1) : \A j \in 1..(k - 1) : NValues[k] > NValues[j]
  <1>1. /\ NValues \in Seq(Nat) /\ Len(NValues) > 0 /\ NValues[1] > 1
        /\ \A k \in DOMAIN NValues : \A j \in 1..(k - 1) :
             NValues[k] % NValues[j] = 0 /\ NValues[k] > NValues[j]
    BY NValuesAssumption
  <1>2. Len(NValues) \in Nat /\ DOMAIN NValues = 1..Len(NValues)
    BY <1>1
  <1>3. Coarse \in Nat /\ Len(NValues) = Coarse + 1 /\ DOMAIN NValues = 1..(Coarse + 1)
    BY <1>1, <1>2 DEF Coarse
  <1>4. \A k \in 1..(Coarse + 1) : NValues[k] \in Nat
    BY <1>1, <1>3
  <1>5. 1 \in 1..(Coarse + 1) /\ Coarse + 1 \in 1..(Coarse + 1)
    BY <1>3
  <1>6. Fine \in Nat /\ Fine > 1 /\ Period \in Nat /\ Period = NValues[Coarse + 1]
    BY <1>1, <1>3, <1>4, <1>5 DEF Fine, Period
  <1>7. \A k \in 1..(Coarse + 1) : \A j \in 1..(k - 1) :
          NValues[k] % NValues[j] = 0 /\ NValues[k] > NValues[j]
    BY <1>1, <1>3
  <1>8. ASSUME NEW k \in 1..(Coarse + 1)
        PROVE  NValues[k] >= Fine
    <2>1. CASE k = 1
      BY <2>1, <1>4, <1>5 DEF Fine
    <2>2. CASE k # 1
      <3>1. 1 \in 1..(k - 1)
        BY <2>2, <1>3
      <3>2. NValues[k] > NValues[1]
        BY <3>1, <1>7
      <3> QED
        BY <3>2, <1>4, <1>5 DEF Fine
    <2> QED
      BY <2>1, <2>2
  <1>9. ASSUME NEW k \in 1..(Coarse + 1), NEW j \in 1..k
        PROVE  NValues[k] % NValues[j] = 0
    <2>1. CASE j = k
      <3>1. NValues[k] \in Nat /\ NValues[k] > 0
        BY <1>4, <1>6, <1>8
      <3> QED
        BY <3>1, <2>1
    <2>2. CASE j # k
      <3>1. j \in 1..(k - 1)
        BY <2>2, <1>3
      <3> QED
        BY <3>1, <1>7
    <2> QED
      BY <2>1, <2>2
  <1> QED
    BY <1>3, <1>4, <1>6, <1>7, <1>8, <1>9 DEF Fine

\* The passes of a loop make up its events.
LEMMA Loops ==
  ASSUME NEW l \in 1..Coarse
  PROVE  /\ NValues[l] \in Nat /\ NValues[l] > 0 /\ NValues[l + 1] \in Nat /\ NValues[l + 1] > 0
         /\ NValues[l + 1] % NValues[l] = 0
         /\ LoopCount(l) \in Nat /\ LoopCount(l) > 0 /\ LoopCount(l) * NValues[l] = NValues[l + 1]
  <1>1. l \in 1..(Coarse + 1) /\ l + 1 \in 1..(Coarse + 1) /\ l \in 1..(l + 1)
    BY Parameters
  <1>2. NValues[l] \in Nat /\ NValues[l] > 0 /\ NValues[l + 1] \in Nat /\ NValues[l + 1] > 0
    BY <1>1, Parameters
  <1>3. NValues[l + 1] % NValues[l] = 0
    BY <1>1, Parameters
  <1> DEFINE a == NValues[l + 1]
             d == NValues[l]
             p == a \div d
  <1>4. p \in Int /\ a = d * p
    BY <1>2, <1>3, Division
  <1> HIDE DEF p
  <1>5. p > 0
    <2>1. SUFFICES ASSUME p <= 0 PROVE FALSE
      BY <1>4
    <2>2. d * p <= 0
      BY <2>1, <1>2, <1>4
    <2> QED
      BY <2>2, <1>2, <1>4
  <1>6. p * d = a
    BY <1>2, <1>4
  <1> QED
    BY <1>2, <1>3, <1>4, <1>5, <1>6 DEF p, LoopCount

\* The instructions of the program.
LEMMA Instructions ==
  ASSUME NEW o \in Operation
  PROVE  /\ o = <<o[1], o[2]>> /\ o[2] \in Nat
         /\ \/ o[1] \in {"shot", "or"} /\ o[2] \in OrSlot
            \/ o[1] = "and" /\ o[2] \in AndSlot
            \/ o[1] = "event" /\ o[2] \in 0..(Fine - 1)
            \/ o[1] \in {"loop", "do"} /\ o[2] \in 1..Coarse
  BY Parameters DEF Operation, OrSlot, AndSlot

\* Pairs of the right kind are instructions.
LEMMA IsInstruction ==
  /\ \A k \in OrSlot : <<"shot", k>> \in Operation /\ <<"or", k>> \in Operation
  /\ \A k \in AndSlot : <<"and", k>> \in Operation
  /\ \A k \in 0..(Fine - 1) : <<"event", k>> \in Operation
  /\ \A k \in 1..Coarse : <<"loop", k>> \in Operation /\ <<"do", k>> \in Operation
  BY DEF Operation

\* The instruction behind every instruction.
LEMMA Afters ==
  /\ \A k \in OrSlot : After(<<"shot", k>>) =
       IF k < Coarse THEN <<"or", k>> ELSE <<"event", k - Coarse>>
  /\ \A k \in OrSlot : After(<<"or", k>>) =
       IF k < Coarse THEN <<"loop", Coarse - k>> ELSE <<"shot", k>>
  /\ \A k \in 1..Coarse : After(<<"loop", k>>) =
       IF k = 1 THEN <<"and", 0>> ELSE <<"shot", Coarse - k + 1>>
  /\ \A k \in AndSlot : After(<<"and", k>>) =
       IF k < Fine THEN <<"or", Coarse + k>>
       ELSE IF k = Fine + Coarse THEN First ELSE <<"do", k - Fine + 1>>
  /\ \A k \in 0..(Fine - 1) : After(<<"event", k>>) = <<"and", k + 1>>
  /\ \A k \in 1..Coarse : After(<<"do", k>>) = <<"and", Fine + k>>
  <1> USE Parameters DEF OrSlot, AndSlot, LevelOf
  <1>1. \A k \in OrSlot : After(<<"shot", k>>) =
          IF k < Coarse THEN <<"or", k>> ELSE <<"event", k - Coarse>>
    BY DEF After, Final
  <1>2. \A k \in OrSlot : After(<<"or", k>>) =
          IF k < Coarse THEN <<"loop", Coarse - k>> ELSE <<"shot", k>>
    BY DEF After, Final
  <1>3. \A k \in 1..Coarse : After(<<"loop", k>>) =
          IF k = 1 THEN <<"and", 0>> ELSE <<"shot", Coarse - k + 1>>
    BY DEF After, Final
  <1>4. \A k \in AndSlot : After(<<"and", k>>) =
          IF k < Fine THEN <<"or", Coarse + k>>
          ELSE IF k = Fine + Coarse THEN First ELSE <<"do", k - Fine + 1>>
    BY DEF After, Final
  <1>5. \A k \in 0..(Fine - 1) : After(<<"event", k>>) = <<"and", k + 1>>
    BY DEF After, Final
  <1>6. \A k \in 1..Coarse : After(<<"do", k>>) = <<"and", Fine + k>>
    BY DEF After, Final
  <1> QED
    BY <1>1, <1>2, <1>3, <1>4, <1>5, <1>6

\* The same for an instruction that is not spelled out.
LEMMA AfterIs ==
  ASSUME NEW o \in Operation
  PROVE  /\ o[1] = "shot" => After(o) =
              IF o[2] < Coarse THEN <<"or", o[2]>> ELSE <<"event", o[2] - Coarse>>
         /\ o[1] = "or" => After(o) =
              IF o[2] < Coarse THEN <<"loop", Coarse - o[2]>> ELSE <<"shot", o[2]>>
         /\ o[1] = "loop" => After(o) =
              IF o[2] = 1 THEN <<"and", 0>> ELSE <<"shot", Coarse - o[2] + 1>>
         /\ o[1] = "and" => After(o) =
              IF o[2] < Fine THEN <<"or", Coarse + o[2]>>
              ELSE IF o[2] = Fine + Coarse THEN First ELSE <<"do", o[2] - Fine + 1>>
         /\ o[1] = "event" => After(o) = <<"and", o[2] + 1>>
         /\ o[1] = "do" => After(o) = <<"and", Fine + o[2]>>
  <1>1. o = <<o[1], o[2]>>
    BY Instructions
  <1>2. /\ o[1] \in {"shot", "or"} => o[2] \in OrSlot
        /\ o[1] = "and" => o[2] \in AndSlot
        /\ o[1] = "event" => o[2] \in 0..(Fine - 1)
        /\ o[1] \in {"loop", "do"} => o[2] \in 1..Coarse
    BY Instructions
  <1>3. PICK a, k : a = o[1] /\ k = o[2]
    OBVIOUS
  <1>4. o = <<a, k>>
    BY <1>1, <1>3
  <1>5. a = "shot" => After(<<a, k>>) = IF k < Coarse THEN <<"or", k>> ELSE <<"event", k - Coarse>>
    BY <1>2, <1>3, Afters
  <1>6. a = "or" => After(<<a, k>>) = IF k < Coarse THEN <<"loop", Coarse - k>> ELSE <<"shot", k>>
    BY <1>2, <1>3, Afters
  <1>7. a = "loop" => After(<<a, k>>) = IF k = 1 THEN <<"and", 0>> ELSE <<"shot", Coarse - k + 1>>
    BY <1>2, <1>3, Afters
  <1>8. a = "and" => After(<<a, k>>) =
              IF k < Fine THEN <<"or", Coarse + k>>
              ELSE IF k = Fine + Coarse THEN First ELSE <<"do", k - Fine + 1>>
    BY <1>2, <1>3, Afters
  <1>9. /\ a = "event" => After(<<a, k>>) = <<"and", k + 1>>
        /\ a = "do" => After(<<a, k>>) = <<"and", Fine + k>>
    BY <1>2, <1>3, Afters
  <1> QED
    BY <1>3, <1>4, <1>5, <1>6, <1>7, <1>8, <1>9

\* The program never leaves its instructions.
LEMMA AfterType ==
  ASSUME NEW o \in Operation
  PROVE  After(o) \in Operation
  <1>1. /\ Fine \in Nat /\ Fine > 1 /\ Coarse \in Nat
        /\ o[2] \in Nat
    BY Parameters, Instructions
  <1>2. First \in Operation
    <2>1. 0 \in AndSlot /\ (Coarse # 0 => 0 \in OrSlot)
      BY <1>1 DEF AndSlot, OrSlot
    <2> QED
      BY <2>1, IsInstruction DEF First
  <1>3. CASE o[1] \in {"shot", "or"}
    <2>1. o[2] \in OrSlot
      BY <1>3, Instructions
    <2>2. /\ o[2] < Coarse => Coarse - o[2] \in 1..Coarse
          /\ ~(o[2] < Coarse) => o[2] - Coarse \in 0..(Fine - 1)
      BY <1>1, <2>1 DEF OrSlot
    <2> QED
      BY <1>3, <2>1, <2>2, AfterIs, IsInstruction
  <1>4. CASE o[1] = "loop"
    <2>1. o[2] \in 1..Coarse
      BY <1>4, Instructions
    <2>2. 0 \in AndSlot /\ (o[2] # 1 => Coarse - o[2] + 1 \in OrSlot)
      BY <1>1, <2>1 DEF OrSlot, AndSlot
    <2> QED
      BY <1>4, <2>1, <2>2, AfterIs, IsInstruction
  <1>5. CASE o[1] = "and"
    <2>1. o[2] \in AndSlot
      BY <1>5, Instructions
    <2>2. /\ o[2] < Fine => Coarse + o[2] \in OrSlot
          /\ ~(o[2] < Fine) /\ o[2] # Fine + Coarse => o[2] - Fine + 1 \in 1..Coarse
      BY <1>1, <2>1 DEF OrSlot, AndSlot
    <2> QED
      BY <1>2, <1>5, <2>1, <2>2, AfterIs, IsInstruction
  <1>6. CASE o[1] \in {"event", "do"}
    <2>1. (o[1] = "event" => o[2] + 1 \in AndSlot) /\ (o[1] = "do" => Fine + o[2] \in AndSlot)
      BY <1>1, <1>6, Instructions DEF AndSlot
    <2> QED
      BY <1>6, <2>1, AfterIs, IsInstruction
  <1> QED
    BY <1>3, <1>4, <1>5, <1>6, Instructions

All == 0..(Period - 1)
OfSlots(D) == {p \in All : p % Fine \in D}
OfLevel(l) == {p \in All : p % NValues[l + 1] = 0}
RatioOK(m, n) ==
  /\ m \in Nat /\ n \in Nat /\ m > 0 /\ n > 0
  /\ \/ n <= Fine /\ Fine % n = 0
     \/ m = 1 /\ n > Fine /\ \E l \in 1..Coarse : n = NValues[l + 1]

\* Words have places of their own.
LEMMA PlacesDiffer ==
  ASSUME NEW o \in Mask, NEW u \in Mask, Place(o) = Place(u)
  PROVE  o = u
  <1>1. Fine \in Nat /\ Fine > 1 /\ Coarse \in Nat
    BY Parameters
  <1>2. /\ o = <<o[1], o[2]>> /\ u = <<u[1], u[2]>>
        /\ (o[1] \in {"shot", "or"} /\ o[2] \in OrSlot) \/ (o[1] = "and" /\ o[2] \in AndSlot)
        /\ (u[1] \in {"shot", "or"} /\ u[2] \in OrSlot) \/ (u[1] = "and" /\ u[2] \in AndSlot)
    BY DEF Mask
  <1>3. o[1] = u[1] /\ o[2] = u[2]
    BY <1>1, <1>2 DEF Place, OrSlot, AndSlot
  <1> QED
    BY <1>2, <1>3

\* The place of a mask in the memory of the CFO is a number.
LEMMA PlaceType ==
  ASSUME NEW o \in Mask
  PROVE  Place(o) \in Nat
  <1>1. Fine \in Nat /\ Fine > 1 /\ Coarse \in Nat
    BY Parameters
  <1>2. (o[1] \in {"shot", "or"} /\ o[2] \in OrSlot) \/ (o[1] = "and" /\ o[2] \in AndSlot)
    BY DEF Mask
  <1> QED
    BY <1>1, <1>2 DEF Place, OrSlot, AndSlot

\* The quotient of naturals is a natural.
LEMMA QuotientType ==
  ASSUME NEW a \in Nat, NEW n \in Nat, n > 0
  PROVE  a \div n \in Nat
  OBVIOUS

\* A set of naturals has a smallest member.
LEMMA SmallestExists ==
  ASSUME NEW S \in SUBSET Nat, S # {}
  PROVE  \E x \in S : \A y \in S : x <= y
  <1>1. PICK x \in S : \A y \in S : ~ (<<y, x>> \in OpToRel(<, Nat))
    BY WFMin, NatLessThanWellFounded
  <1>2. \A y \in S : ~ (y < x)
    BY <1>1 DEF OpToRel
  <1>3. \A y \in S : x \in Nat /\ y \in Nat
    BY <1>1
  <1>4. \A y \in S : x <= y
    BY <1>2, <1>3
  <1> QED
    BY <1>1, <1>4

\* A duty cycle resolves to one of the fine loop or to one event of a coarse loop.
LEMMA ResolvedIs ==
  ASSUME NEW m \in Nat, NEW n \in Nat, NEW r \in Resolved(m, n)
  PROVE  r \in Nat \X Nat /\ RatioOK(r[1], r[2])
  <1>1. Fine \in Nat /\ Fine > 1 /\ Coarse \in Nat
    BY Parameters
  <1>2. CASE n > 0 /\ n < Fine
    <2>1. m \in 1..n /\ Fine % n = 0 /\ r = <<m, n>>
      BY <1>2 DEF Resolved
    <2> QED
      BY <2>1, <1>1, <1>2 DEF RatioOK
  <1>3. CASE ~(n > 0 /\ n < Fine)
    <2>1. m > 0 /\ n > 0 /\ r = NearestRatio(m, n)
      BY <1>3 DEF Resolved
    <2> DEFINE fits == {k \in DOMAIN NValues : (m * NValues[k]) \div n > 0}
               k == Smallest(fits)
    <2>2. DOMAIN NValues = 1..(Coarse + 1) /\ \A j \in 1..(Coarse + 1) : NValues[j] \in Nat
      BY NValuesAssumption, Parameters DEF Coarse
    <2>3. CASE fits = {}
      <3>1. r = <<1, Period>>
        BY <2>1, <2>3 DEF NearestRatio
      <3>2. CASE Coarse = 0
        <4>1. Period = Fine
          BY <3>2, Parameters
        <4>2. Fine % Fine = 0
          BY <1>1
        <4> QED
          BY <3>1, <4>1, <4>2, <1>1 DEF RatioOK
      <3>3. CASE Coarse # 0
        <4>1. Coarse \in 1..Coarse /\ 1 \in 1..((Coarse + 1) - 1) /\ Coarse + 1 \in 1..(Coarse + 1)
          BY <1>1, <3>3
        <4>2. Period > Fine /\ Period \in Nat /\ Period = NValues[Coarse + 1]
          BY <4>1, Parameters
        <4> QED
          BY <3>1, <4>1, <4>2, <1>1 DEF RatioOK
      <3> QED
        BY <3>2, <3>3
    <2>4. CASE fits # {}
      <3>1. k \in fits
        <4>1. fits \subseteq 1..(Coarse + 1)
          BY <2>2
        <4>2. fits \in SUBSET Nat
          BY <4>1, <1>1
        <4> HIDE DEF fits
        <4>3. \E x \in fits : \A y \in fits : x <= y
          BY <4>2, <2>4, SmallestExists
        <4> QED
          BY <4>3 DEF Smallest
      <3>2. k \in 1..(Coarse + 1) /\ (m * NValues[k]) \div n > 0
        BY <3>1, <2>2
      <3>3. r = IF k > 1 THEN <<1, NValues[k]>> ELSE <<(m * Fine) \div n, Fine>>
        BY <2>1, <2>4 DEF NearestRatio
      <3> HIDE DEF k, fits
      <3>4. CASE k > 1
        <4>1. k - 1 \in 1..Coarse /\ k = (k - 1) + 1 /\ 1 \in 1..(k - 1)
          BY <3>2, <3>4, <1>1
        <4>2. NValues[k] > Fine /\ NValues[k] \in Nat
          BY <4>1, <3>2, Parameters
        <4>3. r = <<1, NValues[k]>>
          BY <3>3, <3>4
        <4> QED
          BY <4>1, <4>2, <4>3, <1>1 DEF RatioOK
      <3>5. CASE ~(k > 1)
        <4>1. k = 1
          BY <3>2, <3>5, <1>1
        <4>2. r = <<(m * Fine) \div n, Fine>> /\ (m * Fine) \div n > 0
          BY <3>2, <3>3, <4>1, Parameters
        <4>3. m * Fine \in Nat
          BY <1>1
        <4>4. (m * Fine) \div n \in Nat
          BY <4>3, <2>1, QuotientType
        <4>5. Fine % Fine = 0
          BY <1>1
        <4> QED
          BY <4>2, <4>4, <4>5, <1>1 DEF RatioOK
      <3> QED
        BY <3>4, <3>5
    <2> QED
      BY <2>3, <2>4
  <1> QED
    BY <1>2, <1>3

FineOf(m, n, f) == {i \in 0..(Fine - 1) : OnSlot(m, n, f, i)}

\* A duty cycle of the fine loop asks for whole slots.
LEMMA ShareOfSlots ==
  ASSUME NEW m, NEW n \in Nat, NEW f \in Nat, n > 0, n <= Fine, Fine % n = 0
  PROVE  Share(m, n, f) = OfSlots(FineOf(m, n, f))
  <1>1. Fine \in Nat /\ Fine > 1 /\ Period \in Nat
    BY Parameters
  <1>2. ASSUME NEW p \in 0..(Period - 1)
        PROVE  /\ p % Fine \in 0..(Fine - 1)
               /\ (p - f) % n = ((p % Fine) - f) % n
    <2>1. p \in Int /\ f \in Int
      BY <1>1
    <2>2. p % Fine \in 0..(Fine - 1)
      BY <2>1, <1>1, Division
    <2>3. (p - f) % n = ((p % Fine) - f) % n
      BY <2>1, <1>1, ShiftedRemainder
    <2> QED
      BY <2>2, <2>3
  <1>3. ~(n > Fine)
    BY <1>1
  <1>4. Share(m, n, f) = {p \in 0..(Period - 1) : (p - f) % n < m}
    BY <1>3 DEF Share
  <1>5. OfSlots(FineOf(m, n, f)) = {p \in 0..(Period - 1) : ((p % Fine) - f) % n < m}
    BY <1>2, <1>3, <1>1 DEF OfSlots, FineOf, OnSlot, All
  <1> QED
    BY <1>2, <1>4, <1>5

\* A duty cycle of a coarse loop asks for the first event of every round of it.
LEMMA ShareOfLevel ==
  ASSUME NEW m, NEW f, NEW l \in 1..Coarse, NEW n, n = NValues[l + 1]
  PROVE  n > Fine /\ Share(m, n, f) = OfLevel(l)
  <1>1. l + 1 \in 1..(Coarse + 1) /\ 1 \in 1..((l + 1) - 1)
    BY Parameters
  <1>2. n > Fine
    BY <1>1, Parameters
  <1> QED
    BY <1>2 DEF Share, OfLevel, All

\* The words that a duty cycle makes.
LEMMA PeriodicOnType ==
  ASSUME NEW keep \in [AndSlot -> SUBSET Bit], NEW or \in [OrSlot -> SUBSET Bit], NEW bits \in SUBSET Bit,
         NEW m, NEW n, NEW f, NEW shots \in [OrSlot -> SUBSET Bit], NEW applyOr
  PROVE  PeriodicOn(keep, or, bits, m, n, f, shots, applyOr) \in Plan
  <1> DEFINE K == [i \in AndSlot |->
                     IF i < Fine /\ OffSlot(m, n, f, i) THEN keep[i] \ bits ELSE keep[i]]
             O == [k \in OrSlot |->
                     IF applyOr /\ (IF k < Coarse THEN NValues[LevelOf(k) + 1] = n
                                                  ELSE OnSlot(m, n, f, k - Coarse))
                     THEN or[k] \cup bits ELSE or[k]]
  <1>1. \A i \in AndSlot : keep[i] \in SUBSET Bit /\ keep[i] \ bits \in SUBSET Bit
    OBVIOUS
  <1>2. \A k \in OrSlot : or[k] \in SUBSET Bit /\ or[k] \cup bits \in SUBSET Bit
    OBVIOUS
  <1>3. K \in [AndSlot -> SUBSET Bit]
    BY <1>1
  <1>4. O \in [OrSlot -> SUBSET Bit]
    BY <1>2
  <1> HIDE DEF K, O
  <1>5. [keep |-> K, or |-> O, shot |-> shots] \in Plan
    BY <1>3, <1>4 DEF Plan
  <1> QED
    BY <1>5 DEF K, O, PeriodicOn

\* Empty masks are masks.
LEMMA EmptyTypes ==
  /\ EmptyKeep \in [AndSlot -> SUBSET Bit] /\ EmptyOr \in [OrSlot -> SUBSET Bit]
  /\ NoShots \in [OrSlot -> SUBSET Bit]
  BY DEF EmptyKeep, EmptyOr, NoShots

\* Taking bits out of masks gives a plan.
LEMMA PeriodicOffType ==
  ASSUME NEW keep \in [AndSlot -> SUBSET Bit], NEW or \in [OrSlot -> SUBSET Bit], NEW bits \in SUBSET Bit
  PROVE  PeriodicOff(keep, or, bits) \in Plan
  <1> DEFINE K == [i \in AndSlot |-> IF i < Fine THEN keep[i] \ bits ELSE keep[i] \cup bits]
             O == [k \in OrSlot |-> or[k] \ bits]
  <1>1. \A i \in AndSlot : keep[i] \ bits \in SUBSET Bit /\ keep[i] \cup bits \in SUBSET Bit
    OBVIOUS
  <1>2. \A k \in OrSlot : or[k] \ bits \in SUBSET Bit
    OBVIOUS
  <1>3. K \in [AndSlot -> SUBSET Bit]
    BY <1>1
  <1>4. O \in [OrSlot -> SUBSET Bit]
    BY <1>2
  <1> HIDE DEF K, O
  <1>5. [keep |-> K, or |-> O, shot |-> NoShots] \in Plan
    BY <1>3, <1>4, EmptyTypes DEF Plan
  <1> QED
    BY <1>5 DEF K, O, PeriodicOff

\* The slots of a chunk are finitely many.
LEMMA SlotsFinite ==
  ASSUME NEW m, NEW n
  PROVE  /\ OnFineSlots(m, n) \subseteq 0..(Fine - 1) /\ IsFiniteSet(OnFineSlots(m, n))
         /\ Cardinality(OnFineSlots(m, n)) \in Nat
         /\ OnFineSlots(m, n) # {} => Cardinality(OnFineSlots(m, n)) > 0
  <1>1. OnFineSlots(m, n) \subseteq 0..(Fine - 1)
    BY DEF OnFineSlots
  <1>2. IsFiniteSet(0..(Fine - 1))
    <2>1. 0 \in Int /\ Fine - 1 \in Int
      BY Parameters
    <2> QED
      BY <2>1, FS_Interval
  <1>3. IsFiniteSet(OnFineSlots(m, n))
    BY <1>1, <1>2, FS_Subset
  <1>4. Cardinality(OnFineSlots(m, n)) \in Nat
    BY <1>3, FS_CardinalityType
  <1>5. OnFineSlots(m, n) # {} => Cardinality(OnFineSlots(m, n)) # 0
    BY <1>3, FS_EmptySet
  <1> QED
    BY <1>1, <1>3, <1>4, <1>5

\* The next chunk of a single shot: whole rounds of a coarse loop, or slots of the fine loop,
\* which are then never followed by rounds.
LEMMA ChunkIs ==
  ASSUME NEW m, NEW n, NEW r \in Nat, r > 0, OnFineSlots(m, n) # {}
  PROVE  LET c == NextChunk(r, m, n) IN
         /\ c[1] \in Nat /\ c[1] > 0 /\ c[1] <= r
         /\ \/ c[2] \in 0..(Coarse - 1) /\ c[1] = NValues[LevelOf(c[2]) + 1] /\ m = n
            \/ /\ c[2] = -1
               /\ c[1] <= Cardinality(OnFineSlots(m, n))
               /\ m = n => \A k \in 0..(Coarse - 1) : ~(NValues[LevelOf(k) + 1] <= r)
  <1> DEFINE c == NextChunk(r, m, n)
             fits == {k \in 0..(Coarse - 1) : NValues[LevelOf(k) + 1] <= r}
             active == Cardinality(OnFineSlots(m, n))
  <1>1. active \in Nat /\ active > 0
    BY SlotsFinite
  <1>2. CASE m = n /\ fits # {}
    <2>1. c = <<NValues[LevelOf(Smallest(fits)) + 1], Smallest(fits)>>
      BY <1>2 DEF NextChunk
    <2>2. Smallest(fits) \in fits
      <3>1. fits \in SUBSET Nat
        BY Parameters
      <3> HIDE DEF fits
      <3>2. \E x \in fits : \A y \in fits : x <= y
        BY <3>1, <1>2, SmallestExists
      <3> QED
        BY <3>2 DEF Smallest
    <2> DEFINE k == Smallest(fits)
    <2>3. k \in 0..(Coarse - 1) /\ NValues[LevelOf(k) + 1] <= r
      BY <2>2
    <2> HIDE DEF k, fits
    <2>4. c = <<NValues[LevelOf(k) + 1], k>>
      BY <2>1 DEF k
    <2>5. LevelOf(k) + 1 \in 1..(Coarse + 1)
      BY <2>3, Parameters DEF LevelOf
    <2>6. NValues[LevelOf(k) + 1] \in Nat /\ NValues[LevelOf(k) + 1] > 0
      BY <2>5, Parameters
    <2> HIDE DEF c
    <2>7. c[1] = NValues[LevelOf(k) + 1] /\ c[2] = k
      BY <2>4
    <2> QED
      BY <2>3, <2>6, <2>7, <1>2 DEF c
  <1>3. CASE ~(m = n /\ fits # {})
    <2>1. c = <<IF r > active THEN active ELSE r, -1>>
      BY <1>3 DEF NextChunk
    <2>2. m = n => \A k \in 0..(Coarse - 1) : ~(NValues[LevelOf(k) + 1] <= r)
      BY <1>3
    <2> HIDE DEF c, fits, active
    <2>3. c[1] = (IF r > active THEN active ELSE r) /\ c[2] = -1
      BY <2>1
    <2>4. c[1] \in Nat /\ c[1] > 0 /\ c[1] <= r /\ c[1] <= active
      BY <2>3, <1>1
    <2> QED
      BY <2>2, <2>3, <2>4 DEF c, active
  <1> QED
    BY <1>2, <1>3

\* A record is a macro when its fields are of the right kinds.
LEMMA OpRecordIs ==
  ASSUME NEW o \in OpRecord
  PROVE  /\ o = [kind |-> o.kind, step |-> o.step, sub |-> o.sub, m |-> o.m, n |-> o.n,
                 offset |-> o.offset, keep |-> o.keep, or |-> o.or, remaining |-> o.remaining,
                 at |-> o.at, target |-> o.target, waited |-> o.waited]
         /\ o.kind \in Kind /\ o.step \in {"none", "prepare", "set", "wait"}
         /\ o.sub \in Subsystem \cup {NoSubsystem} /\ o.m \in Nat /\ o.n \in Nat /\ o.offset \in Nat
         /\ o.keep \in [AndSlot -> SUBSET Bit] /\ o.or \in [OrSlot -> SUBSET Bit]
         /\ o.remaining \in Nat /\ o.at \in Nat /\ o.target \in Plan
         /\ o.waited \in Nat
  BY DEF OpRecord

\* A macro that begins to write has a new target and goes to its first word; the rest stays.
LEMMA WritingType ==
  ASSUME NEW o, o \in OpRecord, NEW step, step \in {"none", "prepare", "set", "wait"},
         NEW target, target \in Plan, NEW u, u = Writing(o, step, target)
  PROVE  /\ u \in OpRecord /\ u.step = step /\ u.target = target /\ u.at = 0
         /\ u.kind = o.kind /\ u.sub = o.sub /\ u.m = o.m /\ u.n = o.n /\ u.offset = o.offset
         /\ u.keep = o.keep /\ u.or = o.or /\ u.remaining = o.remaining /\ u.waited = o.waited
  BY DEF OpRecord, Writing

\* A macro that is over has a record, and its plan is the empty one.
LEMMA IdleType == Idle \in OpRecord /\ NoPlan \in Plan
  <1> DEFINE p == [keep |-> EmptyKeep, or |-> EmptyOr, shot |-> NoShots]
  <1>1. p \in Plan
    BY EmptyTypes DEF Plan
  <1>2. Period \in Nat
    BY Parameters
  <1> HIDE DEF p
  <1>3. Idle = [kind |-> "idle", step |-> "none", sub |-> NoSubsystem, m |-> 1, n |-> 1, offset |-> 0,
                keep |-> EmptyKeep, or |-> EmptyOr, remaining |-> 0, at |-> 0, target |-> p, waited |-> 0]
    BY DEF Idle, p
  <1>4. Idle \in OpRecord
    BY <1>1, <1>2, <1>3, EmptyTypes DEF OpRecord, Kind
  <1>5. NoPlan = p
    BY <1>3 DEF NoPlan
  <1> QED
    BY <1>1, <1>4, <1>5

\* A fresh macro with the masks that it has read.
LEMMA ExtractedType ==
  ASSUME NEW kind \in Kind, NEW s \in Subsystem, NEW r \in Nat \X Nat, NEW f \in Nat, plan \in Plan
  PROVE  /\ Extracted(kind, s, r, f) \in OpRecord
         /\ LET o == Extracted(kind, s, r, f) IN
            /\ o.kind = kind /\ o.sub = s /\ o.m = r[1] /\ o.n = r[2] /\ o.offset = f
            /\ o.keep = plan.keep /\ o.or = plan.or /\ o.remaining = 0 /\ o.waited = 0
  <1>1. plan.keep \in [AndSlot -> SUBSET Bit] /\ plan.or \in [OrSlot -> SUBSET Bit]
    BY DEF Plan
  <1>2. Idle \in OpRecord /\ Idle.remaining = 0 /\ Idle.waited = 0
    BY IdleType DEF Idle
  <1>3. Idle \in OpRecord
    BY <1>2
  <1> QED
    BY <1>1, <1>2 DEF Extracted, OpRecord

\* The masks of a chunk.
LEMMA ChunkPlanType ==
  ASSUME NEW o \in OpRecord, o.sub \in Subsystem, NEW shots \in [OrSlot -> SUBSET Bit]
  PROVE  ChunkPlan(o, shots) \in Plan
  <1> DEFINE K == ChunkKeep(o.keep, o.sub, ChunkOf(o))
  <1>1. o.keep \in [AndSlot -> SUBSET Bit] /\ o.or \in [OrSlot -> SUBSET Bit] /\ o.sub \in Bit
    BY OpRecordIs DEF Bit
  <1>2. \A i \in AndSlot : o.keep[i] \ {o.sub} \in SUBSET Bit /\ o.keep[i] \cup {o.sub} \in SUBSET Bit
    BY <1>1
  <1>3. K \in [AndSlot -> SUBSET Bit]
    BY <1>2 DEF ChunkKeep
  <1> HIDE DEF K
  <1>4. [keep |-> K, or |-> o.or, shot |-> shots] \in Plan
    BY <1>1, <1>3 DEF Plan
  <1> QED
    BY <1>4 DEF K, ChunkPlan

\* The shots of a chunk are masks.
LEMMA ChunkShotsType ==
  ASSUME NEW s \in Subsystem, NEW chunk, NEW m, NEW n
  PROVE  ChunkShots(s, chunk, m, n) \in [OrSlot -> SUBSET Bit]
  BY DEF ChunkShots, Bit

\* What arms a chunk is a plan.
LEMMA ArmedPlanType ==
  ASSUME NEW o \in OpRecord, o.sub \in Subsystem
  PROVE  ArmedPlan(o) \in Plan
  BY ChunkPlanType, ChunkShotsType DEF ArmedPlan

\* What a join writes, in either pass, is a plan.
LEMMA JoinPlanType ==
  ASSUME NEW o \in OpRecord, o.sub \in Subsystem, NEW applyOr
  PROVE  JoinPlan(o, applyOr) \in Plan
  <1>1. {o.sub} \in SUBSET Bit /\ o.keep \in [AndSlot -> SUBSET Bit] /\ o.or \in [OrSlot -> SUBSET Bit]
    BY OpRecordIs DEF Bit
  <1> QED
    BY <1>1, PeriodicOnType, EmptyTypes DEF JoinPlan

\* What the two parts of Start write are plans.
LEMMA InitialPlanType ==
  /\ \A initial \in SUBSET Subsystem : InitialPlan(initial) \in Plan
  /\ \A r \in Nat \X Nat : InjectPlan(r) \in Plan
  <1>1. ASSUME NEW initial \in SUBSET Subsystem
        PROVE  InitialPlan(initial) \in Plan
    <2>1. initial \in SUBSET Bit
      BY DEF Bit
    <2> QED
      BY <2>1, PeriodicOnType, EmptyTypes DEF InitialPlan
  <1>2. ASSUME NEW r \in Nat \X Nat
        PROVE  InjectPlan(r) \in Plan
    <2>1. {Inject} \in SUBSET Bit
      BY DEF Bit
    <2> QED
      BY <2>1, PeriodicOnType, EmptyTypes DEF InjectPlan
  <1> QED
    BY <1>1, <1>2

\* A share is a set of events of the program.
LEMMA ShareType ==
  ASSUME NEW m, NEW n, NEW f
  PROVE  Share(m, n, f) \in SUBSET (0..(Period - 1))
  BY DEF Share

\* The words of a plan, and a plan with another word.
LEMMA Words ==
  ASSUME NEW p \in Plan, NEW o \in Mask, NEW w \in SUBSET Bit
  PROVE  /\ Word(p, o) \in SUBSET Bit
         /\ WithWord(p, o, w) \in Plan
         /\ o[1] = "and" => /\ o[2] \in AndSlot /\ Word(p, o) = p.keep[o[2]]
                            /\ WithWord(p, o, w).keep = [p.keep EXCEPT ![o[2]] = w]
                            /\ WithWord(p, o, w).or = p.or /\ WithWord(p, o, w).shot = p.shot
         /\ o[1] = "or" => /\ o[2] \in OrSlot /\ Word(p, o) = p.or[o[2]]
                           /\ WithWord(p, o, w).or = [p.or EXCEPT ![o[2]] = w]
                           /\ WithWord(p, o, w).keep = p.keep /\ WithWord(p, o, w).shot = p.shot
         /\ o[1] = "shot" => /\ o[2] \in OrSlot /\ Word(p, o) = p.shot[o[2]]
                             /\ WithWord(p, o, w).shot = [p.shot EXCEPT ![o[2]] = w]
                             /\ WithWord(p, o, w).keep = p.keep /\ WithWord(p, o, w).or = p.or
         /\ o[1] \in {"and", "or", "shot"}
  <1>1. /\ p.keep \in [AndSlot -> SUBSET Bit] /\ p.or \in [OrSlot -> SUBSET Bit]
        /\ p.shot \in [OrSlot -> SUBSET Bit]
        /\ p = [keep |-> p.keep, or |-> p.or, shot |-> p.shot]
    BY DEF Plan
  <1>2. \/ o[1] = "and" /\ o[2] \in AndSlot
        \/ o[1] = "or" /\ o[2] \in OrSlot
        \/ o[1] = "shot" /\ o[2] \in OrSlot
    BY DEF Mask
  <1>3. CASE o[1] = "and" /\ o[2] \in AndSlot
    <2>1. WithWord(p, o, w) = [p EXCEPT !.keep[o[2]] = w] /\ Word(p, o) = p.keep[o[2]]
      BY <1>3 DEF WithWord, Word
    <2>2. [p.keep EXCEPT ![o[2]] = w] \in [AndSlot -> SUBSET Bit]
      BY <1>1, <1>3
    <2> QED
      BY <1>1, <1>3, <2>1, <2>2 DEF Plan
  <1>4. CASE o[1] = "or" /\ o[2] \in OrSlot
    <2>1. WithWord(p, o, w) = [p EXCEPT !.or[o[2]] = w] /\ Word(p, o) = p.or[o[2]]
      BY <1>4 DEF WithWord, Word
    <2>2. [p.or EXCEPT ![o[2]] = w] \in [OrSlot -> SUBSET Bit]
      BY <1>1, <1>4
    <2> QED
      BY <1>1, <1>4, <2>1, <2>2 DEF Plan
  <1>5. CASE o[1] = "shot" /\ o[2] \in OrSlot
    <2>1. WithWord(p, o, w) = [p EXCEPT !.shot[o[2]] = w] /\ Word(p, o) = p.shot[o[2]]
      BY <1>5 DEF WithWord, Word
    <2>2. [p.shot EXCEPT ![o[2]] = w] \in [OrSlot -> SUBSET Bit]
      BY <1>1, <1>5
    <2> QED
      BY <1>1, <1>5, <2>1, <2>2 DEF Plan
  <1> QED
    BY <1>2, <1>3, <1>4, <1>5

\* What a macro holds in each of its steps.
IsMacro(o) ==
  /\ o.kind = "idle" => o = Idle
  /\ o.kind = "start" =>
       /\ o.sub = NoSubsystem /\ o.step \in {"wait", "set"}
       /\ \E r \in Resolved(InjectRatio[1], InjectRatio[2]) : o.target = InjectPlan(r)
  /\ o.kind = "join" =>
       /\ o.sub \in Subsystem /\ o.step \in {"prepare", "set"} /\ RatioOK(o.m, o.n)
       /\ o.target = JoinPlan(o, o.step = "set")
  /\ o.kind = "leave" =>
       o.sub \in Subsystem /\ o.step = "set" /\ o.target = PeriodicOff(o.keep, o.or, {o.sub})
  /\ o.kind = "shoot" =>
       /\ o.sub \in Subsystem /\ o.step \in {"prepare", "set", "wait"} /\ RatioOK(o.m, o.n)
       /\ o.n <= Fine /\ OnFineSlots(o.m, o.n) # {} /\ o.remaining > 0
       /\ o.target = IF o.step = "prepare" THEN ChunkPlan(o, NoShots) ELSE ArmedPlan(o)

Macros == op \in [Team -> OpRecord] /\ \A t \in Team : IsMacro(op[t])

\* The plans of a macro do not depend on how far it has got.
LEMMA SamePlans ==
  ASSUME NEW o, NEW u, u.sub = o.sub, u.m = o.m, u.n = o.n, u.offset = o.offset, u.keep = o.keep,
         u.or = o.or, u.remaining = o.remaining
  PROVE  /\ \A applyOr : JoinPlan(u, applyOr) = JoinPlan(o, applyOr)
         /\ ChunkOf(u) = ChunkOf(o) /\ ArmedPlan(u) = ArmedPlan(o)
         /\ \A shots : ChunkPlan(u, shots) = ChunkPlan(o, shots)
  <1>1. ChunkOf(u) = ChunkOf(o)
    BY DEF ChunkOf
  <1>2. \A shots : ChunkPlan(u, shots) = ChunkPlan(o, shots)
    BY <1>1 DEF ChunkPlan
  <1>3. ArmedPlan(u) = ArmedPlan(o)
    BY <1>1, <1>2 DEF ArmedPlan
  <1> QED
    BY <1>1, <1>2, <1>3 DEF JoinPlan

\* Counting and writing keep what a macro holds.
LEMMA Progress ==
  ASSUME NEW o \in OpRecord, IsMacro(o), o.kind # "idle"
  PROVE  /\ \A a \in Nat : [o EXCEPT !.at = a] \in OpRecord /\ IsMacro([o EXCEPT !.at = a])
         /\ \A w \in Nat :
              [o EXCEPT !.waited = w] \in OpRecord /\ IsMacro([o EXCEPT !.waited = w])
  <1>1. ASSUME NEW u \in OpRecord, u.kind = o.kind, u.step = o.step, u.target = o.target, u.sub = o.sub,
               u.m = o.m, u.n = o.n, u.offset = o.offset, u.keep = o.keep, u.or = o.or,
               u.remaining = o.remaining
        PROVE  IsMacro(u)
    <2>1. /\ \A applyOr : JoinPlan(u, applyOr) = JoinPlan(o, applyOr)
          /\ ArmedPlan(u) = ArmedPlan(o)
          /\ \A shots : ChunkPlan(u, shots) = ChunkPlan(o, shots)
      BY <1>1, SamePlans
    <2> QED
      BY <1>1, <2>1 DEF IsMacro
  <1>2. ASSUME NEW a \in Nat
        PROVE  [o EXCEPT !.at = a] \in OpRecord /\ IsMacro([o EXCEPT !.at = a])
    <2> DEFINE u == [o EXCEPT !.at = a]
    <2>1. u \in OpRecord
      BY DEF OpRecord
    <2>2. /\ u.kind = o.kind /\ u.step = o.step /\ u.target = o.target /\ u.sub = o.sub
          /\ u.m = o.m /\ u.n = o.n /\ u.offset = o.offset /\ u.keep = o.keep /\ u.or = o.or
          /\ u.remaining = o.remaining
      BY DEF OpRecord
    <2> HIDE DEF u
    <2> QED
      BY <1>1, <2>1, <2>2 DEF u
  <1>3. ASSUME NEW w \in Nat
        PROVE  [o EXCEPT !.waited = w] \in OpRecord /\ IsMacro([o EXCEPT !.waited = w])
    <2> DEFINE u == [o EXCEPT !.waited = w]
    <2>1. u \in OpRecord
      BY DEF OpRecord
    <2>2. /\ u.kind = o.kind /\ u.step = o.step /\ u.target = o.target /\ u.sub = o.sub
          /\ u.m = o.m /\ u.n = o.n /\ u.offset = o.offset /\ u.keep = o.keep /\ u.or = o.or
          /\ u.remaining = o.remaining
      BY DEF OpRecord
    <2> HIDE DEF u
    <2> QED
      BY <1>1, <2>1, <2>2 DEF u
  <1> QED
    BY <1>2, <1>3

\* A change of one macro.
LEMMA OneMacro ==
  ASSUME Macros, NEW t \in Team, NEW o \in OpRecord, IsMacro(o), op' = [op EXCEPT ![t] = o]
  PROVE  Macros'
  <1>1. op' \in [Team -> OpRecord] /\ \A u \in Team : op'[u] = IF u = t THEN o ELSE op[u]
    BY DEF Macros
  <1>2. \A u \in Team : IsMacro(op'[u])
    BY <1>1 DEF Macros
  <1> QED
    BY <1>1, <1>2 DEF Macros

\* A macro that is over is as it should be.
LEMMA IdleIsMacro == IsMacro(Idle)
  <1>1. Idle.kind = "idle"
    BY DEF Idle
  <1> QED
    BY <1>1 DEF IsMacro

\* The types when the program and the macros change alone.
Hardware == running \in BOOLEAN /\ pc \in Operation /\ left \in [1..Coarse -> Nat] /\ mode \in SUBSET Bit
History  == /\ number \in Nat
            /\ share \in [Bit -> SUBSET (0..(Period - 1))] /\ asked \in [Bit -> SUBSET (0..(Period - 1))]
            /\ due \in [Bit -> Nat] /\ settled \subseteq Bit /\ fresh \subseteq Subsystem

\* Types of the CFO, of its memory, of the macros and of the history.
LEMMA TypeParts == TypeOK <=> Hardware /\ plan \in Plan /\ op \in [Team -> OpRecord] /\ History
  BY DEF TypeOK, Hardware, History

\* The masks of the CFO are sets of bits.
LEMMA PlanIs ==
  ASSUME plan \in Plan
  PROVE  /\ plan.keep \in [AndSlot -> SUBSET Bit] /\ plan.or \in [OrSlot -> SUBSET Bit]
         /\ plan.shot \in [OrSlot -> SUBSET Bit]
         /\ plan = [keep |-> plan.keep, or |-> plan.or, shot |-> plan.shot]
  BY DEF Plan

\* INC_TAG keeps the types, and counts for every macro that waits.
LEMMA IncTagType ==
  ASSUME op \in [Team -> OpRecord], IncTag
  PROVE  /\ op' \in [Team -> OpRecord]
         /\ \A t \in Team : op'[t] = IF op[t].step = "wait" /\ op[t].kind = "shoot"
                                     THEN [op[t] EXCEPT !.waited = Counted(op[t])] ELSE op[t]
  <1>1. ASSUME NEW t \in Team
        PROVE  [op[t] EXCEPT !.waited = Counted(op[t])] \in OpRecord
    <2>1. op[t] \in OpRecord /\ op[t].waited \in Nat
      BY OpRecordIs
    <2>2. Counted(op[t]) \in Nat
      BY <2>1 DEF Counted
    <2> QED
      BY <2>1, <2>2 DEF OpRecord
  <1>2. \A t \in Team : op[t] \in OpRecord
    OBVIOUS
  <1> QED
    BY <1>1, <1>2 DEF IncTag

\* The CFO keeps the types.
LEMMA CFOType ==
  ASSUME TypeOK, CFO
  PROVE  TypeOK'
  <1> USE DEF Executes, Operand
  <1>1. Hardware /\ plan \in Plan /\ op \in [Team -> OpRecord] /\ History
    BY TypeParts
  <1>2. After(pc) \in Operation /\ pc[2] \in Nat
    BY <1>1, AfterType, Instructions DEF Hardware
  <1>3. CASE OrSingleShot
    <2>1. pc[2] \in OrSlot
      BY <1>1, <1>3, Instructions DEF Hardware, OrSingleShot
    <2>2. plan.shot[pc[2]] \in SUBSET Bit /\ [plan.shot EXCEPT ![pc[2]] = {}] \in [OrSlot -> SUBSET Bit]
      BY <1>1, <2>1, PlanIs
    <2>3. plan' \in Plan
      BY <1>1, <1>3, <2>2, PlanIs DEF OrSingleShot, Plan
    <2>4. Hardware' /\ History' /\ (op \in [Team -> OpRecord])'
      BY <1>1, <1>2, <1>3, <2>2 DEF Hardware, History, OrSingleShot, history
    <2> QED
      BY <2>3, <2>4, TypeParts DEF TypeOK, Hardware, History
  <1>4. CASE OrModeBits
    <2>1. pc[2] \in OrSlot
      BY <1>1, <1>4, Instructions DEF Hardware, OrModeBits
    <2>2. plan.or[pc[2]] \in SUBSET Bit
      BY <1>1, <2>1, PlanIs
    <2> QED
      BY <1>1, <1>2, <1>4, <2>2 DEF Hardware, History, OrModeBits, history, TypeOK
  <1>5. CASE AndModeBits
    <2>1. mode' \in SUBSET Bit /\ Hardware'
      BY <1>1, <1>2, <1>5 DEF Hardware, AndModeBits
    <2>2. plan' \in Plan /\ (op \in [Team -> OpRecord])'
      BY <1>1, <1>5, IncTagType DEF AndModeBits
    <2>3. CASE pc = Final
      <3>1. asked' \in [Bit -> SUBSET (0..(Period - 1))]
        BY <1>1, <1>5, <2>3 DEF AndModeBits, History
      <3> QED
        BY <1>1, <1>5, <2>1, <2>2, <2>3, <3>1 DEF AndModeBits, TypeOK, Hardware, History
    <2>4. CASE pc # Final
      BY <1>1, <1>5, <2>1, <2>2, <2>4 DEF AndModeBits, TypeOK, Hardware, History
    <2> QED
      BY <2>3, <2>4
  <1>6. CASE Loop
    <2>1. pc[2] \in 1..Coarse
      BY <1>1, <1>6, Instructions DEF Hardware, Loop
    <2>2. LoopCount(pc[2]) \in Nat
      BY <2>1, Loops
    <2> QED
      BY <1>1, <1>2, <1>6, <2>1, <2>2 DEF Hardware, History, Loop, history, TypeOK
  <1>7. CASE DoLoop
    <2>1. pc[2] \in 1..Coarse
      BY <1>1, <1>7, Instructions DEF Hardware, DoLoop
    <2>2. CASE left[pc[2]] > 1
      <3>1. left[pc[2]] - 1 \in Nat
        BY <1>1, <2>1, <2>2 DEF Hardware
      <3>2. left' \in [1..Coarse -> Nat]
        BY <1>1, <1>7, <2>1, <2>2, <3>1 DEF DoLoop, Hardware
      <3>3. <<"loop", pc[2]>> \in Operation
        BY <2>1, IsInstruction
      <3>4. pc' \in Operation
        BY <1>7, <2>2, <3>3, AfterType DEF DoLoop
      <3> QED
        BY <1>1, <1>7, <3>2, <3>4 DEF Hardware, History, DoLoop, history, TypeOK
    <2>3. CASE ~(left[pc[2]] > 1)
      BY <1>1, <1>2, <1>7, <2>3 DEF Hardware, History, DoLoop, history, TypeOK
    <2> QED
      BY <2>2, <2>3
  <1>8. CASE Event
    <2>1. due' \in [Bit -> Nat]
      <3>1. \A b \in Bit : due[b] \in Nat /\ (due[b] > 0 => due[b] - 1 \in Nat)
        BY <1>1 DEF History
      <3> QED
        BY <1>8, <3>1 DEF Event
    <2>2. op' \in [Team -> OpRecord]
      BY <1>1, <1>8 DEF Event
    <2>3. number' \in Nat
      BY <1>1, <1>8 DEF Event, History
    <2> QED
      BY <1>1, <1>2, <1>8, <2>1, <2>2, <2>3 DEF Hardware, History, Event, TypeOK
  <1> QED
    BY <1>3, <1>4, <1>5, <1>6, <1>7, <1>8 DEF CFO

\* The kinds of macros, spelled out for the provers.
LEMMA KindIs == Kind = {"idle", "start", "join", "leave", "shoot"}
  BY DEF Kind

\* The chunk that a shooting macro is at.
LEMMA ChunkOfIs ==
  ASSUME NEW o \in OpRecord, IsMacro(o), o.kind = "shoot"
  PROVE  /\ ChunkOf(o)[1] \in Nat /\ ChunkOf(o)[1] > 0 /\ ChunkOf(o)[1] <= o.remaining
         /\ \/ /\ ChunkOf(o)[2] \in 0..(Coarse - 1) /\ o.m = o.n
               /\ ChunkOf(o)[1] = NValues[LevelOf(ChunkOf(o)[2]) + 1]
            \/ /\ ChunkOf(o)[2] = -1
               /\ ChunkOf(o)[1] <= Cardinality(OnFineSlots(o.m, o.n))
               /\ o.m = o.n => \A k \in 0..(Coarse - 1) : ~(NValues[LevelOf(k) + 1] <= o.remaining)
  <1>1. o.remaining \in Nat /\ o.remaining > 0 /\ OnFineSlots(o.m, o.n) # {}
    BY OpRecordIs DEF IsMacro
  <1> QED
    BY <1>1, ChunkIs DEF ChunkOf

\* Every step keeps what the macros hold.
LEMMA MacrosKept ==
  ASSUME TypeOK, Macros, Next
  PROVE  Macros'
  <1>1. op \in [Team -> OpRecord] /\ plan \in Plan
    BY DEF TypeOK
  <1>2. \A t \in Team : op[t] \in OpRecord /\ IsMacro(op[t])
    BY <1>1 DEF Macros
  <1>3. CASE op' = op
    BY <1>3 DEF Macros
  <1>4. CASE IncTag
    <2>1. ASSUME NEW t \in Team
          PROVE  op'[t] \in OpRecord /\ IsMacro(op'[t])
      <3> DEFINE w == Counted(op[t])
      <3>1. w \in Nat
        BY <1>2, OpRecordIs DEF Counted
      <3>2. op'[t] = IF op[t].step = "wait" /\ op[t].kind = "shoot" THEN [op[t] EXCEPT !.waited = w] ELSE op[t]
        BY <1>1, <1>4 DEF IncTag
      <3> HIDE DEF w
      <3>3. CASE op[t].step = "wait" /\ op[t].kind = "shoot"
        <4>1. op[t].kind # "idle"
          BY <3>3
        <4> QED
          BY <3>1, <3>2, <3>3, <4>1, <1>2, Progress
      <3>4. CASE ~(op[t].step = "wait" /\ op[t].kind = "shoot")
        BY <3>2, <3>4, <1>2
      <3> QED
        BY <3>3, <3>4
    <2>2. op' = [t \in Team |-> op'[t]]
      BY <1>4 DEF IncTag
    <2> QED
      BY <2>1, <2>2 DEF Macros
  <1>5. ASSUME NEW t \in Team, WriteWord(t)
        PROVE  Macros'
    <2>1. PICK o \in ToWrite(t) : op' = [op EXCEPT ![t].at = Place(o) + 1]
      BY <1>5 DEF WriteWord
    <2>2. o \in Mask
      BY <2>1 DEF ToWrite
    <2>3. Place(o) + 1 \in Nat
      BY <2>2, PlaceType
    <2>4. op[t].kind # "idle"
      <3>1. op[t].step # "none"
        BY <1>5 DEF WriteWord
      <3>2. Idle.step = "none"
        BY DEF Idle
      <3> QED
        BY <3>1, <3>2, <1>2 DEF IsMacro
    <2> DEFINE u == [op[t] EXCEPT !.at = Place(o) + 1]
    <2>5. u \in OpRecord /\ IsMacro(u)
      BY <2>3, <2>4, <1>2, Progress
    <2>6. op' = [op EXCEPT ![t] = u]
      BY <2>1
    <2> HIDE DEF u
    <2> QED
      BY <2>5, <2>6, OneMacro
  <1>6. ASSUME NEW t \in Team, op' = [op EXCEPT ![t] = Idle]
        PROVE  Macros'
    BY <1>6, IdleType, IdleIsMacro, OneMacro
  <1>7. ASSUME NEW t \in Team, StartMerges(t)
        PROVE  Macros'
    <2> DEFINE u == [op[t] EXCEPT !.step = "set"]
    <2>1. op' = [op EXCEPT ![t] = u] /\ op[t].kind = "start"
      BY <1>7 DEF StartMerges
    <2>2. u \in OpRecord /\ u.kind = op[t].kind /\ u.sub = op[t].sub /\ u.target = op[t].target /\ u.step = "set"
      BY <1>2 DEF OpRecord
    <2> HIDE DEF u
    <2>3. IsMacro(u)
      BY <2>1, <2>2, <1>2 DEF IsMacro
    <2> QED
      BY <2>1, <2>2, <2>3, OneMacro
  <1>8. ASSUME NEW t \in Team, JoinSets(t)
        PROVE  Macros'
    <2> DEFINE target == JoinPlan(op[t], TRUE)
               u == Writing(op[t], "set", target)
    <2>1. op' = [op EXCEPT ![t] = u] /\ op[t].kind = "join"
      BY <1>8 DEF JoinSets
    <2>2. op[t].sub \in Subsystem /\ RatioOK(op[t].m, op[t].n)
      BY <2>1, <1>2 DEF IsMacro
    <2>3. target \in Plan
      BY <2>2, <1>2, JoinPlanType
    <2> HIDE DEF target
    <2>u. u = Writing(op[t], "set", target)
      OBVIOUS
    <2> HIDE DEF u
    <2>4. /\ u \in OpRecord /\ u.kind = "join" /\ u.step = "set" /\ u.target = target
          /\ u.sub = op[t].sub /\ u.m = op[t].m /\ u.n = op[t].n /\ u.offset = op[t].offset
          /\ u.keep = op[t].keep /\ u.or = op[t].or /\ u.remaining = op[t].remaining
      BY <2>u, <2>1, <2>3, <1>2, WritingType
    <2> HIDE DEF u
    <2>5. JoinPlan(u, TRUE) = target
      BY <2>4, SamePlans DEF target
    <2>6. IsMacro(u)
      BY <2>2, <2>4, <2>5 DEF IsMacro
    <2> QED
      BY <2>1, <2>4, <2>6, OneMacro
  <1>9. ASSUME NEW t \in Team, ShootArms(t)
        PROVE  Macros'
    <2> DEFINE target == ArmedPlan(op[t])
               u == Writing(op[t], "set", target)
    <2>1. op' = [op EXCEPT ![t] = u] /\ op[t].kind = "shoot"
      BY <1>9 DEF ShootArms
    <2>2. /\ op[t].sub \in Subsystem /\ RatioOK(op[t].m, op[t].n) /\ op[t].n <= Fine
          /\ OnFineSlots(op[t].m, op[t].n) # {} /\ op[t].remaining > 0
      BY <2>1, <1>2 DEF IsMacro
    <2>3. target \in Plan
      BY <2>2, <1>2, ArmedPlanType
    <2> HIDE DEF target
    <2>u. u = Writing(op[t], "set", target)
      OBVIOUS
    <2> HIDE DEF u
    <2>4. /\ u \in OpRecord /\ u.kind = "shoot" /\ u.step = "set" /\ u.target = target
          /\ u.sub = op[t].sub /\ u.m = op[t].m /\ u.n = op[t].n /\ u.offset = op[t].offset
          /\ u.keep = op[t].keep /\ u.or = op[t].or /\ u.remaining = op[t].remaining
      BY <2>u, <2>1, <2>3, <1>2, WritingType
    <2> HIDE DEF u
    <2>5. ArmedPlan(u) = target
      BY <2>4, SamePlans DEF target
    <2>6. IsMacro(u)
      BY <2>2, <2>4, <2>5 DEF IsMacro
    <2> QED
      BY <2>1, <2>4, <2>6, OneMacro
  <1>10. ASSUME NEW t \in Team, ShootWaits(t)
        PROVE  Macros'
    <2> DEFINE u == [op[t] EXCEPT !.step = "wait", !.waited = 0]
    <2>1. op' = [op EXCEPT ![t] = u] /\ op[t].kind = "shoot" /\ op[t].step = "set"
      BY <1>10 DEF ShootWaits, Written
    <2>2. 0 \in Nat
      OBVIOUS
    <2>3. /\ u \in OpRecord /\ u.kind = "shoot" /\ u.step = "wait" /\ u.target = op[t].target
          /\ u.sub = op[t].sub /\ u.m = op[t].m /\ u.n = op[t].n /\ u.offset = op[t].offset
          /\ u.keep = op[t].keep /\ u.or = op[t].or /\ u.remaining = op[t].remaining
      BY <2>1, <2>2, <1>2 DEF OpRecord
    <2> HIDE DEF u
    <2>4. ArmedPlan(u) = ArmedPlan(op[t])
      BY <2>3, SamePlans
    <2>5. IsMacro(u)
      BY <2>1, <2>3, <2>4, <1>2 DEF IsMacro
    <2> QED
      BY <2>1, <2>3, <2>5, OneMacro
  <1>11. ASSUME NEW t \in Team, ChunkEnds(t)
        PROVE  Macros'
    <2> DEFINE r == op[t].remaining - ChunkOf(op[t])[1]
               o == [op[t] EXCEPT !.remaining = r]
               target == ChunkPlan(o, NoShots)
               u == Writing(o, "prepare", target)
    <2>1. op' = [op EXCEPT ![t] = IF o.remaining = 0 THEN Idle ELSE u] /\ op[t].kind = "shoot"
      BY <1>11 DEF ChunkEnds
    <2>2. /\ op[t].sub \in Subsystem /\ RatioOK(op[t].m, op[t].n) /\ op[t].n <= Fine
          /\ OnFineSlots(op[t].m, op[t].n) # {} /\ op[t].remaining > 0
      BY <2>1, <1>2 DEF IsMacro
    <2>3. r \in Nat
      BY <2>1, <1>2, ChunkOfIs, OpRecordIs
    <2> HIDE DEF r
    <2>4. /\ o \in OpRecord /\ o.remaining = r /\ o.kind = "shoot"
          /\ o.sub = op[t].sub /\ o.m = op[t].m /\ o.n = op[t].n
      BY <2>1, <2>3, <1>2 DEF OpRecord
    <2> HIDE DEF o
    <2>5. target \in Plan
      BY <2>2, <2>4, ChunkPlanType, EmptyTypes
    <2> HIDE DEF target
    <2>u. u = Writing(o, "prepare", target)
      OBVIOUS
    <2> HIDE DEF u
    <2>6. /\ u \in OpRecord /\ u.kind = "shoot" /\ u.step = "prepare" /\ u.target = target
          /\ u.sub = o.sub /\ u.m = o.m /\ u.n = o.n /\ u.offset = o.offset
          /\ u.keep = o.keep /\ u.or = o.or /\ u.remaining = o.remaining
      BY <2>u, <2>4, <2>5, WritingType
    <2> HIDE DEF u
    <2>7. ChunkPlan(u, NoShots) = target
      BY <2>6, SamePlans DEF target
    <2>8. CASE r = 0
      BY <2>1, <2>4, <2>8, <1>6
    <2>9. CASE r # 0
      <3>1. u.remaining > 0
        BY <2>3, <2>4, <2>6, <2>9
      <3>2. IsMacro(u)
        BY <2>2, <2>4, <2>6, <2>7, <3>1 DEF IsMacro
      <3> QED
        BY <2>1, <2>4, <2>6, <2>9, <3>2, OneMacro
    <2> QED
      BY <2>8, <2>9
  <1>12. ASSUME NEW t \in Team, Start(t)
        PROVE  Macros'
    <2>1. PICK r \in Resolved(InjectRatio[1], InjectRatio[2]) :
            op' = [op EXCEPT ![t] = [Idle EXCEPT !.kind = "start", !.step = "wait", !.target = InjectPlan(r)]]
      BY <1>12 DEF Start
    <2> DEFINE u == [Idle EXCEPT !.kind = "start", !.step = "wait", !.target = InjectPlan(r)]
    <2>2. r \in Nat \X Nat
      BY ResolvedIs, AskedAssumption
    <2>3. InjectPlan(r) \in Plan
      BY <2>2, InitialPlanType
    <2>4. u \in OpRecord /\ u.kind = "start" /\ u.step = "wait" /\ u.target = InjectPlan(r) /\ u.sub = Idle.sub
      BY <2>3, IdleType, KindIs DEF OpRecord
    <2>5. Idle.sub = NoSubsystem
      BY DEF Idle
    <2> HIDE DEF u
    <2>6. IsMacro(u)
      BY <2>4, <2>5 DEF IsMacro
    <2> QED
      BY <2>1, <2>4, <2>6, OneMacro DEF u
  <1>13. ASSUME NEW t \in Team, JoinStarts(t)
        PROVE  Macros'
    <2>0. PICK s \in Subsystem, asking \in Ratio, offset \in Offset : \E r \in Resolved(asking[1], asking[2]) :
            LET o == Extracted("join", s, r, offset)
            IN  op' = [op EXCEPT ![t] = Writing(o, "prepare", JoinPass1(o))]
      BY <1>13 DEF JoinStarts
    <2>1. PICK r \in Resolved(asking[1], asking[2]) :
            LET o == Extracted("join", s, r, offset)
            IN  op' = [op EXCEPT ![t] = Writing(o, "prepare", JoinPass1(o))]
      BY <2>0
    <2> DEFINE o == Extracted("join", s, r, offset)
               target == JoinPlan(o, FALSE)
               u == Writing(o, "prepare", target)
    <2>2. r \in Nat \X Nat /\ RatioOK(r[1], r[2]) /\ offset \in Nat
      BY ResolvedIs, AskedAssumption
    <2>3. /\ o \in OpRecord /\ o.kind = "join" /\ o.sub = s /\ o.m = r[1] /\ o.n = r[2]
      BY <2>2, <1>1, ExtractedType, KindIs
    <2> HIDE DEF o
    <2>4. target \in Plan
      BY <2>3, JoinPlanType
    <2> HIDE DEF target
    <2>u. u = Writing(o, "prepare", target)
      OBVIOUS
    <2> HIDE DEF u
    <2>5. /\ u \in OpRecord /\ u.kind = "join" /\ u.step = "prepare" /\ u.target = target
          /\ u.sub = o.sub /\ u.m = o.m /\ u.n = o.n /\ u.offset = o.offset
          /\ u.keep = o.keep /\ u.or = o.or /\ u.remaining = o.remaining
      BY <2>u, <2>3, <2>4, WritingType
    <2>6. op' = [op EXCEPT ![t] = u]
      BY <2>1 DEF o, target, u, JoinPass1
    <2> HIDE DEF u
    <2>7. JoinPlan(u, FALSE) = target
      BY <2>5, SamePlans DEF target
    <2>8. IsMacro(u)
      BY <2>2, <2>3, <2>5, <2>7 DEF IsMacro
    <2> QED
      BY <2>5, <2>6, <2>8, OneMacro
  <1>14. ASSUME NEW t \in Team, LeaveStarts(t)
        PROVE  Macros'
    <2>1. PICK s \in Subsystem :
            LET o == Extracted("leave", s, <<1, 1>>, 0)
            IN  op' = [op EXCEPT ![t] = Writing(o, "set", PeriodicOff(o.keep, o.or, {s}))]
      BY <1>14 DEF LeaveStarts
    <2> DEFINE o == Extracted("leave", s, <<1, 1>>, 0)
               target == PeriodicOff(o.keep, o.or, {s})
               u == Writing(o, "set", target)
    <2>2. <<1, 1>> \in Nat \X Nat /\ 0 \in Nat
      OBVIOUS
    <2>3. o \in OpRecord /\ o.kind = "leave" /\ o.sub = s
      BY <2>2, <1>1, ExtractedType, KindIs
    <2> HIDE DEF o
    <2>4. target \in Plan
      <3>1. {s} \in SUBSET Bit
        BY DEF Bit
      <3> QED
        BY <3>1, <2>3, OpRecordIs, PeriodicOffType
    <2> HIDE DEF target
    <2>u. u = Writing(o, "set", target)
      OBVIOUS
    <2> HIDE DEF u
    <2>5. /\ u \in OpRecord /\ u.kind = "leave" /\ u.step = "set" /\ u.target = target
          /\ u.sub = o.sub /\ u.keep = o.keep /\ u.or = o.or
      BY <2>u, <2>3, <2>4, WritingType
    <2>6. op' = [op EXCEPT ![t] = u]
      BY <2>1 DEF o, target, u
    <2> HIDE DEF u
    <2>7. IsMacro(u)
      BY <2>3, <2>5 DEF IsMacro, target
    <2> QED
      BY <2>5, <2>6, <2>7, OneMacro
  <1>15. ASSUME NEW t \in Team, ShootStarts(t)
        PROVE  Macros'
    <2>0. PICK s \in Subsystem, asking \in Ratio, count \in Count : \E r \in Resolved(asking[1], asking[2]) :
            /\ r[2] <= Fine /\ OnFineSlots(r[1], r[2]) # {}
            /\ LET o == [Extracted("shoot", s, r, 0) EXCEPT !.remaining = count]
               IN  op' = [op EXCEPT ![t] = Writing(o, "prepare", ChunkPlan(o, NoShots))]
      <3>1. PICK s \in Subsystem, asking \in Ratio, count \in Count :
              \E r \in Resolved(asking[1], asking[2]) :
                /\ r[2] <= Fine
                /\ OnFineSlots(r[1], r[2]) # {}
                /\ LET o == [Extracted("shoot", s, r, 0) EXCEPT !.remaining = count]
                   IN  op' = [op EXCEPT ![t] = Writing(o, "prepare", ChunkPlan(o, NoShots))]
        BY <1>15 DEF ShootStarts
      <3> QED
        BY <3>1
    <2>1. PICK r \in Resolved(asking[1], asking[2]) :
            /\ r[2] <= Fine /\ OnFineSlots(r[1], r[2]) # {}
            /\ LET o == [Extracted("shoot", s, r, 0) EXCEPT !.remaining = count]
               IN  op' = [op EXCEPT ![t] = Writing(o, "prepare", ChunkPlan(o, NoShots))]
      BY <2>0
    <2> DEFINE e == Extracted("shoot", s, r, 0)
               o == [e EXCEPT !.remaining = count]
               target == ChunkPlan(o, NoShots)
               u == Writing(o, "prepare", target)
    <2>2. r \in Nat \X Nat /\ RatioOK(r[1], r[2]) /\ count \in Nat /\ count > 0
      BY ResolvedIs, AskedAssumption
    <2>3. e \in OpRecord /\ e.kind = "shoot" /\ e.sub = s /\ e.m = r[1] /\ e.n = r[2]
      BY <2>2, <1>1, ExtractedType, KindIs
    <2> HIDE DEF e
    <2>4. o \in OpRecord /\ o.kind = "shoot" /\ o.sub = s /\ o.m = r[1] /\ o.n = r[2] /\ o.remaining = count
      BY <2>2, <2>3 DEF OpRecord
    <2> HIDE DEF o
    <2>5. target \in Plan
      BY <2>4, ChunkPlanType, EmptyTypes
    <2> HIDE DEF target
    <2>u. u = Writing(o, "prepare", target)
      OBVIOUS
    <2> HIDE DEF u
    <2>6. /\ u \in OpRecord /\ u.kind = "shoot" /\ u.step = "prepare" /\ u.target = target
          /\ u.sub = o.sub /\ u.m = o.m /\ u.n = o.n /\ u.offset = o.offset
          /\ u.keep = o.keep /\ u.or = o.or /\ u.remaining = o.remaining
      BY <2>u, <2>4, <2>5, WritingType
    <2>7. op' = [op EXCEPT ![t] = u]
      BY <2>1 DEF e, o, target, u
    <2> HIDE DEF u
    <2>8. ChunkPlan(u, NoShots) = target
      BY <2>6, SamePlans DEF target
    <2>9. IsMacro(u)
      BY <2>1, <2>2, <2>4, <2>6, <2>8 DEF IsMacro
    <2> QED
      BY <2>6, <2>7, <2>9, OneMacro
  <1>16. CASE CFO
    BY <1>3, <1>4, <1>16 DEF CFO, OrSingleShot, OrModeBits, AndModeBits, Loop, DoLoop, Event
  <1>17. CASE Stop
    BY <1>3, <1>17 DEF Stop
  <1>18. ASSUME NEW t \in Team, Macro(t)
        PROVE  Macros'
    <2>1. CASE StartEnds(t) \/ JoinEnds(t) \/ LeaveEnds(t) \/ ShootTimesOut(t)
      BY <1>6, <2>1 DEF StartEnds, JoinEnds, LeaveEnds, ShootTimesOut
    <2> QED
      BY <1>5, <1>7, <1>8, <1>9, <1>10, <1>11, <1>18, <2>1 DEF Macro
  <1>19. ASSUME NEW t \in Team, Operator(t)
        PROVE  Macros'
    BY <1>12, <1>13, <1>14, <1>15, <1>19 DEF Operator
  <1> QED
    BY <1>16, <1>17, <1>18, <1>19 DEF Next

\* The program has a first operation.
LEMMA FirstType == First \in Operation
  <1>1. Coarse # 0 => 0 \in OrSlot
    BY Parameters DEF OrSlot
  <1>2. 0 \in AndSlot
    BY Parameters DEF AndSlot
  <1> QED
    BY <1>1, <1>2, IsInstruction DEF First

\* No action breaks the types, or what a macro is in each of its steps.
LEMMA TypeKept ==
  ASSUME TypeOK, Macros, Next
  PROVE  TypeOK' /\ Macros'
  <1>1. Hardware /\ plan \in Plan /\ op \in [Team -> OpRecord] /\ History
    BY TypeParts
  <1>2. Macros' /\ op' \in [Team -> OpRecord]
    BY MacrosKept DEF Macros
  <1>3. CASE CFO
    BY <1>2, <1>3, CFOType
  <1>4. CASE Stop
    BY <1>1, <1>2, <1>4, FirstType DEF Stop, TypeOK, Hardware, History
  <1>5. ASSUME NEW t \in Team, Macro(t)
        PROVE  TypeOK'
    <2>1. CASE WriteWord(t)
      <3>1. PICK o \in ToWrite(t) : plan' = WithWord(plan, o, Word(op[t].target, o))
        BY <2>1 DEF WriteWord
      <3>2. o \in Mask /\ op[t].target \in Plan
        BY <1>1, <3>1, OpRecordIs DEF ToWrite
      <3>3. Word(op[t].target, o) \in SUBSET Bit
        <4>1. {} \in SUBSET Bit
          OBVIOUS
        <4> QED
          BY <3>2, <4>1, Words
      <3>4. plan' \in Plan
        BY <1>1, <3>1, <3>2, <3>3, Words
      <3> QED
        BY <1>1, <1>2, <2>1, <3>4 DEF WriteWord, hardware, history, TypeOK, Hardware, History
    <2>2. CASE JoinEnds(t)
      <3>1. Share(op[t].m, op[t].n, op[t].offset) \in SUBSET (0..(Period - 1))
        BY ShareType
      <3>2. share' \in [Bit -> SUBSET (0..(Period - 1))]
        BY <1>1, <2>2, <3>1 DEF JoinEnds, History
      <3> QED
        BY <1>1, <1>2, <2>2, <3>2 DEF JoinEnds, hardware, TypeOK, Hardware, History
    <2>3. CASE ShootTimesOut(t)
      <3>1. due' \in [Bit -> Nat]
        BY <1>1, <2>3 DEF ShootTimesOut, History
      <3> QED
        BY <1>1, <1>2, <2>3, <3>1 DEF ShootTimesOut, hardware, TypeOK, Hardware, History
    <2>4. CASE UNCHANGED <<hardware, plan, history>>
      BY <1>1, <1>2, <2>4 DEF hardware, history, TypeOK, Hardware, History
    <2> QED
      BY <1>5, <2>1, <2>2, <2>3, <2>4 DEF Macro, StartMerges, StartEnds, JoinSets, LeaveEnds, ShootArms,
         ShootWaits, ChunkEnds
  <1>6. ASSUME NEW t \in Team, Start(t)
        PROVE  TypeOK'
    <2>1. PICK initial \in SUBSET Subsystem, r \in Resolved(InjectRatio[1], InjectRatio[2]) :
            /\ plan' = InitialPlan(initial)
            /\ share' = [b \in Bit |-> IF b \in initial THEN 0..(Period - 1) ELSE
                                       IF b = Inject THEN Share(r[1], r[2], 0) ELSE {}]
      BY <1>6 DEF Start
    <2>2. plan' \in Plan
      BY <2>1, InitialPlanType
    <2>3. share' \in [Bit -> SUBSET (0..(Period - 1))]
      BY <2>1, ShareType
    <2>4. First \in Operation
      BY FirstType
    <2>5. Hardware'
      BY <1>6, <2>4 DEF Start, Hardware
    <2>6. History'
      BY <1>6, <2>3 DEF Start, History
    <2> QED
      BY <1>2, <2>2, <2>5, <2>6 DEF TypeOK, Hardware, History
  <1>7. ASSUME NEW t \in Team, JoinStarts(t)
        PROVE  TypeOK'
    <2>1. PICK s \in Subsystem, offset \in Offset :
            /\ settled' = settled \ {s} /\ fresh' = fresh \ {s}
            /\ \E r : asked' = [asked EXCEPT ![s] = @ \cup Share(r[1], r[2], offset)]
            /\ UNCHANGED <<hardware, plan, number, share, due>>
      BY <1>7 DEF JoinStarts, Begins
    <2>2. PICK r : asked' = [asked EXCEPT ![s] = @ \cup Share(r[1], r[2], offset)]
      BY <2>1
    <2>3. Share(r[1], r[2], offset) \in SUBSET (0..(Period - 1))
      BY ShareType
    <2>4. asked' \in [Bit -> SUBSET (0..(Period - 1))]
      BY <1>1, <2>2, <2>3 DEF History
    <2> QED
      BY <1>1, <1>2, <2>1, <2>4 DEF hardware, TypeOK, Hardware, History
  <1>8. ASSUME NEW t \in Team, LeaveStarts(t)
        PROVE  TypeOK'
    <2>1. PICK s \in Subsystem :
            /\ settled' = settled \ {s} /\ fresh' = fresh \ {s}
            /\ asked' = [asked EXCEPT ![s] = @ \cup share[s]]
            /\ share' = [share EXCEPT ![s] = {}]
            /\ UNCHANGED <<hardware, plan, number, due>>
      BY <1>8 DEF LeaveStarts, Begins
    <2>2. s \in Bit
      BY DEF Bit
    <2>3. asked' \in [Bit -> SUBSET (0..(Period - 1))] /\ share' \in [Bit -> SUBSET (0..(Period - 1))]
      BY <1>1, <2>1, <2>2 DEF History
    <2> QED
      BY <1>1, <1>2, <2>1, <2>3 DEF hardware, TypeOK, Hardware, History
  <1>9. ASSUME NEW t \in Team, ShootStarts(t)
        PROVE  TypeOK'
    <2>1. PICK s \in Subsystem, count \in Count :
            /\ settled' = settled \ {s} /\ fresh' = fresh \ {s}
            /\ asked' = [asked EXCEPT ![s] = {}]
            /\ due' = [due EXCEPT ![s] = count]
            /\ UNCHANGED <<hardware, plan, number, share>>
      BY <1>9 DEF ShootStarts, Begins
    <2>2. s \in Bit /\ count \in Nat
      BY AskedAssumption DEF Bit
    <2>3. asked' \in [Bit -> SUBSET (0..(Period - 1))] /\ due' \in [Bit -> Nat]
      BY <1>1, <2>1, <2>2 DEF History
    <2> QED
      BY <1>1, <1>2, <2>1, <2>3 DEF hardware, TypeOK, Hardware, History
  <1> QED
    BY <1>2, <1>3, <1>4, <1>5, <1>6, <1>7, <1>8, <1>9 DEF Next, Operator

\* The initial state has the types.
LEMMA InitTypes ==
  ASSUME Init
  PROVE  TypeOK /\ Macros
  <1>1. First \in Operation
    BY FirstType
  <1>2. op \in [Team -> OpRecord] /\ \A t \in Team : op[t] = Idle
    BY IdleType DEF Init
  <1>3. Macros
    BY <1>2, IdleIsMacro DEF Macros
  <1>4. Hardware /\ History
    BY <1>1 DEF Init, Hardware, History
  <1> QED
    BY <1>2, <1>3, <1>4, IdleType DEF TypeOK, Init, Hardware, History

\* A step that changes nothing keeps the types.
LEMMA Stuttering ==
  ASSUME TypeOK, Macros, UNCHANGED vars
  PROVE  TypeOK' /\ Macros'
  BY DEF vars, hardware, history, TypeOK, Macros

\* Variables keep their types, and a macro has in each of its steps what that step works with:
\* a subsystem, masks read, a target, a chunk that is left to shoot (CFOFrontEndInterfaceImpl.cc
\* SharedRunPlan*).
THEOREM SharedRunPlanTypes == Spec => [](TypeOK /\ Macros)
  <1>1. Init => TypeOK /\ Macros
    BY InitTypes
  <1>2. TypeOK /\ Macros /\ [Next]_vars => (TypeOK /\ Macros)'
    BY TypeKept, Stuttering
  <1> QED
    BY <1>1, <1>2, PTL DEF Spec

\* Instructions before the first event of a fine loop, around an event, and behind the last one.
Preamble(o) == \/ o[1] = "loop"
               \/ o[1] \in {"or", "shot"} /\ o[2] < Coarse
               \/ o[1] = "and" /\ o[2] = 0
Slotted(o)  == \/ o[1] = "event"
               \/ o[1] \in {"or", "shot"} /\ o[2] >= Coarse
Closing(o)  == \/ o[1] = "do"
               \/ o[1] = "and" /\ o[2] >= Fine
\* The slot of the event that comes next.
SlotOf(o)   == IF o[1] \in {"event", "and"} THEN o[2]
               ELSE IF o[1] \in {"or", "shot"} /\ o[2] >= Coarse THEN o[2] - Coarse
               ELSE 0

\* Instructions in the body of coarse loop l.
Within(o, l) == \/ o[1] \in {"or", "shot"} /\ o[2] > Coarse - l
                \/ o[1] = "loop" /\ o[2] < l
                \/ o[1] = "event"
                \/ o[1] = "and" /\ o[2] < Fine + l
                \/ o[1] = "do" /\ o[2] <= l

\* The last event that has begun in a closing, the next one elsewhere.
Latest(o, x) == IF Closing(o) THEN x - 1 ELSE x

\* Where the program is after x events, and how far its loops have come.
InLoops(o, x, f) ==
  \A l \in 1..Coarse : Within(o, l) =>
    /\ f[l] \in 1..LoopCount(l)
    /\ (LoopCount(l) - f[l]) * NValues[l] <= Latest(o, x) % NValues[l + 1]
    /\ Latest(o, x) % NValues[l + 1] < (LoopCount(l) - f[l] + 1) * NValues[l]

Located(o, x) ==
  /\ ~Closing(o) => x < Period /\ x % Fine = SlotOf(o)
  /\ Closing(o) => x > 0 /\ x <= Period
  /\ o[1] \in {"or", "shot"} /\ o[2] < Coarse => x % NValues[Coarse - o[2] + 1] = 0
  /\ o[1] = "loop" => x % NValues[o[2] + 1] = 0
  /\ o[1] = "do" => x % NValues[o[2]] = 0
  /\ o[1] = "and" /\ o[2] >= Fine => x % NValues[o[2] - Fine + 1] = 0

PositionOf(o, x, f) == Located(o, x) /\ InLoops(o, x, f)

\* The program begins with no event.
LEMMA PositionFirst ==
  ASSUME NEW f
  PROVE  PositionOf(First, 0, f)
  <1>1. Fine \in Nat /\ Fine > 1 /\ Coarse \in Nat /\ Period >= Fine /\ Period \in Nat
    <2>1. Coarse + 1 \in 1..(Coarse + 1)
      BY Parameters
    <2> QED
      BY <2>1, Parameters
  <1>2. 0 % Fine = 0
    BY <1>1
  <1>3. CASE Coarse = 0
    <2>1. First = <<"and", 0>>
      BY <1>3 DEF First
    <2>2. Located(First, 0)
      BY <1>1, <1>2, <2>1 DEF Located, Closing, SlotOf
    <2> QED
      BY <1>3, <2>2 DEF PositionOf, InLoops
  <1>4. CASE Coarse # 0
    <2>1. First = <<"shot", 0>>
      BY <1>4 DEF First
    <2>2. 0 % NValues[Coarse + 1] = 0
      <3>1. NValues[Coarse + 1] \in Nat /\ NValues[Coarse + 1] > 0
        BY <1>1, Parameters
      <3> QED
        BY <3>1
    <2>3. Located(First, 0)
      BY <1>1, <1>2, <1>4, <2>1, <2>2 DEF Located, Closing, SlotOf
    <2>4. \A l \in 1..Coarse : ~Within(First, l)
      BY <1>1, <2>1 DEF Within
    <2> QED
      BY <2>3, <2>4 DEF PositionOf, InLoops
  <1> QED
    BY <1>3, <1>4

\* Masks for the mode register do not move the program to another event.
LEMMA PositionShot ==
  ASSUME NEW o \in Operation, NEW x \in Nat, NEW f, PositionOf(o, x, f), o[1] = "shot"
  PROVE  PositionOf(After(o), x, f)
  <1>1. Fine \in Nat /\ Fine > 1 /\ Coarse \in Nat /\ o[2] \in OrSlot
    BY Parameters, Instructions
  <1>2. CASE o[2] < Coarse
    <2>1. After(o) = <<"or", o[2]>>
      BY <1>2, AfterIs
    <2>2. Located(After(o), x)
      BY <1>1, <1>2, <2>1 DEF PositionOf, Located, Closing, SlotOf
    <2>3. Latest(After(o), x) = Latest(o, x) /\ \A l \in 1..Coarse : Within(After(o), l) <=> Within(o, l)
      BY <1>1, <1>2, <2>1 DEF Latest, Closing, Within
    <2> QED
      BY <2>2, <2>3 DEF PositionOf, InLoops
  <1>3. CASE ~(o[2] < Coarse)
    <2>1. After(o) = <<"event", o[2] - Coarse>>
      BY <1>3, AfterIs
    <2>2. Located(After(o), x)
      BY <1>1, <1>3, <2>1 DEF PositionOf, Located, Closing, SlotOf, OrSlot
    <2>3. Latest(After(o), x) = Latest(o, x) /\ \A l \in 1..Coarse : Within(o, l)
      BY <1>1, <1>3, <2>1 DEF Latest, Closing, Within, OrSlot
    <2> QED
      BY <2>2, <2>3 DEF PositionOf, InLoops
  <1> QED
    BY <1>2, <1>3

\* Past an OR the program stands where it stood: no event, no loop.
LEMMA PositionOr ==
  ASSUME NEW o \in Operation, NEW x \in Nat, NEW f, PositionOf(o, x, f), o[1] = "or"
  PROVE  PositionOf(After(o), x, f)
  <1>1. Fine \in Nat /\ Fine > 1 /\ Coarse \in Nat /\ o[2] \in OrSlot
    BY Parameters, Instructions
  <1>2. CASE o[2] < Coarse
    <2>1. After(o) = <<"loop", Coarse - o[2]>>
      BY <1>2, AfterIs
    <2>2. Located(After(o), x)
      BY <1>1, <1>2, <2>1 DEF PositionOf, Located, Closing, SlotOf, OrSlot
    <2>3. Latest(After(o), x) = Latest(o, x) /\ \A l \in 1..Coarse : Within(After(o), l) <=> Within(o, l)
      BY <1>1, <1>2, <2>1 DEF Latest, Closing, Within, OrSlot
    <2> QED
      BY <2>2, <2>3 DEF PositionOf, InLoops
  <1>3. CASE ~(o[2] < Coarse)
    <2>1. After(o) = <<"shot", o[2]>>
      BY <1>3, AfterIs
    <2>2. Located(After(o), x)
      BY <1>1, <1>3, <2>1 DEF PositionOf, Located, Closing, SlotOf, OrSlot
    <2>3. Latest(After(o), x) = Latest(o, x) /\ \A l \in 1..Coarse : Within(o, l)
      BY <1>1, <1>3, <2>1 DEF Latest, Closing, Within, OrSlot
    <2> QED
      BY <2>2, <2>3 DEF PositionOf, InLoops
  <1> QED
    BY <1>2, <1>3

\* A loop begins its passes.
LEMMA PositionLoop ==
  ASSUME NEW o \in Operation, NEW x \in Nat, NEW f \in [1..Coarse -> Nat], PositionOf(o, x, f), o[1] = "loop"
  PROVE  PositionOf(After(o), x, [f EXCEPT ![o[2]] = LoopCount(o[2])])
  <1> DEFINE m == o[2]
             g == [f EXCEPT ![m] = LoopCount(m)]
  <1>1. Fine \in Nat /\ Fine > 1 /\ Coarse \in Nat /\ m \in 1..Coarse
    BY Parameters, Instructions
  <1>2. /\ NValues[m] \in Nat /\ NValues[m] > 0 /\ NValues[m + 1] \in Nat /\ NValues[m + 1] > 0
        /\ NValues[m + 1] % NValues[m] = 0
        /\ LoopCount(m) \in Nat /\ LoopCount(m) > 0
    BY <1>1, Loops
  <1>3. x < Period /\ x % Fine = 0 /\ x % NValues[m + 1] = 0
    BY DEF PositionOf, Located, Closing, SlotOf
  <1>4. x % NValues[m] = 0
    <2>1. (x % NValues[m + 1]) % NValues[m] = x % NValues[m]
      <3>1. x \in Int
        OBVIOUS
      <3> HIDE DEF m
      <3> QED
        BY <1>2, <3>1, Divides
    <2> QED
      BY <2>1, <1>2, <1>3
  <1>5. After(o) = IF m = 1 THEN <<"and", 0>> ELSE <<"shot", Coarse - m + 1>>
    BY AfterIs
  <1>6. Located(After(o), x)
    <2>1. CASE m = 1
      BY <1>1, <1>3, <1>5, <2>1 DEF Located, Closing, SlotOf
    <2>2. CASE m # 1
      <3>1. After(o) = <<"shot", Coarse - m + 1>> /\ Coarse - (Coarse - m + 1) + 1 = m
            /\ Coarse - m + 1 < Coarse
        BY <1>1, <1>5, <2>2
      <3> QED
        BY <1>1, <1>3, <1>4, <3>1 DEF Located, Closing, SlotOf
    <2> QED
      BY <2>1, <2>2
  <1>7. Latest(After(o), x) = x /\ Latest(o, x) = x
    BY <1>1, <1>5 DEF Latest, Closing
  <1>8. \A l \in 1..Coarse : Within(After(o), l) => l = m \/ Within(o, l)
    BY <1>1, <1>5 DEF Within
  <1>9. ASSUME NEW l \in 1..Coarse, Within(After(o), l)
        PROVE  /\ g[l] \in 1..LoopCount(l)
               /\ (LoopCount(l) - g[l]) * NValues[l] <= x % NValues[l + 1]
               /\ x % NValues[l + 1] < (LoopCount(l) - g[l] + 1) * NValues[l]
    <2>1. CASE l = m
      <3>1. g[l] = LoopCount(m)
        BY <1>1, <2>1
      <3>2. /\ (LoopCount(m) - LoopCount(m)) * NValues[m] = 0
            /\ (LoopCount(m) - LoopCount(m) + 1) * NValues[m] = NValues[m]
        BY <1>2
      <3>3. LoopCount(m) \in 1..LoopCount(m)
        BY <1>2
      <3>4. 0 <= x % NValues[m + 1] /\ x % NValues[m + 1] < NValues[m]
        BY <1>2, <1>3
      <3> HIDE DEF m, g
      <3> QED
        BY <2>1, <3>1, <3>2, <3>3, <3>4
    <2>2. CASE l # m
      <3>1. g[l] = f[l]
        BY <1>1, <2>2
      <3>2. Within(o, l)
        BY <1>8, <1>9, <2>2
      <3> QED
        BY <3>1, <3>2, <1>7 DEF PositionOf, InLoops
    <2> QED
      BY <2>1, <2>2
  <1> HIDE DEF g
  <1>10. InLoops(After(o), x, g)
    BY <1>7, <1>9 DEF InLoops
  <1> QED
    BY <1>6, <1>10 DEF PositionOf, g

\* The ends of loops lead out of them, and the last one to the beginning.
LEMMA PositionAnd ==
  ASSUME NEW o \in Operation, NEW x \in Nat, NEW f, PositionOf(o, x, f), o[1] = "and", o # Final
  PROVE  PositionOf(After(o), x, f)
  <1>1. Fine \in Nat /\ Fine > 1 /\ Coarse \in Nat /\ o[2] \in AndSlot /\ o = <<o[1], o[2]>>
    BY Parameters, Instructions
  <1>2. o[2] # Fine + Coarse
    BY <1>1 DEF Final
  <1>3. CASE o[2] < Fine
    <2>1. After(o) = <<"or", Coarse + o[2]>>
      BY <1>3, AfterIs
    <2>2. Located(After(o), x)
      BY <1>1, <1>3, <2>1 DEF PositionOf, Located, Closing, SlotOf, AndSlot
    <2>3. Latest(After(o), x) = Latest(o, x) /\ \A l \in 1..Coarse : Within(o, l)
      BY <1>1, <1>3, <2>1 DEF Latest, Closing, Within, AndSlot
    <2> QED
      BY <2>2, <2>3 DEF PositionOf, InLoops
  <1>4. CASE ~(o[2] < Fine)
    <2>1. After(o) = <<"do", o[2] - Fine + 1>>
      BY <1>2, <1>4, AfterIs
    <2>2. o[2] >= Fine
      BY <1>1, <1>4 DEF AndSlot
    <2>3. x > 0 /\ x <= Period /\ x % NValues[o[2] - Fine + 1] = 0
      BY <2>2 DEF PositionOf, Located, Closing
    <2>4. Located(After(o), x)
      BY <2>1, <2>3 DEF Located, Closing
    <2>5. Latest(After(o), x) = Latest(o, x) /\ \A l \in 1..Coarse : Within(After(o), l) => Within(o, l)
      BY <1>1, <2>1, <2>2 DEF Latest, Closing, Within, AndSlot
    <2> QED
      BY <2>4, <2>5 DEF PositionOf, InLoops
  <1> QED
    BY <1>3, <1>4

\* An event that does not end the fine loop ends no round of any loop.
LEMMA NoRoundEnds ==
  ASSUME NEW x \in Int, NEW k \in 1..(Coarse + 1), NEW j \in 1..k, x % NValues[j] # 0
  PROVE  x % NValues[k] # 0
  <1>1. /\ NValues[k] \in Nat /\ NValues[k] > 0 /\ NValues[j] \in Nat /\ NValues[j] > 0
        /\ NValues[k] % NValues[j] = 0
    BY Parameters
  <1>2. (x % NValues[k]) % NValues[j] = x % NValues[j]
    BY <1>1, Divides
  <1>3. 0 % NValues[j] = 0
    BY <1>1
  <1> QED
    BY <1>2, <1>3

\* Past an event the next one is one event later, and it was the event of its slot.
LEMMA PositionEvent ==
  ASSUME NEW o \in Operation, NEW x \in Nat, NEW f \in [1..Coarse -> Nat], PositionOf(o, x, f), o[1] = "event"
  PROVE  /\ PositionOf(After(o), x + 1, f)
         /\ x < Period /\ x % Fine = o[2]
  <1>1. Fine \in Nat /\ Fine > 1 /\ Coarse \in Nat /\ o[2] \in 0..(Fine - 1) /\ Period \in Nat
    BY Parameters, Instructions
  <1>2. After(o) = <<"and", o[2] + 1>>
    BY AfterIs
  <1>3. x < Period /\ x % Fine = o[2]
    BY DEF PositionOf, Located, Closing, SlotOf
  <1>4. (x + 1) % Fine = IF o[2] = Fine - 1 THEN 0 ELSE o[2] + 1
    BY <1>1, <1>3, NextRemainder
  <1>5. 1 \in 1..(Coarse + 1) /\ Fine = NValues[1] /\ Coarse + 1 \in 1..(Coarse + 1) /\ Period = NValues[Coarse + 1]
    BY Parameters
  <1>6. CASE o[2] = Fine - 1
    <2>1. After(o) = <<"and", Fine>> /\ (x + 1) % Fine = 0
      BY <1>1, <1>2, <1>4, <1>6
    <2>2. Located(After(o), x + 1)
      BY <1>1, <1>3, <1>5, <2>1 DEF Located, Closing
    <2>3. Latest(After(o), x + 1) = x /\ Latest(o, x) = x
      BY <1>1, <2>1 DEF Latest, Closing
    <2>4. \A l \in 1..Coarse : Within(o, l)
      BY DEF Within
    <2>5. InLoops(After(o), x + 1, f)
      BY <2>3, <2>4 DEF PositionOf, InLoops
    <2> QED
      BY <1>3, <2>2, <2>5 DEF PositionOf
  <1>7. CASE o[2] # Fine - 1
    <2>1. o[2] + 1 < Fine /\ (x + 1) % Fine = o[2] + 1 /\ o[2] + 1 # 0
      BY <1>1, <1>4, <1>7
    <2>2. \A k \in 1..(Coarse + 1) : (x + 1) % NValues[k] # 0
      <3> TAKE k \in 1..(Coarse + 1)
      <3>1. 1 \in 1..k /\ x + 1 \in Int
        BY <1>1
      <3> QED
        BY <1>5, <2>1, <3>1, NoRoundEnds
    <2>3. x + 1 # Period
      <3>1. (x + 1) % Period # 0 /\ Period > 0
        <4>1. (x + 1) % NValues[Coarse + 1] # 0
          BY <1>5, <2>2
        <4> QED
          BY <1>1, <1>3, <1>5, <4>1
      <3>2. Period % Period = 0
        BY <1>1, <3>1
      <3> QED
        BY <3>1, <3>2
    <2>4. Located(After(o), x + 1)
      BY <1>1, <1>2, <1>3, <2>1, <2>3 DEF Located, Closing, SlotOf
    <2>5. Latest(After(o), x + 1) = x + 1 /\ Latest(o, x) = x
      BY <1>1, <1>2, <2>1 DEF Latest, Closing
    <2>6. ASSUME NEW l \in 1..Coarse
          PROVE  /\ f[l] \in 1..LoopCount(l)
                 /\ (LoopCount(l) - f[l]) * NValues[l] <= (x + 1) % NValues[l + 1]
                 /\ (x + 1) % NValues[l + 1] < (LoopCount(l) - f[l] + 1) * NValues[l]
      <3>1. Within(o, l)
        BY DEF Within
      <3>2. /\ f[l] \in 1..LoopCount(l)
            /\ (LoopCount(l) - f[l]) * NValues[l] <= x % NValues[l + 1]
            /\ x % NValues[l + 1] < (LoopCount(l) - f[l] + 1) * NValues[l]
        BY <2>5, <3>1 DEF PositionOf, InLoops
      <3>3. /\ NValues[l] \in Nat /\ NValues[l] > 0 /\ NValues[l + 1] \in Nat /\ NValues[l + 1] > 0
            /\ NValues[l + 1] % NValues[l] = 0 /\ LoopCount(l) \in Nat
        BY Loops
      <3>4. LoopCount(l) - f[l] \in Nat
        BY <3>2, <3>3
      <3>5. (x + 1) % NValues[l] # 0
        BY <1>1, <2>2
      <3> DEFINE j == LoopCount(l) - f[l]
                 d == NValues[l]
                 n == NValues[l + 1]
      <3>6. /\ x \in Int /\ d \in Nat /\ d > 0 /\ n \in Nat /\ n > 0 /\ n % d = 0
            /\ (x + 1) % d # 0 /\ j \in Nat /\ j * d <= x % n /\ x % n < (j + 1) * d
        BY <3>2, <3>3, <3>4, <3>5
      <3> HIDE DEF j, d, n
      <3>7. j * d <= (x + 1) % n /\ (x + 1) % n < (j + 1) * d
        BY <3>6, StaysInPass
      <3> QED
        BY <3>2, <3>7 DEF j, d, n
    <2>7. InLoops(After(o), x + 1, f)
      BY <2>5, <2>6 DEF InLoops
    <2> QED
      BY <1>3, <2>4, <2>7 DEF PositionOf
  <1> QED
    BY <1>6, <1>7

\* A loop is left when, and only when, its round is over.
LEMMA RoundOver ==
  ASSUME NEW o \in Operation, NEW x \in Nat, NEW f \in [1..Coarse -> Nat], PositionOf(o, x, f), o[1] = "do"
  PROVE  /\ o[2] \in 1..Coarse /\ x > 0 /\ x <= Period /\ x % NValues[o[2]] = 0
         /\ f[o[2]] \in 1..LoopCount(o[2])
         /\ f[o[2]] = 1 => x % NValues[o[2] + 1] = 0
         /\ f[o[2]] > 1 => /\ x % NValues[o[2] + 1] = (LoopCount(o[2]) - f[o[2]] + 1) * NValues[o[2]]
                           /\ x % NValues[o[2] + 1] # 0
  <1> DEFINE m == o[2]
             c == LoopCount(m)
             j == c - f[m]
             d == NValues[m]
             n == NValues[m + 1]
  <1>1. m \in 1..Coarse
    BY Instructions
  <1>2. /\ d \in Nat /\ d > 0 /\ n \in Nat /\ n > 0 /\ n % d = 0
        /\ c \in Nat /\ c > 0 /\ c * d = n
    BY <1>1, Loops
  <1>3. Within(o, m) /\ Latest(o, x) = x - 1 /\ Closing(o)
    BY <1>1 DEF Within, Latest, Closing
  <1>4. x > 0 /\ x <= Period /\ x % d = 0
    BY <1>3 DEF PositionOf, Located
  <1>5. /\ f[m] \in 1..c
        /\ j * d <= (x - 1) % n /\ (x - 1) % n < (j + 1) * d
    BY <1>1, <1>3 DEF PositionOf, InLoops
  <1>6. j \in Nat /\ j = c - f[m] /\ f[m] \in Int
    <2>1. PICK g, e : g = f[m] /\ e = c
      OBVIOUS
    <2>2. e \in Nat /\ g \in 1..e
      BY <1>2, <1>5, <2>1
    <2>3. e - g \in Nat /\ g \in Int
      BY <2>2
    <2> QED
      BY <2>1, <2>3
  <1> HIDE DEF m, c, j, d, n
  <1>7. /\ (j + 1) * d = n => x % n = 0
        /\ (j + 1) * d < n => x % n = (j + 1) * d
    <2>1. /\ x \in Nat /\ x > 0 /\ d \in Nat /\ d > 0 /\ n \in Nat /\ n > 0 /\ n % d = 0 /\ x % d = 0
          /\ j \in Nat /\ j * d <= (x - 1) % n /\ (x - 1) % n < (j + 1) * d
      BY <1>2, <1>4, <1>5, <1>6
    <2> QED
      BY <2>1, PassEnds
  <1>8. f[m] = 1 => x % n = 0
    <2>1. f[m] = 1 => j + 1 = c
      BY <1>2, <1>6
    <2> QED
      BY <2>1, <1>2, <1>7
  <1>9. f[m] > 1 => x % n = (j + 1) * d /\ x % n # 0
    <2>1. SUFFICES ASSUME f[m] > 1
                   PROVE  x % n = (j + 1) * d /\ x % n # 0
      OBVIOUS
    <2>2. j + 1 < c /\ j + 1 > 0 /\ j + 1 \in Nat
      BY <2>1, <1>2, <1>6
    <2> DEFINE a == j + 1
    <2>3. a < c /\ a > 0 /\ a \in Nat
      BY <2>2
    <2> HIDE DEF a
    <2>4. a * d < c * d /\ a * d > 0
      BY <2>3, <1>2
    <2>5. (j + 1) * d < n /\ (j + 1) * d > 0
      BY <2>4, <1>2 DEF a
    <2> QED
      BY <2>5, <1>7
  <1> QED
    BY <1>1, <1>2, <1>4, <1>5, <1>8, <1>9 DEF m, c, j, d, n

\* A loop that is left has made up its events.
LEMMA PositionDoOut ==
  ASSUME NEW o \in Operation, NEW x \in Nat, NEW f \in [1..Coarse -> Nat], PositionOf(o, x, f), o[1] = "do",
         ~(f[o[2]] > 1)
  PROVE  PositionOf(After(o), x, f)
  <1>1. Fine \in Nat /\ Fine > 1 /\ Coarse \in Nat
    BY Parameters
  <1>2. o[2] \in 1..Coarse /\ x > 0 /\ x <= Period /\ f[o[2]] \in 1..LoopCount(o[2])
    BY RoundOver
  <1>3. x % NValues[o[2] + 1] = 0
    <2>1. f[o[2]] = 1
      BY <1>2
    <2> QED
      BY <2>1, RoundOver
  <1>4. After(o) = <<"and", Fine + o[2]>>
    BY AfterIs
  <1>5. /\ After(o)[1] = "and" /\ After(o)[2] >= Fine /\ After(o)[2] - Fine + 1 = o[2] + 1
    BY <1>1, <1>2, <1>4
  <1>6. Located(After(o), x)
    <2> DEFINE u == After(o)
    <2>1. u[1] = "and" /\ u[2] >= Fine /\ x % NValues[u[2] - Fine + 1] = 0
      BY <1>3, <1>5
    <2> HIDE DEF u
    <2>2. Located(u, x)
      BY <1>2, <2>1 DEF Located, Closing
    <2> QED
      BY <2>2 DEF u
  <1>7. Latest(After(o), x) = Latest(o, x) /\ \A l \in 1..Coarse : Within(After(o), l) => Within(o, l)
    BY <1>1, <1>2, <1>4 DEF Latest, Closing, Within
  <1> QED
    BY <1>6, <1>7 DEF PositionOf, InLoops

\* A loop that turns back has one pass less to go, and its events begin again.
LEMMA PositionDoBack ==
  ASSUME NEW o \in Operation, NEW x \in Nat, NEW f \in [1..Coarse -> Nat], PositionOf(o, x, f), o[1] = "do",
         f[o[2]] > 1
  PROVE  PositionOf(After(<<"loop", o[2]>>), x, [f EXCEPT ![o[2]] = f[o[2]] - 1])
  <1> DEFINE m == o[2]
             g == [f EXCEPT ![m] = f[m] - 1]
             u == After(<<"loop", m>>)
  <1>1. Fine \in Nat /\ Fine > 1 /\ Coarse \in Nat /\ Period \in Nat
    BY Parameters
  <1>2. /\ m \in 1..Coarse /\ x > 0 /\ x <= Period /\ x % NValues[m] = 0
        /\ f[m] \in 1..LoopCount(m)
        /\ x % NValues[m + 1] = (LoopCount(m) - f[m] + 1) * NValues[m]
        /\ x % NValues[m + 1] # 0
    BY RoundOver
  <1>3. u = IF m = 1 THEN <<"and", 0>> ELSE <<"shot", Coarse - m + 1>>
    BY <1>2, Afters
  <1>4. x % Fine = 0
    <2>1. PICK k \in 1..Coarse : k = m
      BY <1>2
    <2>2. k \in 1..(Coarse + 1) /\ 1 \in 1..k /\ Fine = NValues[1]
      BY <1>1, <2>1, Parameters
    <2>3. x \in Int /\ x % NValues[k] = 0
      BY <1>2, <2>1
    <2> QED
      BY <2>2, <2>3, NoRoundEnds
  <1>5. x < Period
    <2>1. PICK k \in 1..Coarse : k = m
      BY <1>2
    <2>2. Coarse + 1 \in 1..(Coarse + 1) /\ k + 1 \in 1..(Coarse + 1)
      BY <1>1
    <2>3. Period = NValues[Coarse + 1] /\ k + 1 \in 1..(Coarse + 1)
      BY <2>2, Parameters
    <2>4. Period % NValues[k + 1] = 0
      BY <2>2, <2>3, Parameters
    <2>5. x # Period
      BY <1>2, <2>1, <2>4
    <2> QED
      BY <1>1, <1>2, <2>5
  <1>6. Located(u, x)
    <2>1. CASE m = 1
      BY <1>1, <1>3, <1>4, <1>5, <2>1 DEF Located, Closing, SlotOf
    <2>2. CASE m # 1
      <3>1. u = <<"shot", Coarse - m + 1>> /\ Coarse - (Coarse - m + 1) + 1 = m
            /\ Coarse - m + 1 < Coarse
        BY <1>1, <1>2, <1>3, <2>2
      <3> QED
        BY SMTT(30), <1>1, <1>2, <1>4, <1>5, <3>1 DEF Located, Closing, SlotOf
    <2> QED
      BY <2>1, <2>2
  <1>7. Latest(u, x) = x /\ Latest(o, x) = x - 1
    BY <1>1, <1>3 DEF Latest, Closing
  <1>8. ASSUME NEW l \in 1..Coarse, Within(u, l)
        PROVE  /\ g[l] \in 1..LoopCount(l)
               /\ (LoopCount(l) - g[l]) * NValues[l] <= x % NValues[l + 1]
               /\ x % NValues[l + 1] < (LoopCount(l) - g[l] + 1) * NValues[l]
    <2>1. m <= l
      BY <1>1, <1>2, <1>3, <1>8 DEF Within
    <2>2. /\ NValues[l] \in Nat /\ NValues[l] > 0 /\ NValues[l + 1] \in Nat /\ NValues[l + 1] > 0
          /\ NValues[l + 1] % NValues[l] = 0 /\ LoopCount(l) \in Nat
      BY Loops
    <2>3. CASE l = m
      <3> DEFINE j == LoopCount(l) - f[l] + 1
                 d == NValues[l]
      <3>1. g[l] = f[l] - 1 /\ g[l] \in 1..LoopCount(l)
        BY SMTT(30), <1>2, <2>2, <2>3
      <3>2. LoopCount(l) - g[l] = j /\ j \in Nat
        BY SMTT(30), <1>2, <2>2, <2>3, <3>1
      <3>3. x % NValues[l + 1] = j * d
        BY <1>2, <2>3
      <3> HIDE DEF j, d, g
      <3>4. d \in Nat /\ d > 0 /\ j * d < (j + 1) * d /\ j * d <= j * d
        <4>1. d \in Nat /\ d > 0
          BY <2>2 DEF d
        <4>2. (j + 1) * d = j * d + d /\ j * d \in Int
          BY <3>2, <4>1
        <4> QED
          BY <4>1, <4>2
      <3> QED
        BY <3>1, <3>2, <3>3, <3>4 DEF d
    <2>4. CASE l # m
      <3>1. Within(o, l)
        BY <2>1 DEF Within
      <3> DEFINE j == LoopCount(l) - f[l]
                 d == NValues[l]
                 n == NValues[l + 1]
                 a == x - 1
      <3>2. /\ f[l] \in 1..LoopCount(l)
            /\ j * d <= a % n /\ a % n < (j + 1) * d
        BY <3>1, <1>7 DEF PositionOf, InLoops
      <3>3. x % d # 0
        <4>1. l \in 1..(Coarse + 1) /\ m + 1 \in 1..l /\ x \in Int
          BY <1>1, <1>2, <2>1, <2>4
        <4> QED
          BY <1>2, <4>1, NoRoundEnds
      <3>4. a \in Int /\ a + 1 = x /\ j \in Nat /\ g[l] = f[l]
        BY SMTT(30), <1>2, <2>2, <2>4, <3>2
      <3>5. d \in Nat /\ d > 0 /\ n \in Nat /\ n > 0 /\ n % d = 0
        BY <2>2
      <3> HIDE DEF j, d, n, a, g
      <3>6. j * d <= x % n /\ x % n < (j + 1) * d
        BY <3>2, <3>3, <3>4, <3>5, StaysInPass
      <3> QED
        BY <3>2, <3>4, <3>6 DEF j, d, n
    <2> QED
      BY <2>3, <2>4
  <1> HIDE DEF g, u
  <1>9. InLoops(u, x, g)
    BY <1>7, <1>8 DEF InLoops
  <1> QED
    BY <1>6, <1>9 DEF PositionOf, g, u

Position == PositionOf(pc, number, left)

\* The operation, the loops and the number of the event go together in every step.
LEMMA PositionKept ==
  ASSUME TypeOK, running => Position, Next, running'
  PROVE  Position'
  <1> USE DEF Executes, Operand
  <1>1. pc \in Operation /\ left \in [1..Coarse -> Nat] /\ number \in Nat
    BY DEF TypeOK
  <1>2. CASE CFO
    <2>1. Position /\ PositionOf(pc, number, left)
      BY <1>2 DEF CFO, OrSingleShot, OrModeBits, AndModeBits, Loop, DoLoop, Event, Position
    <2>2. CASE OrSingleShot
      BY <1>1, <2>1, <2>2, PositionShot DEF OrSingleShot, Position, history
    <2>3. CASE OrModeBits
      BY <1>1, <2>1, <2>3, PositionOr DEF OrModeBits, Position, history
    <2>4. CASE AndModeBits
      <3>1. CASE pc = Final
        <4>1. pc' = First
          <5>1. Final[1] = "and" /\ Final[2] = Fine + Coarse
            BY DEF Final
          <5>2. After(Final) = First
            BY <1>1, <3>1, <5>1, AfterIs, Parameters
          <5> QED
            BY <2>4, <3>1, <5>2 DEF AndModeBits
        <4> QED
          BY <2>4, <3>1, <4>1, PositionFirst DEF AndModeBits, Position
      <3>2. CASE pc # Final
        BY <1>1, <2>1, <2>4, <3>2, PositionAnd DEF AndModeBits, Position
      <3> QED
        BY <3>1, <3>2
    <2>5. CASE Loop
      BY <1>1, <2>1, <2>5, PositionLoop DEF Loop, Position, history
    <2>6. CASE DoLoop
      <3>1. CASE left[pc[2]] > 1
        <4>1. left' = [left EXCEPT ![pc[2]] = left[pc[2]] - 1] /\ pc' = After(<<"loop", pc[2]>>) /\ number' = number
          BY <2>6, <3>1 DEF DoLoop, history
        <4> QED
          BY <1>1, <2>1, <2>6, <3>1, <4>1, PositionDoBack DEF DoLoop, Position
      <3>2. CASE ~(left[pc[2]] > 1)
        BY <1>1, <2>1, <2>6, <3>2, PositionDoOut DEF DoLoop, Position, history
      <3> QED
        BY <3>1, <3>2
    <2>7. CASE Event
      BY <1>1, <2>1, <2>7, PositionEvent DEF Event, Position
    <2> QED
      BY <1>2, <2>2, <2>3, <2>4, <2>5, <2>6, <2>7 DEF CFO
  <1>3. CASE Stop
    BY <1>3, PositionFirst DEF Stop, Position
  <1>4. ASSUME NEW t \in Team, Start(t)
        PROVE  Position'
    BY <1>4, PositionFirst DEF Start, Position
  <1>5. CASE UNCHANGED <<hardware, number>>
    BY <1>5 DEF hardware, Position
  <1>6. ASSUME NEW t \in Team, Macro(t)
        PROVE  UNCHANGED <<hardware, number>>
    BY <1>6 DEF Macro, WriteWord, StartMerges, StartEnds, JoinSets, JoinEnds, LeaveEnds, ShootArms,
       ShootWaits, ChunkEnds, ShootTimesOut, history
  <1>7. ASSUME NEW t \in Team, JoinStarts(t) \/ LeaveStarts(t) \/ ShootStarts(t)
        PROVE  UNCHANGED <<hardware, number>>
    BY <1>7 DEF JoinStarts, LeaveStarts, ShootStarts
  <1> QED
    BY <1>2, <1>3, <1>4, <1>5, <1>6, <1>7 DEF Next, Operator

-----------------------------------------------------------------------------
(* One bit while the CFO executes one operation                             *)

\* The CFO goes from operation o in event x to operation u in event y.
Turn(o, x, f, u, y) ==
  /\ o[1] \in {"shot", "or", "loop", "and", "event", "do"}
  /\ o[1] = "shot" =>
       /\ o[2] \in OrSlot /\ y = x
       /\ u = IF o[2] < Coarse THEN <<"or", o[2]>> ELSE <<"event", o[2] - Coarse>>
  /\ o[1] = "or" =>
       /\ o[2] \in OrSlot /\ y = x
       /\ u = IF o[2] < Coarse THEN <<"loop", Coarse - o[2]>> ELSE <<"shot", o[2]>>
  /\ o[1] = "loop" =>
       /\ o[2] \in 1..Coarse /\ y = x
       /\ u = IF o[2] = 1 THEN <<"and", 0>> ELSE <<"shot", Coarse - o[2] + 1>>
  /\ o[1] = "and" =>
       /\ o[2] \in AndSlot
       /\ o[2] < Fine => u = <<"or", Coarse + o[2]>> /\ y = x
       /\ o[2] = Fine + Coarse => u = First /\ y = 0
       /\ o[2] >= Fine /\ o[2] < Fine + Coarse => u = <<"do", o[2] - Fine + 1>> /\ y = x
  /\ o[1] = "event" => o[2] \in 0..(Fine - 1) /\ u = <<"and", o[2] + 1>> /\ y = x + 1
  /\ o[1] = "do" =>
       /\ o[2] \in 1..Coarse /\ y = x
       /\ ~(f[o[2]] > 1) => u = <<"and", Fine + o[2]>>
       /\ f[o[2]] > 1 => u = IF o[2] = 1 THEN <<"and", 0>> ELSE <<"shot", Coarse - o[2] + 1>>

\* What operation o makes of bit b of mode register M, with the masks p.
Applied(o, p, M, N, b) ==
  /\ o[1] = "shot" => (b \in N <=> b \in M \/ b \in p.shot[o[2]])
  /\ o[1] = "or"   => (b \in N <=> b \in M \/ b \in p.or[o[2]])
  /\ o[1] = "and"  => (b \in N <=> b \in M /\ b \in p.keep[o[2]])
  /\ o[1] \in {"event", "loop", "do"} => (b \in N <=> b \in M)

NoShot(p, b)   == \A k \in OrSlot : b \notin p.shot[k]
NoOr(p, b)     == \A k \in OrSlot : b \notin p.or[k]
KeepsAll(p, b) == \A i \in AndSlot : b \in p.keep[i]

\* Between the OR of a slot and its event.
Decided(o) == \/ o[1] = "event"
              \/ o[1] = "shot" /\ o[2] >= Coarse

FullMode(o, p, M, b) ==
  b \in M \/ ((\A k \in OrSlot : k >= Coarse => b \in p.or[k]) /\ ~Decided(o))

\* The bit is set at most, and at least, in the slots D.
FineMost(p, b, D) ==
  /\ \A k \in OrSlot : b \in p.or[k] => k >= Coarse /\ k - Coarse \in D
  /\ \A i \in 0..(Fine - 1) : i \notin D => b \notin p.keep[i]
FineLeast(p, b, D) == \A k \in OrSlot : k >= Coarse /\ k - Coarse \in D => b \in p.or[k]
FineExact(o, M, b, D) == Decided(o) /\ SlotOf(o) \in D => b \in M

\* The bit is set at most, and at least, at the start of coarse loop l.
CoarseMost(p, b, l) ==
  /\ \A k \in OrSlot : b \in p.or[k] => k = Coarse - l
  /\ \A i \in 1..(Fine - 1) : b \notin p.keep[i]
CoarseLeast(p, b, l) == b \in p.or[Coarse - l] /\ b \in p.keep[0]

CoarseMode(o, x, M, b, l) ==
  b \in M => o = <<"and", 1>> \/ ((Preamble(o) \/ Slotted(o)) /\ x % NValues[l + 1] = 0)

\* Between the OR before coarse loop l and the first event behind it.
Under(o, l) == \/ Slotted(o)
               \/ o[1] = "and" /\ o[2] = 0
               \/ o[1] = "loop" /\ o[2] <= l
               \/ o[1] \in {"or", "shot"} /\ o[2] > Coarse - l
CoarseExact(o, x, M, b, l) == x % NValues[l + 1] = 0 /\ Under(o, l) => b \in M

\* The bit is set for an event only if it is one of S.
Now(o, x, M, b, S) == Slotted(o) /\ b \in M => x \in S

\* The sizes of the loops are numbers.
LEMMA Sizes == Fine \in Nat /\ Fine > 1 /\ Coarse \in Nat
  BY Parameters

\* Where the program goes, and what its operation does to every bit.
LEMMA Turns ==
  ASSUME TypeOK, CFO
  PROVE  /\ Turn(pc, number, left, pc', number')
         /\ \A b \in Bit : Applied(pc, plan, mode, mode', b)
  <1> USE DEF Executes, Operand, Applied
  <1>1. /\ Fine \in Nat /\ Fine > 1 /\ Coarse \in Nat
        /\ pc \in Operation /\ pc = <<pc[1], pc[2]>> /\ pc[2] \in Nat
    BY Parameters, Instructions DEF TypeOK
  <1>2. pc[1] = "and" /\ pc[2] = Fine + Coarse <=> pc = Final
    BY <1>1 DEF Final
  <1>3. CASE OrSingleShot
    BY <1>1, <1>3, AfterIs, Instructions DEF OrSingleShot, history, Turn
  <1>4. CASE OrModeBits
    BY <1>1, <1>4, AfterIs, Instructions DEF OrModeBits, history, Turn
  <1>5. CASE AndModeBits
    <2>1. pc[2] \in AndSlot /\ (pc[2] < Fine + Coarse \/ pc[2] = Fine + Coarse)
      BY <1>1, <1>5, Instructions DEF AndSlot, AndModeBits
    <2>2. /\ pc' = After(pc) /\ pc[1] = "and"
          /\ number' = IF pc = Final THEN 0 ELSE number
          /\ \A b \in Bit : Applied(pc, plan, mode, mode', b)
      BY <1>5 DEF AndModeBits
    <2> QED
      BY <1>1, <1>2, <2>1, <2>2, AfterIs DEF Turn
  <1>6. CASE Loop
    BY <1>1, <1>6, AfterIs, Instructions DEF Loop, history, Turn
  <1>7. CASE DoLoop
    <2>1. pc[2] \in 1..Coarse /\ pc[1] = "do" /\ number' = number
      BY <1>1, <1>7, Instructions DEF DoLoop, history
    <2>2. After(<<"loop", pc[2]>>) = IF pc[2] = 1 THEN <<"and", 0>> ELSE <<"shot", Coarse - pc[2] + 1>>
      BY <2>1, Afters
    <2>3. After(pc) = <<"and", Fine + pc[2]>>
      BY <1>1, <2>1, AfterIs
    <2>4. \A b \in Bit : Applied(pc, plan, mode, mode', b)
      BY <1>7 DEF DoLoop
    <2>5. Turn(pc, number, left, pc', number')
      BY <1>7, <2>1, <2>2, <2>3 DEF DoLoop, Turn
    <2> QED
      BY <2>4, <2>5
  <1>8. CASE Event
    BY <1>1, <1>8, AfterIs, Instructions DEF Event, Turn
  <1> QED
    BY <1>3, <1>4, <1>5, <1>6, <1>7, <1>8 DEF CFO

\* The first operation stands before all loops.
LEMMA FirstIs ==
  ~Slotted(First) /\ Preamble(First) /\ ~Decided(First) /\ ~Closing(First) /\ \A l \in 1..Coarse : ~Under(First, l)
  <1>1. CASE Coarse = 0
    BY <1>1, Parameters DEF First, Slotted, Preamble, Decided, Closing
  <1>2. CASE Coarse # 0
    BY <1>2, Parameters DEF First, Slotted, Preamble, Decided, Closing, Under
  <1> QED
    BY <1>1, <1>2

\* A bit that is on in all events stays on.
LEMMA FullKept ==
  ASSUME NEW o \in Operation, NEW x, NEW f, NEW u, NEW y, Turn(o, x, f, u, y),
         NEW p, NEW M, NEW N, NEW b, Applied(o, p, M, N, b),
         KeepsAll(p, b), FullMode(o, p, M, b)
  PROVE  FullMode(u, p, N, b)
  <1> USE Sizes DEF Turn, Applied, KeepsAll, FullMode, Decided, First, OrSlot, AndSlot
  <1>1. CASE b \in M
    <2>1. b \in N
      BY <1>1
    <2> QED
      BY <2>1
  <1>2. CASE b \notin M
    <2>1. (\A k \in OrSlot : k >= Coarse => b \in p.or[k]) /\ ~Decided(o)
      BY <1>2
    <2>2. CASE o[1] = "or" /\ o[2] >= Coarse
      BY <2>1, <2>2
    <2>3. CASE ~(o[1] = "or" /\ o[2] >= Coarse)
      <3>1. ~Decided(u)
        BY <2>1, <2>3
      <3> QED
        BY <2>1, <3>1
    <2> QED
      BY <2>2, <2>3
  <1> QED
    BY <1>1, <1>2

\* A bit without any mask stays off.
LEMMA SilentKept ==
  ASSUME NEW o \in Operation, NEW x, NEW f, NEW u, NEW y, Turn(o, x, f, u, y),
         NEW p, NEW M, NEW N, NEW b, Applied(o, p, M, N, b),
         NoShot(p, b), NoOr(p, b), b \notin M
  PROVE  b \notin N
  BY DEF Turn, Applied, NoShot, NoOr

\* The OR of a slot sets the bit before the event of the slot.
LEMMA FineExactKept ==
  ASSUME NEW o \in Operation, NEW x, NEW f, NEW u, NEW y, Turn(o, x, f, u, y),
         NEW p, NEW M, NEW N, NEW b, Applied(o, p, M, N, b),
         NEW D, FineLeast(p, b, D), FineExact(o, M, b, D)
  PROVE  FineExact(u, N, b, D)
  <1> USE Sizes DEF Turn, Applied, FineLeast, FineExact, Decided, SlotOf, First, OrSlot, AndSlot
  <1> SUFFICES ASSUME Decided(u), SlotOf(u) \in D
               PROVE  b \in N
    OBVIOUS
  <1>1. CASE o[1] = "or"
    <2>1. o[2] >= Coarse /\ SlotOf(u) = o[2] - Coarse
      BY <1>1
    <2> QED
      BY <1>1, <2>1
  <1>2. CASE o[1] = "shot"
    <2>1. o[2] >= Coarse /\ SlotOf(u) = SlotOf(o) /\ Decided(o)
      BY <1>2
    <2> QED
      BY <1>2, <2>1
  <1>3. CASE o[1] = "and"
    <2>1. u # First
      BY FirstIs
    <2> QED
      BY <1>3, <2>1
  <1>4. CASE o[1] \in {"event", "loop", "do"}
    BY <1>4
  <1> QED
    BY <1>1, <1>2, <1>3, <1>4

\* The AND of a slot clears the bit, and no OR sets it again, unless the event is one of S.
LEMMA FineNowKept ==
  ASSUME NEW o \in Operation, NEW x \in Nat, NEW f, NEW u, NEW y, Turn(o, x, f, u, y), PositionOf(o, x, f),
         NEW p, NEW M, NEW N, NEW b, Applied(o, p, M, N, b), NoShot(p, b),
         NEW D, FineMost(p, b, D), NEW S, OfSlots(D) \subseteq S, Now(o, x, M, b, S)
  PROVE  Now(u, y, N, b, S)
  <1> USE Sizes DEF Turn, Applied, NoShot, FineMost, Now, Slotted, First, OrSlot, AndSlot
  <1> SUFFICES ASSUME Slotted(u), b \in N
               PROVE  y \in S
    OBVIOUS
  <1>1. ASSUME o[1] \in {"and", "or", "shot"}, ~Closing(o), SlotOf(o) \in D
        PROVE  x \in S
    BY <1>1, Parameters DEF PositionOf, Located, OfSlots, All
  <1>2. CASE o[1] = "and"
    <2>1. o[2] < Fine /\ y = x
      <3>1. u # First
        BY FirstIs DEF Slotted
      <3> QED
        BY <1>2, <3>1
    <2>2. o[2] \in D
      BY <1>2, <2>1
    <2>3. ~Closing(o) /\ SlotOf(o) = o[2]
      BY <1>2, <2>1 DEF Closing, SlotOf
    <2> QED
      BY <1>1, <1>2, <2>1, <2>2, <2>3
  <1>3. CASE o[1] = "or"
    <2>1. o[2] >= Coarse /\ y = x /\ ~Closing(o) /\ SlotOf(o) = o[2] - Coarse
      BY <1>3 DEF Closing, SlotOf
    <2>2. CASE b \in M
      BY <1>3, <2>1, <2>2
    <2>3. CASE b \notin M
      BY <1>1, <1>3, <2>1, <2>3
    <2> QED
      BY <2>2, <2>3
  <1>4. CASE o[1] = "shot"
    <2>1. o[2] >= Coarse /\ y = x /\ b \in M
      BY <1>4
    <2> QED
      BY <1>4, <2>1
  <1>5. CASE o[1] \in {"event", "loop", "do"}
    BY <1>5
  <1> QED
    BY <1>2, <1>3, <1>4, <1>5

\* A multiple of a coarse loop begins the fine loop.
LEMMA CoarseSlot ==
  ASSUME NEW x \in Nat, NEW l \in 1..Coarse, x % NValues[l + 1] = 0
  PROVE  x % Fine = 0
  <1>1. l + 1 \in 1..(Coarse + 1) /\ 1 \in 1..(l + 1) /\ Fine = NValues[1] /\ x \in Int
    BY Parameters
  <1> QED
    BY <1>1, NoRoundEnds

\* A bit that is set before a coarse loop only is on in the first event of its rounds only.
LEMMA CoarseModeKept ==
  ASSUME NEW o \in Operation, NEW x \in Nat, NEW f, NEW u, NEW y, Turn(o, x, f, u, y), PositionOf(o, x, f),
         NEW p, NEW M, NEW N, NEW b, Applied(o, p, M, N, b), NoShot(p, b),
         NEW l \in 1..Coarse, CoarseMost(p, b, l), CoarseMode(o, x, M, b, l)
  PROVE  CoarseMode(u, y, N, b, l)
  <1> USE Sizes DEF Turn, Applied, NoShot, CoarseMost, CoarseMode, Slotted, Preamble, OrSlot, AndSlot
  <1> SUFFICES ASSUME b \in N
               PROVE  u = <<"and", 1>> \/ ((Preamble(u) \/ Slotted(u)) /\ y % NValues[l + 1] = 0)
    OBVIOUS
  <1>1. CASE o[1] = "or"
    <2>1. x % NValues[l + 1] = 0
      <3>1. CASE b \in M
        BY <1>1, <3>1
      <3>2. CASE b \notin M
        <4>1. o[2] = Coarse - l /\ Coarse - o[2] + 1 = l + 1 /\ o[2] < Coarse
          BY <1>1, <3>2
        <4> QED
          BY <1>1, <4>1 DEF PositionOf, Located
      <3> QED
        BY <3>1, <3>2
    <2>2. Preamble(u) \/ Slotted(u)
      BY <1>1
    <2> QED
      BY <1>1, <2>1, <2>2
  <1>2. CASE o[1] = "shot"
    <2>1. b \in M
      BY <1>2
    <2> QED
      BY <1>2, <2>1
  <1>3. CASE o[1] = "and"
    <2>1. b \in M /\ b \in p.keep[o[2]]
      BY <1>3
    <2>2. o[2] = 0
      <3>1. o[2] \notin 1..(Fine - 1)
        BY <2>1
      <3>2. o # <<"and", 1>>
        BY <3>1
      <3> QED
        BY <1>3, <2>1, <3>2
    <2> QED
      BY <1>3, <2>1, <2>2
  <1>4. CASE o[1] = "event"
    <2>1. b \in M /\ x % NValues[l + 1] = 0
      BY <1>4
    <2>2. x % Fine = o[2]
      BY <1>4 DEF PositionOf, Located, Closing, SlotOf
    <2>3. o[2] = 0
      BY <2>1, <2>2, CoarseSlot
    <2> QED
      BY <1>4, <2>3
  <1>5. CASE o[1] = "loop"
    BY <1>5
  <1>6. CASE o[1] = "do"
    BY <1>6
  <1> QED
    BY <1>1, <1>2, <1>3, <1>4, <1>5, <1>6

\* A bit that is on in the first events of a loop only is on in its share only.
LEMMA CoarseNow ==
  ASSUME NEW o \in Operation, NEW x \in Nat, NEW f, PositionOf(o, x, f), NEW M, NEW b, NEW l \in 1..Coarse,
         CoarseMode(o, x, M, b, l), NEW S, OfLevel(l) \subseteq S
  PROVE  Now(o, x, M, b, S)
  <1>1. Slotted(o) => ~Closing(o) /\ o # <<"and", 1>>
    BY Parameters DEF Slotted, Closing
  <1>2. Slotted(o) => x < Period
    BY <1>1 DEF PositionOf, Located
  <1> QED
    BY <1>1, <1>2, Parameters DEF Now, CoarseMode, OfLevel, All

\* Inner loops have a standard value of events each, as outer ones have.
LEMMA InnerRound ==
  ASSUME NEW l \in 1..Coarse, NEW m \in 1..Coarse, m <= l
  PROVE  m + 1 \in 1..(l + 1) /\ l + 1 \in 1..(Coarse + 1)
  BY Sizes

\* A bit that is set before a coarse loop is on in the first event of all its rounds.
LEMMA CoarseExactKept ==
  ASSUME NEW o \in Operation, NEW x \in Nat, NEW f \in [1..Coarse -> Nat], NEW u, NEW y, Turn(o, x, f, u, y),
         PositionOf(o, x, f), NEW p, NEW M, NEW N, NEW b, Applied(o, p, M, N, b),
         NEW l \in 1..Coarse, CoarseLeast(p, b, l), CoarseExact(o, x, M, b, l)
  PROVE  CoarseExact(u, y, N, b, l)
  <1> USE Sizes DEF Turn, Applied, CoarseLeast, CoarseExact, Slotted, Under, OrSlot, AndSlot
  <1> SUFFICES ASSUME y % NValues[l + 1] = 0, Under(u, l)
               PROVE  b \in N
    OBVIOUS
  <1>1. CASE o[1] = "or"
    <2>1. CASE o[2] = Coarse - l
      BY <1>1, <2>1
    <2>2. CASE o[2] # Coarse - l
      <3>1. Under(o, l) /\ y = x
        BY <1>1, <2>2
      <3> QED
        BY <1>1, <3>1
    <2> QED
      BY <2>1, <2>2
  <1>2. CASE o[1] = "shot"
    BY <1>2
  <1>3. CASE o[1] = "loop"
    <2>1. PICK k \in 1..Coarse : k = o[2]
      BY <1>3
    <2>2. y = x /\ u = IF k = 1 THEN <<"and", 0>> ELSE <<"shot", Coarse - k + 1>>
      BY <1>3, <2>1
    <2>3. k <= l
      BY <2>2
    <2>4. Under(o, l)
      BY <1>3, <2>1, <2>3
    <2> QED
      BY <1>3, <2>2, <2>4
  <1>4. CASE o[1] = "and"
    <2>1. CASE o[2] = 0
      BY <1>4, <2>1
    <2>2. CASE o[2] # 0 /\ o[2] < Fine
      <3>1. x % Fine = o[2]
        BY <1>4, <2>2 DEF PositionOf, Located, Closing, SlotOf
      <3>2. y = x /\ x % Fine = 0
        BY <1>4, <2>2, CoarseSlot
      <3> QED
        BY <2>2, <3>1, <3>2
    <2>3. CASE o[2] >= Fine
      <3>1. u # First
        BY FirstIs DEF Under, Slotted
      <3> QED
        BY <1>4, <2>3, <3>1
    <2> QED
      BY <1>4, <2>1, <2>2, <2>3
  <1>5. CASE o[1] = "event"
    BY <1>5
  <1>6. CASE o[1] = "do"
    <2>1. f[o[2]] > 1 /\ o[2] \in 1..Coarse /\ y = x
      BY <1>6
    <2>2. x % NValues[o[2] + 1] # 0
      BY <1>6, <2>1, RoundOver
    <2>3. o[2] <= l
      BY <1>6, <2>1
    <2>4. PICK m \in 1..Coarse : m = o[2]
      BY <2>1
    <2>5. m <= l
      BY <2>3, <2>4
    <2>6. m + 1 \in 1..(l + 1) /\ l + 1 \in 1..(Coarse + 1)
      BY <2>5, InnerRound
    <2>7. x \in Int
      OBVIOUS
    <2> QED
      BY <2>1, <2>2, <2>4, <2>6, <2>7, NoRoundEnds
  <1> QED
    BY <1>1, <1>2, <1>3, <1>4, <1>5, <1>6

\* Nothing is asked of a bit where the program begins.
LEMMA Begun ==
  ASSUME NEW M, NEW b
  PROVE  /\ \A S : Now(First, 0, M, b, S)
         /\ \A D : FineExact(First, M, b, D)
         /\ \A l \in 1..Coarse : CoarseMode(First, 0, M, b, l) /\ CoarseExact(First, 0, M, b, l)
  <1>1. \A l \in 1..Coarse : NValues[l + 1] \in Nat /\ NValues[l + 1] > 0
    BY Loops
  <1>2. \A l \in 1..Coarse : 0 % NValues[l + 1] = 0
    BY <1>1
  <1> QED
    BY <1>2, FirstIs DEF Now, FineExact, CoarseMode, CoarseExact

\* A round of coarse loop l, from the OR before it to the AND behind it, and the events that
\* have passed in the round.
Round(o, l) == \/ o[1] = "shot" /\ o[2] > Coarse - l
               \/ o[1] = "or" /\ o[2] >= Coarse - l
               \/ o[1] = "loop" /\ o[2] <= l
               \/ o[1] = "event"
               \/ o[1] = "and" /\ o[2] <= Fine + l
               \/ o[1] = "do" /\ o[2] <= l
Passed(o, x, l) == (Latest(o, x) % NValues[l + 1]) + IF Closing(o) THEN 1 ELSE 0

\* A round of a loop is entered by the OR_SINGLESHOT before it, with no event behind it.
LEMMA RoundBegins ==
  ASSUME NEW o \in Operation, NEW x \in Nat, NEW f, NEW u, NEW y, Turn(o, x, f, u, y),
         PositionOf(o, x, f), NEW l \in 1..Coarse, ~Round(o, l), Round(u, l)
  PROVE  o = <<"shot", Coarse - l>> /\ u = <<"or", Coarse - l>> /\ Passed(u, y, l) = 0
  <1>1. o[1] = "shot" /\ o[2] = Coarse - l
    <2> USE Sizes DEF Turn, Round, OrSlot, AndSlot
    <2>1. CASE o[1] = "shot"
      BY <2>1
    <2>2. CASE o[1] = "or"
      BY <2>2
    <2>3. CASE o[1] = "loop"
      BY <2>3
    <2>4. CASE o[1] = "and"
      <3>1. ~Round(First, l)
        BY DEF First
      <3> QED
        BY <2>4, <3>1
    <2>5. CASE o[1] = "event"
      BY <2>5
    <2>6. CASE o[1] = "do"
      BY <2>6
    <2> QED
      BY <2>1, <2>2, <2>3, <2>4, <2>5, <2>6
  <1>2. o = <<"shot", Coarse - l>>
    BY <1>1, Instructions
  <1>3. u = <<"or", Coarse - l>> /\ y = x
    BY <1>1, Sizes DEF Turn
  <1>4. x % NValues[l + 1] = 0
    <2>1. o[1] \in {"or", "shot"} /\ o[2] < Coarse /\ Coarse - o[2] + 1 = l + 1
      BY <1>1, Sizes
    <2> QED
      BY <2>1 DEF PositionOf, Located
  <1>5. ~Closing(u)
    BY <1>3 DEF Closing
  <1> QED
    BY <1>2, <1>3, <1>4, <1>5 DEF Passed, Latest

\* No more events are past in a round than the round has.
LEMMA PassedType ==
  ASSUME NEW o, NEW x \in Nat, NEW l \in 1..Coarse
  PROVE  Passed(o, x, l) \in 0..NValues[l + 1]
  <1> DEFINE n == NValues[l + 1]
             a == Latest(o, x)
  <1>1. n \in Nat /\ n > 0
    BY Loops
  <1>2. a \in Int
    BY DEF Latest
  <1> HIDE DEF n, a
  <1>3. a % n \in 0..(n - 1)
    BY <1>1, <1>2, Division
  <1> QED
    BY <1>1, <1>3 DEF Passed, n, a

\* An event of a round is one more that has passed.
LEMMA RoundEvent ==
  ASSUME NEW o \in Operation, NEW x \in Nat, NEW f, NEW u, NEW y, Turn(o, x, f, u, y),
         PositionOf(o, x, f), NEW l \in 1..Coarse, o[1] = "event"
  PROVE  /\ Round(o, l) /\ Round(u, l)
         /\ Passed(u, y, l) = Passed(o, x, l) + 1 /\ Passed(o, x, l) < NValues[l + 1]
  <1> DEFINE n == NValues[l + 1]
             r == x % n
  <1>1. o[2] \in 0..(Fine - 1) /\ u = <<"and", o[2] + 1>> /\ y = x + 1
    BY DEF Turn
  <1>2. Round(o, l) /\ Round(u, l)
    BY <1>1, Sizes DEF Round
  <1>3. n \in Nat /\ n > 0 /\ n % Fine = 0
    <2>1. n \in Nat /\ n > 0
      BY Loops
    <2>2. l + 1 \in 1..(Coarse + 1) /\ 1 \in 1..(l + 1) /\ Fine = NValues[1]
      BY Sizes, Parameters
    <2> QED
      BY <2>1, <2>2, Parameters
  <1>4. x % Fine = o[2] /\ ~Closing(o)
    BY DEF PositionOf, Located, Closing, SlotOf
  <1>5. Passed(o, x, l) = r
    BY <1>3, <1>4, Division DEF Passed, Latest
  <1>6. r \in 0..(n - 1)
    BY <1>3, Division
  <1>7. CASE Closing(u)
    <2>1. Latest(u, y) = x
      BY <1>1, <1>7 DEF Latest
    <2>2. Passed(u, y, l) = r + 1
      BY <1>7, <2>1 DEF Passed
    <2> HIDE DEF n, r
    <2>3. r < n /\ r \in Int
      BY <1>3, <1>6
    <2> QED
      BY <1>2, <1>5, <2>2, <2>3 DEF n
  <1>8. CASE ~Closing(u)
    <2>1. o[2] + 1 < Fine
      BY <1>1, <1>8, Sizes DEF Closing
    <2>2. (x + 1) % Fine # 0
      <3>1. (x + 1) % Fine = IF x % Fine = Fine - 1 THEN 0 ELSE (x % Fine) + 1
        BY Sizes, NextRemainder
      <3> QED
        BY <1>1, <1>4, <2>1, <3>1, Sizes
    <2>3. (x + 1) % n # 0
      <3>1. (x + 1) % n = 0 => (x + 1) % Fine = 0
        BY CoarseSlot
      <3> QED
        BY <2>2, <3>1
    <2>4. (x + 1) % n = r + 1
      <3>1. (x + 1) % n = IF r = n - 1 THEN 0 ELSE r + 1
        BY <1>3, NextRemainder
      <3> QED
        BY <2>3, <3>1
    <2>5. Passed(u, y, l) = (x + 1) % n
      <3>1. (x + 1) % n \in Int
        BY <1>6, <2>4
      <3> QED
        BY <1>1, <1>8, <3>1 DEF Passed, Latest
    <2> HIDE DEF n, r
    <2>6. r < n /\ r \in Int
      BY <1>3, <1>6
    <2> QED
      BY <1>2, <1>5, <2>4, <2>5, <2>6 DEF n
  <1> QED
    BY <1>7, <1>8

\* The AND behind the loop ends the round, when all its events have passed.
LEMMA RoundEnds ==
  ASSUME NEW o \in Operation, NEW x \in Nat, NEW f, PositionOf(o, x, f), NEW l \in 1..Coarse,
         o[1] = "and", o[2] = Fine + l
  PROVE  Passed(o, x, l) = NValues[l + 1]
  <1> DEFINE n == NValues[l + 1]
             r == (x - 1) % n
  <1>1. n \in Nat /\ n > 0
    BY Loops
  <1>2. Closing(o) /\ o[2] >= Fine /\ o[2] - Fine + 1 = l + 1
    BY Sizes DEF Closing
  <1>3. x % n = 0
    BY <1>2 DEF PositionOf, Located
  <1>4. r \in 0..(n - 1) /\ x % n = IF r = n - 1 THEN 0 ELSE r + 1
    <2>1. x - 1 \in Int /\ (x - 1) + 1 = x
      OBVIOUS
    <2> QED
      BY <1>1, <2>1, Division, NextRemainder
  <1>5. Passed(o, x, l) = r + 1
    BY <1>2 DEF Passed, Latest
  <1> HIDE DEF n, r
  <1>6. r + 1 = n
    BY <1>1, <1>3, <1>4
  <1> QED
    BY <1>5, <1>6 DEF n

\* Nothing else changes the events that have passed.
LEMMA RoundKept ==
  ASSUME NEW o \in Operation, NEW x \in Nat, NEW f \in [1..Coarse -> Nat], NEW u, NEW y, Turn(o, x, f, u, y),
         PositionOf(o, x, f), NEW l \in 1..Coarse, Round(o, l), o[1] # "event",
         ~(o[1] = "and" /\ o[2] = Fine + l)
  PROVE  Round(u, l) /\ Passed(u, y, l) = Passed(o, x, l)
  <1>1. Round(u, l) /\ y = x
    <2> USE Sizes DEF Turn, Round, OrSlot, AndSlot
    <2>1. CASE o[1] = "shot"
      BY <2>1
    <2>2. CASE o[1] = "or"
      BY <2>2
    <2>3. CASE o[1] = "loop"
      BY <2>3
    <2>4. CASE o[1] = "and"
      <3>1. o[2] \in AndSlot /\ o[2] <= Fine + l /\ o[2] # Fine + l
        BY <2>4
      <3>2. o[2] < Fine + l /\ o[2] < Fine + Coarse
        <4>1. PICK i \in AndSlot : i = o[2]
          BY <3>1
        <4>2. i \in Int /\ i <= Fine + l /\ i # Fine + l /\ l <= Coarse
          BY <3>1, <4>1
        <4> HIDE DEF Turn, Round, OrSlot, AndSlot
        <4> QED
          BY <4>1, <4>2
      <3> QED
        BY <2>4, <3>1, <3>2
    <2>5. CASE o[1] = "do"
      BY <2>5
    <2> QED
      BY <2>1, <2>2, <2>3, <2>4, <2>5
  <1>2. CASE o[1] = "do" /\ f[o[2]] > 1
    <2>1. o[2] \in 1..Coarse /\ ~Closing(u)
      BY <1>2, Sizes DEF Turn, Closing
    <2>2. o[2] <= l
      BY <1>2 DEF Round
    <2>3. x % NValues[o[2] + 1] # 0
      BY <1>2, RoundOver
    <2>4. x % NValues[l + 1] # 0
      <3>1. o[2] + 1 \in 1..(l + 1) /\ l + 1 \in 1..(Coarse + 1) /\ x \in Int
        BY <2>1, <2>2, InnerRound
      <3> QED
        BY <2>3, <3>1, NoRoundEnds
    <2> DEFINE n == NValues[l + 1]
               r == (x - 1) % n
    <2>5. n \in Nat /\ n > 0
      BY Loops
    <2>6. r \in 0..(n - 1) /\ x % n = IF r = n - 1 THEN 0 ELSE r + 1
      <3>1. PICK a \in Int : a = x - 1
        OBVIOUS
      <3>2. a % n \in 0..(n - 1)
        BY <2>5, Division
      <3>3. (a + 1) % n = IF a % n = n - 1 THEN 0 ELSE (a % n) + 1
        BY <2>5, NextRemainder
      <3>4. a + 1 = x
        BY <3>1
      <3> QED
        BY <3>1, <3>2, <3>3, <3>4
    <2>7. Passed(o, x, l) = r + 1 /\ Passed(u, y, l) = (x % n) + 0
      BY <1>1, <1>2, <2>1 DEF Passed, Latest, Closing
    <2> HIDE DEF n, r
    <2>8. x % n # 0
      BY <2>4 DEF n
    <2> QED
      BY <1>1, <2>6, <2>7, <2>8
  <1>3. CASE ~(o[1] = "do" /\ f[o[2]] > 1)
    <2>1. Closing(u) <=> Closing(o)
      <3> USE Sizes DEF Turn, Closing, OrSlot, AndSlot
      <3>1. CASE o[1] = "shot"
        BY <3>1
      <3>2. CASE o[1] = "or"
        BY <3>2
      <3>3. CASE o[1] = "loop"
        BY <3>3
      <3>4. CASE o[1] = "and"
        <4>1. o[2] \in AndSlot /\ o[2] <= Fine + l /\ o[2] # Fine + l
          BY <3>4 DEF Round
        <4>2. o[2] # Fine + Coarse
          BY <4>1
        <4> QED
          BY <3>4, <4>2
      <3>5. CASE o[1] = "do"
        BY <1>3, <3>5
      <3> QED
        BY <3>1, <3>2, <3>3, <3>4, <3>5 DEF Turn
    <2> QED
      BY <1>1, <2>1 DEF Passed, Latest
  <1> QED
    BY <1>2, <1>3

\* The first members of a finite set of numbers.
FirstOf(S, c) == {i \in S : Cardinality({j \in S : j < i}) < c}

\* As many as are asked for are the first of a set that has enough.
LEMMA FirstMembers ==
  ASSUME NEW S \in SUBSET Nat, IsFiniteSet(S), NEW d \in Nat, d <= Cardinality(S)
  PROVE  Cardinality(FirstOf(S, d)) = d
  <1> DEFINE Below(i) == {j \in S : j < i}
             Rank(i) == Cardinality(Below(i))
             Bad == {c \in 0..d : Cardinality(FirstOf(S, c)) # c}
  <1>1. \A i : IsFiniteSet(Below(i)) /\ Rank(i) \in Nat
    <2>1. \A i : Below(i) \subseteq S
      OBVIOUS
    <2>2. ASSUME NEW i
          PROVE  IsFiniteSet(Below(i)) /\ Rank(i) \in Nat
      <3>1. IsFiniteSet(Below(i))
        BY <2>1, FS_Subset
      <3> QED
        BY <3>1, FS_CardinalityType
    <2> QED
      BY <2>2
  <1>2. FirstOf(S, 0) = {}
    BY <1>1 DEF FirstOf
  <1>3. \A i, k \in S : i < k => Rank(i) < Rank(k)
    <2>1. ASSUME NEW i \in S, NEW k \in S, i < k
          PROVE  Rank(i) < Rank(k)
      <3>1. Below(i) \subseteq Below(k) /\ i \in Below(k) /\ i \notin Below(i)
        <4>1. i \in Nat /\ k \in Nat /\ \A j \in S : j \in Nat
          OBVIOUS
        <4>2. \A j \in S : j < i => j < k
          BY <2>1, <4>1
        <4>3. Below(i) \subseteq Below(k)
          BY <4>2
        <4>4. ~(i < i)
          BY <4>1
        <4> QED
          BY <2>1, <4>3, <4>4
      <3>2. Below(i) # Below(k)
        BY <3>1
      <3> HIDE DEF Below
      <3> QED
        BY <1>1, <3>1, <3>2, FS_Subset
    <2> QED
      BY <2>1
  <1>4. ASSUME Bad # {}
        PROVE  FALSE
    <2>1. PICK c \in Bad : \A y \in Bad : c <= y
      <3>1. Bad \in SUBSET Nat
        OBVIOUS
      <3> QED
        BY <1>4, <3>1, SmallestExists
    <2>2. c \in 0..d /\ Cardinality(FirstOf(S, c)) # c
      BY <2>1
    <2>3. c # 0
      BY <1>2, <2>2, FS_EmptySet
    <2> DEFINE e == c - 1
               F == FirstOf(S, e)
    <2>4. e \in 0..d /\ e \in Nat /\ e + 1 = c /\ e < d
      BY <2>2, <2>3
    <2>5. Cardinality(F) = e
      BY <2>1, <2>4
    <2>6. F \subseteq S /\ IsFiniteSet(F)
      <3>1. F \subseteq S
        BY DEF FirstOf
      <3> QED
        BY <3>1, FS_Subset
    <2>7. S \ F # {}
      <3>1. SUFFICES ASSUME S \ F = {}
                     PROVE  FALSE
        OBVIOUS
      <3>2. S = F
        BY <3>1, <2>6
      <3>3. Cardinality(S) = e
        BY <2>5, <3>2
      <3>4. Cardinality(S) \in Nat
        BY FS_CardinalityType
      <3> QED
        BY <2>4, <3>3, <3>4
    <2>8. PICK i \in S \ F : \A y \in S \ F : i <= y
      <3>1. S \ F \in SUBSET Nat
        OBVIOUS
      <3> QED
        BY <2>7, <3>1, SmallestExists
    <2>9. i \in S /\ i \in Nat /\ ~(Rank(i) < e)
      BY <2>8 DEF FirstOf
    <2>10. Below(i) \subseteq F
      <3>1. \A j \in S : j \in Nat
        OBVIOUS
      <3>2. \A j \in S : j < i => ~(i <= j)
        BY <2>9, <3>1
      <3>3. \A j \in S : j < i => j \in F
        BY <2>8, <3>2
      <3> HIDE DEF F
      <3> QED
        BY <3>3
    <2>11. Rank(i) = e
      <3>1. Rank(i) <= Cardinality(F)
        <4> HIDE DEF Below, F
        <4> QED
          BY <2>6, <2>10, FS_Subset
      <3> QED
        BY <1>1, <2>4, <2>5, <2>9, <3>1
    <2>12. \A k \in S : Rank(k) = e => k = i
      <3>1. \A k \in S : k \in Nat
        OBVIOUS
      <3>2. \A k \in S : k < i => Rank(k) < e
        BY <1>3, <2>9, <2>11
      <3>3. \A k \in S : i < k => e < Rank(k)
        BY <1>3, <2>9, <2>11
      <3>4. \A k \in S : k < i \/ i < k \/ k = i
        BY <3>1, <2>9
      <3> HIDE DEF Rank
      <3>5. \A k \in S : Rank(k) \in Nat
        BY <1>1
      <3> QED
        BY <2>4, <3>2, <3>3, <3>4, <3>5
    <2>13. FirstOf(S, c) = F \cup {i}
      <3>1. \A k \in S : Rank(k) < c <=> Rank(k) < e \/ Rank(k) = e
        <4> HIDE DEF Rank
        <4>1. \A k \in S : Rank(k) \in Nat
          BY <1>1
        <4> QED
          BY <2>4, <4>1
      <3>2. \A k \in S : Rank(k) < c <=> Rank(k) < e \/ k = i
        BY <2>9, <2>11, <2>12, <3>1
      <3> QED
        BY <2>9, <3>2 DEF FirstOf
    <2>14. i \notin F
      BY <2>8
    <2> HIDE DEF F
    <2>15. Cardinality(F \cup {i}) = e + 1
      BY <2>5, <2>6, <2>14, FS_AddElement
    <2> QED
      BY <2>2, <2>4, <2>13, <2>15
  <1> QED
    BY <1>4

\* The masks that a chunk is armed in.
ArmedIn(s, chunk, m, n) == {k \in OrSlot : s \in ChunkShots(s, chunk, m, n)[k]}

\* A fine chunk is armed in as many slots as it has events, a coarse chunk before its loop.
LEMMA ArmedSlots ==
  ASSUME NEW s, NEW chunk, NEW m, NEW n, chunk[2] \in Int, chunk[1] \in Nat
  PROVE  /\ \A k \in OrSlot : ChunkShots(s, chunk, m, n)[k] \subseteq {s}
         /\ chunk[2] \in OrSlot => ArmedIn(s, chunk, m, n) = {chunk[2]}
         /\ chunk[2] < 0 =>
              /\ \A k \in ArmedIn(s, chunk, m, n) : k >= Coarse
              /\ IsFiniteSet(ArmedIn(s, chunk, m, n))
              /\ chunk[1] <= Cardinality(OnFineSlots(m, n)) => Cardinality(ArmedIn(s, chunk, m, n)) = chunk[1]
  <1> DEFINE S == OnFineSlots(m, n)
             F == FirstOf(S, chunk[1])
             armed == {k \in OrSlot : s \in ChunkShots(s, chunk, m, n)[k]}
  <1>1. \A k \in OrSlot : ChunkShots(s, chunk, m, n)[k] =
          IF \/ chunk[2] >= 0 /\ k = chunk[2]
             \/ chunk[2] < 0 /\ k - Coarse \in F
          THEN {s} ELSE {}
    BY DEF ChunkShots, FirstOf
  <1>2. S \subseteq 0..(Fine - 1) /\ IsFiniteSet(S)
    BY SlotsFinite
  <1>3. F \subseteq S /\ IsFiniteSet(F)
    <2>1. F \subseteq S
      BY DEF FirstOf
    <2> QED
      BY <1>2, <2>1, FS_Subset
  <1>4. chunk[2] < 0 => armed = {k \in OrSlot : k - Coarse \in F}
    <2> HIDE DEF F
    <2> QED
      BY <1>1
  <1>5. chunk[2] \in OrSlot => armed = {chunk[2]}
    <2> HIDE DEF F
    <2> QED
      BY <1>1, Sizes DEF OrSlot
  <1>6. \A k \in OrSlot : ChunkShots(s, chunk, m, n)[k] \subseteq {s}
    BY <1>1
  <1>7. ASSUME chunk[2] < 0
        PROVE  /\ \A k \in armed : k >= Coarse
               /\ IsFiniteSet(armed)
               /\ chunk[1] <= Cardinality(S) => Cardinality(armed) = chunk[1]
    <2>1. \A i \in F : i \in 0..(Fine - 1)
      BY <1>2, <1>3
    <2> HIDE DEF F, armed
    <2>2. armed = {k \in OrSlot : k - Coarse \in F}
      BY <1>4, <1>7
    <2>3. \A k \in armed : k \in OrSlot /\ k - Coarse \in F
      BY <2>2
    <2>4. \A k \in armed : k >= Coarse
      BY <2>1, <2>3, Sizes DEF OrSlot
    <2> DEFINE g == [i \in F |-> Coarse + i]
    <2>5. \A i \in F : Coarse + i \in OrSlot /\ (Coarse + i) - Coarse = i
      BY <2>1, Sizes DEF OrSlot
    <2>6. g \in Bijection(F, armed)
      <3>1. \A i \in F : g[i] \in armed
        BY <2>2, <2>5
      <3>2. \A i, k \in F : g[i] = g[k] => i = k
        BY <2>1, Sizes
      <3>3. \A k \in armed : \E i \in F : g[i] = k
        <4>1. ASSUME NEW k \in armed
              PROVE  \E i \in F : g[i] = k
          <5>1. k - Coarse \in F /\ k \in OrSlot
            BY <2>3
          <5>2. Coarse + (k - Coarse) = k
            BY <5>1, Sizes DEF OrSlot
          <5> QED
            BY <5>1, <5>2
        <4> QED
          BY <4>1
      <3>4. g \in [F -> armed]
        BY <3>1
      <3> HIDE DEF g
      <3>5. g \in Injection(F, armed) /\ g \in Surjection(F, armed)
        BY <3>2, <3>3, <3>4, Fun_IsInj, Fun_IsSurj
      <3> QED
        BY <3>5 DEF Bijection
    <2>7. IsFiniteSet(armed) /\ Cardinality(armed) = Cardinality(F)
      BY <1>3, <2>6, FS_Bijection DEF ExistsBijection
    <2>8. chunk[1] <= Cardinality(S) => Cardinality(F) = chunk[1]
      <3>1. S \in SUBSET Nat
        BY <1>2
      <3> HIDE DEF S
      <3> QED
        BY <1>2, <3>1, FirstMembers DEF F
    <2> QED
      BY <2>4, <2>7, <2>8
  <1> QED
    BY <1>5, <1>6, <1>7 DEF ArmedIn

-----------------------------------------------------------------------------
(* The inductive invariant                                                  *)

\* What the words of a subsystem amount to that no macro works on: always on, off, on in
\* fine slots, or on at the start of a coarse loop.
FullShape(b)   == share[b] = All /\ KeepsAll(plan, b) /\ FullMode(pc, plan, mode, b)
SilentShape(b) == share[b] = {} /\ NoOr(plan, b) /\ b \notin mode

\* A bit that is on only where its last macros asked for it.  Start gives no such promise for
\* the bit that it adds, until that has settled.
Steady(b) == b \in Subsystem \cup settled

FineIn(b, D) ==
  /\ share[b] = OfSlots(D)
  /\ FineMost(plan, b, D) /\ FineLeast(plan, b, D)
  /\ b \in settled => FineExact(pc, mode, b, D)
FineShape(b) == \E D \in SUBSET (0..(Fine - 1)) : FineIn(b, D)

CoarseIn(b, l) ==
  /\ share[b] = OfLevel(l)
  /\ CoarseMost(plan, b, l) /\ CoarseLeast(plan, b, l)
  /\ Steady(b) => CoarseMode(pc, number, mode, b, l)
  /\ b \in settled => CoarseExact(pc, number, mode, b, l)
CoarseShape(b) == \E l \in 1..Coarse : CoarseIn(b, l)

NowOK(b) == Now(pc, number, mode, b, share[b] \cup asked[b])

Resting(b) ==
  /\ FullShape(b) \/ SilentShape(b) \/ FineShape(b) \/ CoarseShape(b)
  /\ NoShot(plan, b) /\ due[b] = 0
  /\ Steady(b) => NowOK(b)

Fresh(b) == KeepsAll(plan, b) /\ (share[b] = {} => NoOr(plan, b) /\ b \notin mode)

\* What a macro has written of its target, and the other bits, as it read them at its start.
Copied(o) ==
  \A u \in Mask : u[1] # "shot" /\ (Place(u) < o.at \/ o.step = "wait") => Word(plan, u) = Word(o.target, u)
Merges(o) ==
  /\ o.sub \notin fresh \cup settled /\ share[o.sub] = {}
  /\ \A b \in Bit \ {o.sub} : /\ \A i \in AndSlot : b \in o.keep[i] <=> b \in plan.keep[i]
                              /\ \A k \in OrSlot : b \in o.or[k] <=> b \in plan.or[k]
  /\ Copied(o)

StartOK(o) ==
  /\ fresh = Subsystem
  /\ \A b \in Subsystem : FullShape(b) \/ SilentShape(b)
  /\ NoShot(plan, Inject) /\ due[Inject] = 0
  /\ \E r \in Resolved(InjectRatio[1], InjectRatio[2]) :
       o.target = InjectPlan(r) /\ share[Inject] = Share(r[1], r[2], 0)
  /\ o.step = "wait" => o.at = 0
  /\ o.step = "set" => (\A b \in Subsystem : share[b] = {} \/ b \in mode) /\ Copied(o)

\* A bit whose shots are off, and its masks those of the slots D or of the coarse loop l.
JoinOK(o) ==
  LET s == o.sub IN
  /\ NoShot(plan, s) /\ due[s] = 0 /\ NowOK(s)
  /\ Share(o.m, o.n, o.offset) \subseteq asked[s]
  /\ \A k \in OrSlot : s \notin o.or[k]
  /\ o.n > Fine => s \in o.keep[0]
  /\ o.step = "prepare" => /\ NoOr(plan, s)
                           /\ s \in mode => o.n <= Fine /\ \A i \in 0..(Fine - 1) : s \notin plan.keep[i] \cup o.keep[i]
  /\ o.step = "set" =>
       /\ o.n <= Fine => FineMost(plan, s, FineOf(o.m, o.n, o.offset))
       /\ \A l \in 1..Coarse : o.n = NValues[l + 1] =>
            CoarseMost(plan, s, l) /\ CoarseMode(pc, number, mode, s, l)

\* Where a bit that leaves may still be on.
Fading(b) ==
  \/ share[b] \cup asked[b] = All
  \/ NoOr(plan, b) /\ b \notin mode
  \/ \E D \in SUBSET (0..(Fine - 1)) : OfSlots(D) \subseteq asked[b] /\ FineMost(plan, b, D)
  \/ \E l \in 1..Coarse : /\ OfLevel(l) \subseteq asked[b]
                          /\ CoarseMost(plan, b, l) /\ CoarseMode(pc, number, mode, b, l)
LeaveOK(o) == NoShot(plan, o.sub) /\ due[o.sub] = 0 /\ NowOK(o.sub) /\ Fading(o.sub)

\* The slots in which a single shot is armed, or still to be armed.
Pending(o) ==
  {k \in OrSlot : \/ o.sub \in plan.shot[k]
                  \/ o.step = "set" /\ Place(<<"shot", k>>) >= o.at /\ o.sub \in o.target.shot[k]}

\* A chunk in fine slots: what is armed, and what is about to be an event, still has to come.
FineShot(o) ==
  LET s == o.sub IN
  /\ \A i \in AndSlot : s \notin plan.keep[i]
  /\ IsFiniteSet(Pending(o)) /\ \A k \in Pending(o) : k >= Coarse
  /\ s \in mode => pc[1] = "event" \/ (pc[1] = "and" /\ pc[2] > 0)
  /\ due[s] = (o.remaining - ChunkOf(o)[1]) + Cardinality(Pending(o))
              + IF s \in mode /\ pc[1] = "event" THEN 1 ELSE 0

\* The operation that comes with INC_TAG.
Waiting(o) == o[1] = "and" /\ o[2] \in 1..Fine

\* The event whose WAIT the CFO is in: it has begun, and its tag still has to come.
InTag(o) == IF Waiting(o) THEN 1 ELSE 0

\* A chunk before coarse loop l: the whole loop, or what is left of its round.
CoarseShot(o, l) ==
  LET s == o.sub
      n == NValues[l + 1]
  IN
  /\ \A i \in AndSlot : s \in plan.keep[i] <=> i # Fine + l
  /\ Pending(o) \subseteq {Coarse - l}
  /\ s \in mode => Round(pc, l) /\ Pending(o) = {}
  /\ due[s] = (o.remaining - n) + IF Pending(o) # {} THEN n
                                  ELSE IF s \in mode THEN n - Passed(pc, number, l) ELSE 0
  /\ o.step = "wait" /\ Pending(o) # {} =>
       o.waited + InTag(pc) <= IF Round(pc, l) THEN Passed(pc, number, l) ELSE n
  /\ o.step = "wait" /\ s \in mode => o.waited + InTag(pc) <= n + Passed(pc, number, l)

ShootOK(o) ==
  LET s == o.sub
      k == ChunkOf(o)[2]
  IN
  /\ asked[s] = {} /\ NoOr(plan, s) /\ \A j \in OrSlot : s \notin o.or[j]
  /\ o.step = "prepare" =>
       /\ NoShot(plan, s) /\ due[s] = o.remaining
       /\ s \in mode => k < 0 /\ pc[1] = "and" /\ pc[2] > 0 /\ \A i \in AndSlot : s \notin plan.keep[i]
  /\ o.step \in {"set", "wait"} =>
       /\ \A j \in OrSlot : s \in plan.shot[j] =>
            s \in o.target.shot[j] /\ (o.step = "set" => Place(<<"shot", j>>) < o.at)
       /\ k < 0 => FineShot(o)
       /\ k >= 0 => CoarseShot(o, LevelOf(k))

MacroOK(o) ==
  /\ o.kind = "start" => StartOK(o)
  /\ o.kind \in {"join", "leave", "shoot"} => Merges(o)
  /\ o.kind = "join" => JoinOK(o)
  /\ o.kind = "leave" => LeaveOK(o)
  /\ o.kind = "shoot" => ShootOK(o)

Runs ==
  /\ Position
  /\ \A b \in Bit \ InWork : Resting(b)
  /\ \A b \in fresh : b \notin InWork /\ Fresh(b)
  /\ \A t \in Team : MacroOK(op[t])

Settled == \A b \in settled : b \notin InWork /\ asked[b] = {} /\ due[b] = 0

RunPlanInv == TypeOK /\ Macros /\ Settled /\ (running => Runs)

-----------------------------------------------------------------------------
(* One team                                                                 *)

OneTeam == \A t, u \in Team : t = u
WorkOf(o) == {o.sub} \cup (IF o.kind = "start" THEN {Inject} ELSE {})

\* With one team, the bits in work are those of its macro.
LEMMA WorkIs ==
  ASSUME OneTeam, NEW t \in Team
  PROVE  InWork = WorkOf(op[t])
  BY DEF OneTeam, InWork, WorkOf

-----------------------------------------------------------------------------
(* A step of the CFO                                                        *)

SameMacro(o, u) ==
  /\ u.kind = o.kind /\ u.step = o.step /\ u.sub = o.sub /\ u.m = o.m /\ u.n = o.n /\ u.offset = o.offset
  /\ u.keep = o.keep /\ u.or = o.or /\ u.remaining = o.remaining /\ u.at = o.at /\ u.target = o.target

\* What the CFO leaves alone: all masks but the one of an OR_SINGLESHOT, and the macros.
LEMMA CFOFrame ==
  ASSUME TypeOK, CFO
  PROVE  /\ running /\ share' = share /\ fresh' = fresh
         /\ plan'.keep = plan.keep /\ plan'.or = plan.or
         /\ \A k \in OrSlot : plan'.shot[k] = IF pc[1] = "shot" /\ pc[2] = k THEN {} ELSE plan.shot[k]
         /\ \A t \in Team : SameMacro(op[t], op'[t])
         /\ pc = Final => /\ pc' = First /\ number' = 0
                          /\ settled' = settled \cup (Bit \ InWork)
                          /\ asked' = [b \in Bit |-> IF b \in InWork THEN asked[b] ELSE {}]
         /\ pc # Final => settled' = settled /\ asked' = asked
         /\ pc[1] # "event" => due' = due
         /\ pc[1] = "event" => \A b \in Bit : due'[b] =
                                 IF b \in mode /\ number \notin share[b] \cup asked[b] /\ due[b] > 0
                                 THEN due[b] - 1 ELSE due[b]
         /\ ~Waiting(pc) => op' = op
         /\ Waiting(pc) => IncTag
  <1> USE DEF Executes, Operand
  <1>1. /\ plan = [keep |-> plan.keep, or |-> plan.or, shot |-> plan.shot]
        /\ plan.shot \in [OrSlot -> SUBSET Bit]
    BY PlanIs DEF TypeOK
  <1>2. /\ \A t \in Team : op[t] \in OpRecord
        /\ op' = op => \A t \in Team : SameMacro(op[t], op'[t])
    BY DEF TypeOK, SameMacro
  <1>3. Final[1] = "and" /\ (Waiting(pc) => pc[1] = "and")
    BY DEF Final, Waiting
  <1>4. CASE OrSingleShot
    <2>1. /\ pc[1] = "shot" /\ running /\ op' = op
          /\ plan' = [plan EXCEPT !.shot[pc[2]] = {}]
          /\ UNCHANGED history
      BY <1>4 DEF OrSingleShot
    <2>2. plan'.keep = plan.keep /\ plan'.or = plan.or /\ plan'.shot = [plan.shot EXCEPT ![pc[2]] = {}]
      <3> DEFINE z == plan.shot
                 k == plan.keep
                 r == plan.or
      <3>1. plan = [keep |-> k, or |-> r, shot |-> z]
        BY <1>1
      <3>2. plan' = [plan EXCEPT !.shot = [z EXCEPT ![pc[2]] = {}]]
        BY <2>1
      <3> HIDE DEF z, k, r
      <3>3. plan' = [keep |-> k, or |-> r, shot |-> [z EXCEPT ![pc[2]] = {}]]
        BY <3>1, <3>2
      <3>4. plan'.keep = k /\ plan'.or = r /\ plan'.shot = [z EXCEPT ![pc[2]] = {}]
        BY <3>3
      <3> QED
        BY <3>4 DEF z, k, r
    <2>3. \A k \in OrSlot : plan'.shot[k] = IF pc[2] = k THEN {} ELSE plan.shot[k]
      BY <1>1, <2>2
    <2> QED
      BY <1>2, <1>3, <2>1, <2>2, <2>3 DEF history
  <1>5. CASE OrModeBits
    BY <1>2, <1>3, <1>5 DEF OrModeBits, history
  <1>6. CASE AndModeBits
    <2>1. pc = Final => pc' = First
      BY <1>6, AfterIs, Sizes DEF AndModeBits, Final, TypeOK
    <2>2. ~Waiting(pc) => op' = op
      BY <1>6 DEF AndModeBits, InWait, Waiting
    <2>3. Waiting(pc) => IncTag
      BY <1>6 DEF AndModeBits, InWait, Waiting
    <2>4. \A t \in Team : SameMacro(op[t], op'[t])
      <3>1. CASE IncTag
        <4>1. ASSUME NEW t \in Team, NEW o \in OpRecord, o = op[t]
              PROVE  SameMacro(o, op'[t])
          <5>1. op'[t] = IF o.step = "wait" /\ o.kind = "shoot"
                         THEN [o EXCEPT !.waited = Counted(o)] ELSE o
            BY <3>1, <4>1, IncTagType DEF TypeOK
          <5> QED
            BY <4>1, <5>1, OpRecordIs DEF SameMacro
        <4> QED
          BY <1>2, <4>1
      <3> QED
        BY <1>2, <2>2, <2>3, <3>1
    <2>5. /\ running /\ share' = share /\ fresh' = fresh /\ plan' = plan /\ due' = due
          /\ pc = Final => number' = 0 /\ settled' = settled \cup (Bit \ InWork)
                           /\ asked' = [b \in Bit |-> IF b \in InWork THEN asked[b] ELSE {}]
          /\ pc # Final => settled' = settled /\ asked' = asked
          /\ pc[1] = "and"
      BY <1>6 DEF AndModeBits
    <2> QED
      BY <2>1, <2>2, <2>3, <2>4, <2>5
  <1>7. CASE Loop
    BY <1>2, <1>3, <1>7 DEF Loop, history
  <1>8. CASE DoLoop
    BY <1>2, <1>3, <1>8 DEF DoLoop, history
  <1>9. CASE Event
    <2>1. op' = op
      BY <1>9 DEF Event
    <2> QED
      BY <1>2, <1>3, <1>9, <2>1 DEF Event, TypeOK
  <1> QED
    BY <1>4, <1>5, <1>6, <1>7, <1>8, <1>9 DEF CFO

\* Macros that keep their subsystems keep the bits in work.
LEMMA SameWork ==
  ASSUME \A t \in Team : SameMacro(op[t], op'[t])
  PROVE  InWork' = InWork
  BY DEF SameMacro, InWork

\* Only settled subsystems are asked for nothing but their share; what newly settles does so
\* where the program begins.
LEMMA Settles ==
  ASSUME TypeOK, CFO, NEW b \in Bit, b \notin InWork
  PROVE  /\ b \in settled' => b \in settled \/ pc = Final
         /\ b \in settled => b \in settled'
         /\ pc # Final => asked'[b] = asked[b]
         /\ pc = Final => asked'[b] = {}
  BY CFOFrame

\* The CFO keeps the shape of what no macro works on.
LEMMA ShapeTurns ==
  ASSUME TypeOK, Position, CFO, NEW b \in Bit, b \notin InWork, Resting(b)
  PROVE  FullShape(b)' \/ SilentShape(b)' \/ FineShape(b)' \/ CoarseShape(b)'
  <1>1. /\ pc \in Operation /\ number \in Nat /\ left \in [1..Coarse -> Nat]
        /\ PositionOf(pc, number, left)
        /\ Turn(pc, number, left, pc', number') /\ Applied(pc, plan, mode, mode', b)
    BY Turns DEF TypeOK, Position
  <1>2. /\ share'[b] = share[b] /\ plan'.keep = plan.keep /\ plan'.or = plan.or
        /\ pc = Final => pc' = First /\ number' = 0
    BY CFOFrame
  <1>3. NoShot(plan, b)
    BY DEF Resting
  <1>4. CASE FullShape(b)
    <2>1. FullMode(pc', plan, mode', b)
      BY <1>1, <1>4, FullKept DEF FullShape
    <2> QED
      BY <1>2, <1>4, <2>1 DEF FullShape, KeepsAll, FullMode
  <1>5. CASE SilentShape(b)
    <2>1. b \notin mode'
      BY <1>1, <1>3, <1>5, SilentKept DEF SilentShape
    <2> QED
      BY <1>2, <1>5, <2>1 DEF SilentShape, NoOr
  <1>6. CASE FineShape(b)
    <2>1. PICK D \in SUBSET (0..(Fine - 1)) : FineIn(b, D)
      BY <1>6 DEF FineShape
    <2>2. share[b] = OfSlots(D) /\ FineMost(plan, b, D) /\ FineLeast(plan, b, D)
      BY <2>1 DEF FineIn
    <2>3. ASSUME b \in settled'
          PROVE  FineExact(pc', mode', b, D)
      <3>1. CASE pc = Final
        BY <1>2, <3>1, Begun
      <3>2. CASE pc # Final
        <4>1. FineExact(pc, mode, b, D)
          BY <2>1, <2>3, <3>2, Settles DEF FineIn
        <4> QED
          BY <1>1, <2>2, <4>1, FineExactKept
      <3> QED
        BY <3>1, <3>2
    <2>4. FineMost(plan', b, D) /\ FineLeast(plan', b, D)
      BY <1>2, <2>2 DEF FineMost, FineLeast
    <2>5. FineIn(b, D)'
      BY <1>2, <2>2, <2>3, <2>4 DEF FineIn
    <2> QED
      BY <2>5 DEF FineShape
  <1>7. CASE CoarseShape(b)
    <2>1. PICK l \in 1..Coarse : CoarseIn(b, l)
      BY <1>7 DEF CoarseShape
    <2>2. share[b] = OfLevel(l) /\ CoarseMost(plan, b, l) /\ CoarseLeast(plan, b, l)
      BY <2>1 DEF CoarseIn
    <2>3. ASSUME b \in settled'
          PROVE  CoarseExact(pc', number', mode', b, l)
      <3>1. CASE pc = Final
        BY <1>2, <3>1, Begun
      <3>2. CASE pc # Final
        <4>1. CoarseExact(pc, number, mode, b, l)
          BY <2>1, <2>3, <3>2, Settles DEF CoarseIn
        <4> QED
          BY <1>1, <2>2, <4>1, CoarseExactKept
      <3> QED
        BY <3>1, <3>2
    <2>4. ASSUME Steady(b)'
          PROVE  CoarseMode(pc', number', mode', b, l)
      <3>1. CASE pc = Final
        BY <1>2, <3>1, Begun
      <3>2. CASE pc # Final
        <4>1. Steady(b)
          BY <2>4, <3>2, Settles DEF Steady
        <4>2. CoarseMode(pc, number, mode, b, l)
          BY <2>1, <4>1 DEF CoarseIn
        <4> QED
          BY <1>1, <1>3, <2>2, <4>2, CoarseModeKept
      <3> QED
        BY <3>1, <3>2
    <2>5. CoarseMost(plan', b, l) /\ CoarseLeast(plan', b, l)
      BY <1>2, <2>2 DEF CoarseMost, CoarseLeast
    <2>6. CoarseIn(b, l)'
      BY <1>2, <2>2, <2>3, <2>4, <2>5 DEF CoarseIn
    <2> QED
      BY <2>6 DEF CoarseShape
  <1> QED
    BY <1>4, <1>5, <1>6, <1>7 DEF Resting

\* A bit is on where it was asked for, whatever its shape.
LEMMA NowTurns ==
  ASSUME TypeOK, Position, Position', CFO, NEW b \in Bit, b \notin InWork, Resting(b), Steady(b)'
  PROVE  NowOK(b)'
  <1>1. /\ pc \in Operation /\ number \in Nat /\ left \in [1..Coarse -> Nat]
        /\ PositionOf(pc, number, left) /\ PositionOf(pc', number', left')
        /\ Turn(pc, number, left, pc', number') /\ Applied(pc, plan, mode, mode', b)
        /\ number' \in Nat /\ pc' \in Operation
    <2>1. /\ pc \in Operation /\ number \in Nat /\ left \in [1..Coarse -> Nat]
          /\ Turn(pc, number, left, pc', number') /\ Applied(pc, plan, mode, mode', b)
      BY Turns DEF TypeOK
    <2>2. number' \in Nat /\ pc' \in Operation
      BY CFOType DEF TypeOK
    <2> QED
      BY <2>1, <2>2 DEF Position
  <1>2. CASE pc = Final
    <2>1. pc' = First /\ number' = 0
      BY <1>2, CFOFrame
    <2> QED
      BY <2>1, Begun DEF NowOK
  <1>3. CASE pc # Final
    <2> DEFINE S == share[b] \cup asked[b]
    <2>1. share'[b] = share[b] /\ asked'[b] = asked[b] /\ Steady(b)
      BY <1>3, CFOFrame, Settles DEF Steady
    <2>2. Now(pc, number, mode, b, S) /\ NoShot(plan, b)
      BY <2>1 DEF Resting, NowOK
    <2>3. Now(pc', number', mode', b, S)
      <3>1. CASE FullShape(b)
        <4>1. Slotted(pc') => number' \in 0..(Period - 1)
          <5>1. Slotted(pc') => ~Closing(pc')
            BY Sizes DEF Slotted, Closing
          <5>2. Slotted(pc') => number' < Period
            BY <1>1, <5>1 DEF PositionOf, Located
          <5> QED
            BY <1>1, <5>2, Parameters
        <4> QED
          BY <3>1, <4>1 DEF Now, FullShape, All
      <3>2. CASE SilentShape(b)
        <4>1. b \notin mode'
          BY <1>1, <2>2, <3>2, SilentKept DEF SilentShape
        <4> QED
          BY <4>1 DEF Now
      <3>3. CASE FineShape(b)
        <4>1. PICK D \in SUBSET (0..(Fine - 1)) : FineIn(b, D)
          BY <3>3 DEF FineShape
        <4>2. FineMost(plan, b, D) /\ OfSlots(D) \subseteq S
          BY <4>1 DEF FineIn
        <4> HIDE DEF S
        <4> QED
          BY <1>1, <2>2, <4>2, FineNowKept
      <3>4. CASE CoarseShape(b)
        <4>1. PICK l \in 1..Coarse : CoarseIn(b, l)
          BY <3>4 DEF CoarseShape
        <4>2. CoarseMost(plan, b, l) /\ OfLevel(l) \subseteq S /\ CoarseMode(pc, number, mode, b, l)
          BY <2>1, <4>1 DEF CoarseIn
        <4>3. CoarseMode(pc', number', mode', b, l)
          BY <1>1, <2>2, <4>2, CoarseModeKept
        <4> HIDE DEF S
        <4> QED
          BY <1>1, <4>2, <4>3, CoarseNow
      <3> QED
        BY <3>1, <3>2, <3>3, <3>4 DEF Resting
    <2> QED
      BY <2>1, <2>3 DEF NowOK
  <1> QED
    BY <1>2, <1>3

\* The CFO leaves every bit resting that no macro works on: the step of the induction over the
\* program, whatever shape the words of the bit have.
LEMMA RestingTurns ==
  ASSUME TypeOK, Position, Position', CFO, NEW b \in Bit, b \notin InWork, Resting(b)
  PROVE  Resting(b)'
  <1>1. NoShot(plan, b)'
    BY CFOFrame DEF Resting, NoShot
  <1>2. due'[b] = 0
    BY CFOFrame DEF Resting
  <1> QED
    BY <1>1, <1>2, ShapeTurns, NowTurns DEF Resting

\* What a step of the CFO is to a bit: its masks stay, the history of one in work too.
BitTurns(b) ==
  /\ pc \in Operation /\ number \in Nat /\ left \in [1..Coarse -> Nat]
  /\ pc' \in Operation /\ number' \in Nat
  /\ PositionOf(pc, number, left) /\ PositionOf(pc', number', left')
  /\ Turn(pc, number, left, pc', number') /\ Applied(pc, plan, mode, mode', b)
  /\ plan'.keep = plan.keep /\ plan'.or = plan.or
  /\ share'[b] = share[b]
  /\ b \in InWork => asked'[b] = asked[b]

\* What a step of the CFO does to one bit.
LEMMA EveryBitTurns ==
  ASSUME TypeOK, Position, Position', CFO, NEW b \in Bit
  PROVE  BitTurns(b)
  <1>1. b \in InWork => asked'[b] = asked[b]
    BY CFOFrame
  <1> QED
    BY <1>1, Turns, CFOFrame, CFOType DEF BitTurns, TypeOK, Position

\* A bit that is always on stays so.
LEMMA FullTurns ==
  ASSUME NEW b \in Bit, BitTurns(b), FullShape(b)
  PROVE  FullShape(b)' /\ (b \in mode => b \in mode')
  <1>1. FullMode(pc', plan, mode', b)
    BY FullKept DEF BitTurns, FullShape
  <1>2. b \in mode => b \in mode'
    BY DEF BitTurns, FullShape, KeepsAll, Applied, Turn
  <1> QED
    BY <1>1, <1>2 DEF BitTurns, FullShape, KeepsAll, FullMode

\* A bit that is off, set by no OR and armed by no shot, stays off.
LEMMA SilentTurns ==
  ASSUME NEW b \in Bit, BitTurns(b), NoShot(plan, b), NoOr(plan, b), b \notin mode
  PROVE  NoOr(plan, b)' /\ b \notin mode'
  <1>1. b \notin mode'
    BY SilentKept DEF BitTurns
  <1> QED
    BY <1>1 DEF BitTurns, NoOr

\* A bit that the slots D set at most is on where it was asked for.
LEMMA FineTurns ==
  ASSUME NEW b \in Bit, b \in InWork, BitTurns(b), NoShot(plan, b), NowOK(b),
         NEW D, FineMost(plan, b, D), OfSlots(D) \subseteq share[b] \cup asked[b]
  PROVE  NowOK(b)' /\ FineMost(plan, b, D)'
  <1> DEFINE S == share[b] \cup asked[b]
  <1>1. Now(pc, number, mode, b, S) /\ share'[b] \cup asked'[b] = S
    BY DEF NowOK, BitTurns
  <1> HIDE DEF S
  <1>2. Now(pc', number', mode', b, S)
    BY <1>1, FineNowKept DEF BitTurns, S
  <1> QED
    BY <1>1, <1>2 DEF NowOK, BitTurns, FineMost

\* A bit in work that is set before a coarse loop stays on in events of that loop's share only.
LEMMA CoarseTurns ==
  ASSUME NEW b \in Bit, b \in InWork, BitTurns(b), NoShot(plan, b), NEW l \in 1..Coarse,
         CoarseMost(plan, b, l), CoarseMode(pc, number, mode, b, l)
  PROVE  /\ CoarseMost(plan, b, l)' /\ CoarseMode(pc, number, mode, b, l)'
         /\ OfLevel(l) \subseteq share[b] \cup asked[b] => NowOK(b)'
  <1> DEFINE S == share[b] \cup asked[b]
  <1>1. CoarseMode(pc', number', mode', b, l)
    BY CoarseModeKept DEF BitTurns
  <1>2. share'[b] \cup asked'[b] = S
    BY DEF BitTurns
  <1> HIDE DEF S
  <1>3. OfLevel(l) \subseteq S => Now(pc', number', mode', b, S)
    BY <1>1, CoarseNow DEF BitTurns
  <1> QED
    BY <1>1, <1>2, <1>3 DEF NowOK, BitTurns, CoarseMost, S

\* A bit that is asked for in all events is never on without need.
LEMMA FullNow ==
  ASSUME Position, pc \in Operation, number \in Nat, NEW b, share[b] \cup asked[b] = All
  PROVE  NowOK(b)
  <1>1. Slotted(pc) => ~Closing(pc)
    BY Sizes DEF Slotted, Closing
  <1>2. Slotted(pc) => number < Period
    BY <1>1 DEF Position, PositionOf, Located
  <1> QED
    BY <1>2, Parameters DEF NowOK, Now, All

\* The word that holds a mask is the same for all that have the same mask.
LEMMA SameWords ==
  ASSUME NEW p \in Plan, NEW q \in Plan, q.keep = p.keep, q.or = p.or, NEW u \in Mask, u[1] # "shot"
  PROVE  Word(q, u) = Word(p, u)
  BY DEF Mask, Word

\* The CFO changes no mask that a macro has written, but those of shots.
LEMMA CopiedTurns ==
  ASSUME TypeOK, CFO, NEW t \in Team, Copied(op[t])
  PROVE  Copied(op[t])'
  <1>1. SameMacro(op[t], op'[t]) /\ plan'.keep = plan.keep /\ plan'.or = plan.or
    BY CFOFrame
  <1>2. plan \in Plan /\ plan' \in Plan
    BY CFOType DEF TypeOK
  <1>3. \A u \in Mask : u[1] # "shot" => Word(plan', u) = Word(plan, u)
    BY <1>1, <1>2, SameWords
  <1> QED
    BY <1>1, <1>3 DEF Copied, SameMacro

\* Nor those that a macro has read for the others.
LEMMA MergesTurn ==
  ASSUME TypeOK, CFO, NEW t \in Team, op[t].sub \in InWork, Merges(op[t])
  PROVE  Merges(op[t])'
  <1>1. /\ SameMacro(op[t], op'[t]) /\ plan'.keep = plan.keep /\ plan'.or = plan.or
        /\ share' = share /\ fresh' = fresh /\ op[t].sub \notin settled'
    BY CFOFrame DEF Merges
  <1>2. Copied(op[t])'
    BY CopiedTurns DEF Merges
  <1> QED
    BY <1>1, <1>2 DEF Merges, SameMacro

\* Start goes on while the CFO executes its first part.
LEMMA StartTurns ==
  ASSUME TypeOK, Position, Position', CFO, OneTeam, NEW t \in Team, op[t].kind = "start",
         op[t].sub = NoSubsystem, \A b \in Bit \ InWork : Resting(b), StartOK(op[t])
  PROVE  StartOK(op[t])'
  <1>1. SameMacro(op[t], op'[t]) /\ share' = share /\ fresh' = fresh
    BY CFOFrame
  <1>2. InWork = {NoSubsystem, Inject} /\ Inject \in Bit /\ Subsystem \subseteq Bit
        /\ Subsystem \cap InWork = {}
    BY WorkIs, BitAssumption DEF WorkOf, Bit
  <1>3. ASSUME NEW b \in Subsystem
        PROVE  /\ FullShape(b)' \/ SilentShape(b)'
               /\ op[t].step = "set" => share[b] = {} \/ b \in mode'
    <2>1. BitTurns(b) /\ NoShot(plan, b) /\ b \in Bit
      BY <1>2, EveryBitTurns DEF Resting
    <2>2. CASE FullShape(b)
      BY <2>1, <2>2, FullTurns DEF StartOK
    <2>3. CASE SilentShape(b)
      BY <1>1, <2>1, <2>3, SilentTurns DEF SilentShape
    <2> QED
      BY <2>2, <2>3 DEF StartOK
  <1>4. NoShot(plan, Inject)' /\ due'[Inject] = 0
    BY <1>2, CFOFrame DEF StartOK, NoShot
  <1>5. op[t].step = "set" => Copied(op[t])'
    BY CopiedTurns DEF StartOK
  <1>6. /\ op'[t].step = op[t].step /\ op'[t].target = op[t].target /\ op'[t].at = op[t].at
    BY <1>1 DEF SameMacro
  <1> QED
    BY <1>1, <1>3, <1>4, <1>5, <1>6 DEF StartOK

\* A join goes on while the CFO executes what it has written so far.
LEMMA JoinTurns ==
  ASSUME TypeOK, Position, Position', CFO, NEW t \in Team, IsMacro(op[t]), op[t].kind = "join",
         op[t].sub \in InWork, JoinOK(op[t])
  PROVE  JoinOK(op[t])'
  <1>0. PICK o, s : o = op[t] /\ s = op[t].sub
    OBVIOUS
  <1>1. o \in OpRecord /\ s \in Subsystem /\ s \in Bit /\ o.step \in {"prepare", "set"} /\ RatioOK(o.m, o.n)
        /\ o.m \in Nat /\ o.n \in Nat /\ o.offset \in Nat
    BY <1>0, OpRecordIs DEF IsMacro, Bit, TypeOK
  <1>2. BitTurns(s)
    BY <1>1, EveryBitTurns
  <1>3. SameMacro(o, op'[t])
    BY <1>0, CFOFrame
  <1>4. NoShot(plan, s)' /\ due'[s] = 0
    BY <1>0, <1>1, CFOFrame DEF JoinOK, NoShot
  <1>5. o.step = "prepare" =>
          /\ NowOK(s)' /\ NoOr(plan, s)'
          /\ s \in mode' => o.n <= Fine /\ \A i \in 0..(Fine - 1) : s \notin plan'.keep[i] \cup o.keep[i]
    <2>1. SUFFICES ASSUME o.step = "prepare"
                   PROVE  /\ NowOK(s)' /\ NoOr(plan, s)'
                          /\ s \in mode' => o.n <= Fine /\ \A i \in 0..(Fine - 1) : s \notin plan'.keep[i] \cup o.keep[i]
      OBVIOUS
    <2>2. NoOr(plan, s) /\ NoShot(plan, s) /\ NowOK(s)
      BY <1>0, <2>1 DEF JoinOK
    <2>3. CASE s \in mode
      <3>1. o.n <= Fine /\ \A i \in 0..(Fine - 1) : s \notin plan.keep[i] \cup o.keep[i]
        BY <1>0, <2>1, <2>3 DEF JoinOK
      <3>2. FineMost(plan, s, {}) /\ OfSlots({}) \subseteq share[s] \cup asked[s]
        BY <2>2, <3>1 DEF FineMost, NoOr, OfSlots
      <3>3. NowOK(s)'
        BY <1>1, <1>2, <2>2, <3>2, <1>0, FineTurns
      <3> QED
        BY <1>2, <2>2, <3>1, <3>3 DEF BitTurns, NoOr
    <2>4. CASE s \notin mode
      <3>1. NoOr(plan, s)' /\ s \notin mode'
        BY <1>1, <1>2, <2>2, <2>4, SilentTurns
      <3> QED
        BY <3>1 DEF NowOK, Now
    <2> QED
      BY <2>3, <2>4
  <1>6. o.step = "set" =>
          /\ NowOK(s)'
          /\ o.n <= Fine => FineMost(plan, s, FineOf(o.m, o.n, o.offset))'
          /\ \A l \in 1..Coarse : o.n = NValues[l + 1] =>
               CoarseMost(plan, s, l)' /\ CoarseMode(pc, number, mode, s, l)'
    <2>1. SUFFICES ASSUME o.step = "set"
                   PROVE  /\ NowOK(s)'
                          /\ o.n <= Fine => FineMost(plan, s, FineOf(o.m, o.n, o.offset))'
                          /\ \A l \in 1..Coarse : o.n = NValues[l + 1] =>
                               CoarseMost(plan, s, l)' /\ CoarseMode(pc, number, mode, s, l)'
      OBVIOUS
    <2>2. NoShot(plan, s) /\ NowOK(s) /\ Share(o.m, o.n, o.offset) \subseteq asked[s]
      BY <1>0 DEF JoinOK
    <2>3. ASSUME NEW l \in 1..Coarse, o.n = NValues[l + 1]
          PROVE  NowOK(s)' /\ CoarseMost(plan, s, l)' /\ CoarseMode(pc, number, mode, s, l)' /\ o.n > Fine
      <3>1. CoarseMost(plan, s, l) /\ CoarseMode(pc, number, mode, s, l)
        BY <1>0, <2>1, <2>3 DEF JoinOK
      <3>2. Share(o.m, o.n, o.offset) = OfLevel(l) /\ o.n > Fine
        BY <2>3, ShareOfLevel
      <3> QED
        BY <1>1, <1>2, <2>2, <3>1, <3>2, <1>0, CoarseTurns
    <2>4. ASSUME o.n <= Fine
          PROVE  NowOK(s)' /\ FineMost(plan, s, FineOf(o.m, o.n, o.offset))'
      <3>1. FineMost(plan, s, FineOf(o.m, o.n, o.offset))
        BY <1>0, <2>1, <2>4 DEF JoinOK
      <3>2. o.n > 0 /\ Fine % o.n = 0
        BY <1>1, <2>4, Sizes DEF RatioOK
      <3>3. Share(o.m, o.n, o.offset) = OfSlots(FineOf(o.m, o.n, o.offset))
        BY <1>1, <2>4, <3>2, ShareOfSlots
      <3> QED
        BY <1>1, <1>2, <2>2, <3>1, <3>3, <1>0, FineTurns DEF FineOf
    <2>5. NowOK(s)'
      <3>1. CASE o.n <= Fine
        BY <2>4, <3>1
      <3>2. CASE ~(o.n <= Fine)
        <4>1. \E l \in 1..Coarse : o.n = NValues[l + 1]
          BY <1>1, <3>2 DEF RatioOK
        <4> QED
          BY <2>3, <4>1
      <3> QED
        BY <3>1, <3>2
    <2> QED
      BY <2>3, <2>4, <2>5
  <1>7. asked'[s] = asked[s]
    BY <1>0, <1>2 DEF BitTurns
  <1>8. op'[t].sub = s /\ op'[t].m = o.m /\ op'[t].n = o.n /\ op'[t].offset = o.offset
        /\ op'[t].or = o.or /\ op'[t].keep = o.keep /\ op'[t].step = o.step
    BY <1>0, <1>3 DEF SameMacro
  <1> QED
    BY <1>0, <1>1, <1>4, <1>5, <1>6, <1>7, <1>8 DEF JoinOK

\* A leave goes on while the CFO executes what it has left so far.
LEMMA LeaveTurns ==
  ASSUME TypeOK, Position, Position', CFO, NEW t \in Team, IsMacro(op[t]), op[t].kind = "leave",
         op[t].sub \in InWork, LeaveOK(op[t])
  PROVE  LeaveOK(op[t])'
  <1>0. PICK s : s = op[t].sub
    OBVIOUS
  <1>1. s \in Bit /\ s \in InWork /\ NoShot(plan, s) /\ due[s] = 0 /\ NowOK(s) /\ Fading(s)
    BY <1>0 DEF IsMacro, Bit, LeaveOK
  <1>2. BitTurns(s)
    BY <1>1, EveryBitTurns
  <1>3. NoShot(plan, s)' /\ due'[s] = 0 /\ op'[t].sub = s
    BY <1>0, <1>1, CFOFrame DEF NoShot, SameMacro
  <1>4. share'[s] = share[s] /\ asked'[s] = asked[s]
    BY <1>1, <1>2 DEF BitTurns
  <1>5. NowOK(s)' /\ Fading(s)'
    <2>1. CASE share[s] \cup asked[s] = All
      <3>1. share'[s] \cup asked'[s] = All
        BY <1>4, <2>1
      <3>2. Slotted(pc') => ~Closing(pc')
        BY Sizes DEF Slotted, Closing
      <3>3. Slotted(pc') => number' \in All
        BY <1>2, <3>2, Parameters DEF BitTurns, PositionOf, Located, All
      <3> QED
        BY <3>1, <3>3 DEF Fading, NowOK, Now
    <2>2. CASE NoOr(plan, s) /\ s \notin mode
      <3>1. NoOr(plan, s)' /\ s \notin mode'
        BY <1>1, <1>2, <2>2, SilentTurns
      <3> QED
        BY <3>1 DEF Fading, NowOK, Now
    <2>3. ASSUME NEW D \in SUBSET (0..(Fine - 1)), OfSlots(D) \subseteq asked[s], FineMost(plan, s, D)
          PROVE  NowOK(s)' /\ Fading(s)'
      <3>1. NowOK(s)' /\ FineMost(plan, s, D)'
        BY <1>1, <1>2, <2>3, FineTurns
      <3> QED
        BY <1>4, <2>3, <3>1 DEF Fading
    <2>4. ASSUME NEW l \in 1..Coarse, OfLevel(l) \subseteq asked[s], CoarseMost(plan, s, l),
                 CoarseMode(pc, number, mode, s, l)
          PROVE  NowOK(s)' /\ Fading(s)'
      <3>1. NowOK(s)' /\ CoarseMost(plan, s, l)' /\ CoarseMode(pc, number, mode, s, l)'
        BY <1>1, <1>2, <2>4, CoarseTurns
      <3> QED
        BY <1>4, <2>4, <3>1 DEF Fading
    <2> QED
      BY <1>1, <2>1, <2>2, <2>3, <2>4 DEF Fading
  <1> QED
    BY <1>3, <1>5 DEF LeaveOK

\* Masks that are armed were armed by the macro, which never comes back to them.
Armed(o) ==
  \A j \in OrSlot : o.sub \in plan.shot[j] =>
    o.sub \in o.target.shot[j] /\ (o.step = "set" => Place(<<"shot", j>>) < o.at)

\* An OR_SINGLESHOT that fires is pending no longer; nothing else changes what is pending.
LEMMA PendingTurns ==
  ASSUME TypeOK, CFO, NEW t \in Team, op[t].kind = "shoot", op[t].step \in {"set", "wait"}, Armed(op[t]),
         op[t].sub \in Bit
  PROVE  /\ Armed(op[t])'
         /\ pc[1] = "shot" => pc[2] \in OrSlot
         /\ pc[1] = "shot" /\ op[t].sub \in plan.shot[pc[2]] =>
              /\ Pending(op[t])' = Pending(op[t]) \ {pc[2]}
              /\ pc[2] \in Pending(op[t])
         /\ ~(pc[1] = "shot" /\ op[t].sub \in plan.shot[pc[2]]) => Pending(op[t])' = Pending(op[t])
  <1>0. PICK o : o = op[t]
    OBVIOUS
  <1>1. /\ op'[t].sub = o.sub /\ op'[t].step = o.step /\ op'[t].at = o.at /\ op'[t].target = o.target
        /\ o \in OpRecord /\ pc \in Operation
    BY <1>0, CFOFrame DEF SameMacro, TypeOK
  <1>2. \A k \in OrSlot : plan'.shot[k] = IF pc[1] = "shot" /\ pc[2] = k THEN {} ELSE plan.shot[k]
    BY CFOFrame
  <1>3. pc[1] = "shot" => pc[2] \in OrSlot
    BY <1>1, Instructions
  <1>4. \A k \in OrSlot : o.sub \in plan.shot[k] /\ o.step = "set" => ~(Place(<<"shot", k>>) >= o.at)
    <2>1. \A k \in OrSlot : Place(<<"shot", k>>) \in Nat
      BY PlaceType DEF Mask
    <2>2. o.at \in Nat
      BY <1>1, OpRecordIs
    <2> QED
      BY <1>0, <2>1, <2>2 DEF Armed
  <1>5. Armed(op[t])'
    BY <1>0, <1>1, <1>2 DEF Armed
  <1>6. ASSUME pc[1] = "shot", o.sub \in plan.shot[pc[2]]
        PROVE  Pending(op[t])' = Pending(op[t]) \ {pc[2]} /\ pc[2] \in Pending(op[t])
    BY <1>0, <1>1, <1>2, <1>3, <1>4, <1>6 DEF Pending
  <1>7. ASSUME ~(pc[1] = "shot" /\ o.sub \in plan.shot[pc[2]])
        PROVE  Pending(op[t])' = Pending(op[t])
    BY <1>0, <1>1, <1>2, <1>7 DEF Pending
  <1> QED
    BY <1>0, <1>3, <1>5, <1>6, <1>7

\* A chunk in fine slots stays accounted for, event by event.
LEMMA FineShotTurns ==
  ASSUME TypeOK, Position, Position', CFO, NEW t \in Team, IsMacro(op[t]), op[t].kind = "shoot",
         op[t].step \in {"set", "wait"}, op[t].sub \in InWork, share[op[t].sub] = {}, asked[op[t].sub] = {},
         NoOr(plan, op[t].sub), Armed(op[t]), FineShot(op[t])
  PROVE  FineShot(op[t])'
  <1>0. PICK o : o = op[t]
    OBVIOUS
  <1>1. PICK s : s = o.sub
    OBVIOUS
  <1>2. PICK P, Q : P = Pending(op[t]) /\ Q = Pending(op[t])'
    OBVIOUS
  <1>3. PICK c : c = o.remaining - ChunkOf(o)[1]
    OBVIOUS
  <1>4. /\ op'[t].sub = s /\ op'[t].step = o.step /\ op'[t].remaining = o.remaining
        /\ ChunkOf(op'[t]) = ChunkOf(o)
        /\ s \in Bit /\ o \in OpRecord /\ s \in InWork
    <2>1. SameMacro(o, op'[t]) /\ s \in Bit /\ o \in OpRecord /\ s \in InWork
      BY <1>0, <1>1, CFOFrame DEF IsMacro, Bit, TypeOK
    <2> QED
      BY <1>1, <2>1, SamePlans DEF SameMacro
  <1>5. c \in Nat
    BY <1>0, <1>3, <1>4, ChunkOfIs, OpRecordIs
  <1>6. BitTurns(s)
    BY <1>4, EveryBitTurns
  <1>7. /\ \A i \in AndSlot : s \notin plan.keep[i]
        /\ IsFiniteSet(P) /\ Cardinality(P) \in Nat /\ \A k \in P : k >= Coarse
        /\ s \in mode => pc[1] = "event" \/ (pc[1] = "and" /\ pc[2] > 0)
        /\ due[s] = c + Cardinality(P) + IF s \in mode /\ pc[1] = "event" THEN 1 ELSE 0
    BY <1>0, <1>1, <1>2, <1>3, FS_CardinalityType DEF FineShot
  <1>8. \A i \in AndSlot : s \notin plan'.keep[i]
    BY <1>6, <1>7 DEF BitTurns
  <1>9. /\ IsFiniteSet(Q) /\ \A k \in Q : k >= Coarse
        /\ s \in mode' => pc'[1] = "event" \/ (pc'[1] = "and" /\ pc'[2] > 0)
        /\ due'[s] = c + Cardinality(Q) + IF s \in mode' /\ pc'[1] = "event" THEN 1 ELSE 0
    <2>1. Applied(pc, plan, mode, mode', s) /\ Turn(pc, number, left, pc', number')
      BY <1>6 DEF BitTurns
    <2>2. CASE pc[1] = "shot" /\ s \in plan.shot[pc[2]]
      <3>1. Q = P \ {pc[2]} /\ pc[2] \in P /\ pc[2] \in OrSlot
        BY <1>0, <1>1, <1>2, <1>4, <2>2, PendingTurns
      <3>2. IsFiniteSet(Q) /\ Cardinality(Q) = Cardinality(P) - 1
        <4>1. PICK e, S : e = pc[2] /\ S = P
          OBVIOUS
        <4>2. IsFiniteSet(S) /\ e \in S
          BY <1>7, <3>1, <4>1
        <4>3. IsFiniteSet(S \ {e}) /\ Cardinality(S \ {e}) = Cardinality(S) - 1
          BY <4>2, FS_RemoveElement
        <4> QED
          BY <3>1, <4>1, <4>3
      <3>3. pc'[1] = "event" /\ s \in mode' /\ s \notin mode
        <4>1. pc[2] >= Coarse
          BY <1>7, <3>1
        <4>2. pc'[1] = "event"
          BY <2>1, <2>2, <3>1, <4>1, Sizes DEF Turn, OrSlot
        <4> QED
          BY <1>7, <2>1, <2>2, <4>2 DEF Applied
      <3>4. due'[s] = due[s]
        BY <2>2, CFOFrame
      <3> QED
        BY <1>5, <1>7, <3>1, <3>2, <3>3, <3>4
    <2>3. CASE ~(pc[1] = "shot" /\ s \in plan.shot[pc[2]])
      <3>1. Q = P
        BY <1>0, <1>1, <1>2, <1>4, <2>3, PendingTurns
      <3>2. CASE pc[1] = "event"
        <4>1. pc'[1] = "and" /\ pc'[2] > 0
          BY <2>1, <3>2 DEF Turn
        <4>2. due'[s] = IF s \in mode /\ due[s] > 0 THEN due[s] - 1 ELSE due[s]
          BY <1>0, <1>1, <1>4, <3>2, CFOFrame
        <4> QED
          BY <1>5, <1>7, <3>1, <3>2, <4>1, <4>2
      <3>3. CASE pc[1] # "event"
        <4>1. due'[s] = due[s]
          BY <3>3, CFOFrame
        <4>2. s \notin mode'
          <5>1. pc[1] = "and" => s \notin plan.keep[pc[2]]
            BY <1>7, <2>1 DEF Turn
          <5>2. pc[1] = "or" => s \notin plan.or[pc[2]]
            BY <1>0, <1>1, <2>1 DEF NoOr, Turn
          <5>3. pc[1] # "and" => s \notin mode
            BY <1>7, <3>3
          <5> QED
            BY <2>1, <2>3, <3>3, <5>1, <5>2, <5>3 DEF Applied, Turn
        <4> QED
          BY <1>5, <1>7, <3>1, <3>3, <4>1, <4>2
      <3> QED
        BY <3>2, <3>3
    <2> QED
      BY <2>2, <2>3
  <1> QED
    BY <1>2, <1>3, <1>4, <1>8, <1>9 DEF FineShot

\* A chunk before a coarse loop stays accounted for, round by round.
LEMMA CoarseShotTurns ==
  ASSUME TypeOK, Position, Position', CFO, NEW t \in Team, IsMacro(op[t]), op[t].kind = "shoot",
         op[t].step \in {"set", "wait"}, op[t].sub \in InWork, share[op[t].sub] = {}, asked[op[t].sub] = {},
         NoOr(plan, op[t].sub), Armed(op[t]), NEW l \in 1..Coarse, NValues[l + 1] <= op[t].remaining,
         CoarseShot(op[t], l)
  PROVE  CoarseShot(op[t], l)'
  <1>0. PICK o : o = op[t]
    OBVIOUS
  <1>1. PICK s : s = o.sub
    OBVIOUS
  <1>2. PICK P, Q : P = Pending(op[t]) /\ Q = Pending(op[t])'
    OBVIOUS
  <1>3. PICK n, r, w, v : /\ n = NValues[l + 1] /\ r = o.remaining - n
                          /\ w = o.waited /\ v = op'[t].waited
    OBVIOUS
  <1>4. /\ op'[t].sub = s /\ op'[t].step = o.step /\ op'[t].remaining = o.remaining
        /\ s \in Bit /\ o \in OpRecord /\ s \in InWork
    BY <1>0, <1>1, CFOFrame DEF IsMacro, Bit, TypeOK, SameMacro
  <1>5. n \in Nat /\ n > 0 /\ r \in Nat /\ w \in Nat
    <2>1. n \in Nat /\ n > 0
      BY <1>3, Loops
    <2>2. o.remaining \in Nat /\ n <= o.remaining /\ w \in Nat
      BY <1>0, <1>3, <1>4, OpRecordIs
    <2> QED
      BY <1>3, <2>1, <2>2, Parameters
  <1>6. BitTurns(s)
    BY <1>4, EveryBitTurns
  <1>7. PICK a, b : a = Passed(pc, number, l) /\ b = Passed(pc', number', l)
    OBVIOUS
  <1>8. a \in 0..n /\ b \in 0..n
    BY <1>3, <1>6, <1>7, PassedType DEF BitTurns
  <1>9. /\ \A i \in AndSlot : s \in plan.keep[i] <=> i # Fine + l
        /\ P \subseteq {Coarse - l}
        /\ s \in mode => Round(pc, l) /\ P = {}
        /\ due[s] = r + IF P # {} THEN n ELSE IF s \in mode THEN n - a ELSE 0
        /\ o.step = "wait" /\ P # {} => w + InTag(pc) <= IF Round(pc, l) THEN a ELSE n
        /\ o.step = "wait" /\ s \in mode => w + InTag(pc) <= n + a
    BY <1>0, <1>1, <1>2, <1>3, <1>7 DEF CoarseShot
  <1>10. \A i \in AndSlot : s \in plan'.keep[i] <=> i # Fine + l
    BY <1>6, <1>9 DEF BitTurns
  <1>11. Applied(pc, plan, mode, mode', s) /\ Turn(pc, number, left, pc', number')
         /\ pc \in Operation /\ number \in Nat /\ left \in [1..Coarse -> Nat]
         /\ PositionOf(pc, number, left)
    BY <1>6 DEF BitTurns
  <1>12. pc[1] # "event" => due'[s] = due[s]
    BY <1>0, <1>3, CFOFrame
  <1>13. v \in Nat /\ v <= w + InTag(pc) /\ InTag(pc) \in {0, 1} /\ InTag(pc') \in {0, 1}
    <2>1. v \in Nat
      <3>1. op'[t] \in OpRecord
        BY CFOType DEF TypeOK
      <3> QED
        BY <1>3, <3>1, OpRecordIs
    <2>2. CASE Waiting(pc)
      <3>1. op \in [Team -> OpRecord] /\ IncTag
        BY <2>2, CFOFrame DEF TypeOK
      <3>2. op'[t] = IF op[t].step = "wait" /\ op[t].kind = "shoot"
                     THEN [op[t] EXCEPT !.waited = Counted(op[t])]
                     ELSE op[t]
        BY <3>1, IncTagType
      <3>3. v = w \/ v = w + 1
        BY <1>0, <1>3, <1>4, <3>2, OpRecordIs DEF Counted
      <3> QED
        BY <1>5, <2>1, <2>2, <3>3 DEF InTag
    <2>3. CASE ~Waiting(pc)
      <3>1. op' = op
        BY <2>3, CFOFrame
      <3> QED
        BY <1>0, <1>3, <1>5, <2>1, <2>3, <3>1 DEF InTag
    <2> QED
      BY <2>2, <2>3
  <1>14. pc[1] = "event" => InTag(pc) = 0
    BY DEF InTag, Waiting
  <1>15. pc[1] # "event" => InTag(pc') = 0
    <2>1. ~(First[1] = "and" /\ First[2] \in 1..Fine)
      BY DEF First
    <2> QED
      BY <1>11, <2>1, Sizes DEF InTag, Waiting, Turn, AndSlot, OrSlot
  <1>16. /\ Q \subseteq {Coarse - l}
         /\ s \in mode' => Round(pc', l) /\ Q = {}
         /\ due'[s] = r + IF Q # {} THEN n ELSE IF s \in mode' THEN n - b ELSE 0
         /\ o.step = "wait" /\ Q # {} => v + InTag(pc') <= IF Round(pc', l) THEN b ELSE n
         /\ o.step = "wait" /\ s \in mode' => v + InTag(pc') <= n + b
    <2>1. CASE pc[1] = "shot" /\ s \in plan.shot[pc[2]]
      <3>1. Q = P \ {pc[2]} /\ pc[2] \in P /\ pc[2] \in OrSlot
        BY <1>0, <1>1, <1>2, <1>4, <2>1, PendingTurns
      <3>2. pc[2] = Coarse - l /\ Q = {} /\ P # {}
        BY <1>9, <3>1
      <3>3. ~Round(pc, l)
        BY <2>1, <3>2, Sizes DEF Round
      <3>4. pc' = <<"or", Coarse - l>>
        BY <1>11, <2>1, <3>2, Sizes DEF Turn
      <3>5. Round(pc', l)
        BY <3>4, Sizes DEF Round
      <3>6. b = 0
        BY <1>7, <1>11, <3>3, <3>5, RoundBegins
      <3>7. s \in mode'
        BY <1>11, <2>1 DEF Applied
      <3>8. due'[s] = due[s]
        BY <1>12, <2>1
      <3>9. o.step = "wait" => v + InTag(pc') <= n + b
        BY <1>5, <1>9, <1>13, <1>15, <2>1, <3>2, <3>3, <3>6
      <3> QED
        BY <1>5, <1>9, <3>2, <3>3, <3>5, <3>6, <3>7, <3>8, <3>9
    <2>2. ASSUME ~(pc[1] = "shot" /\ s \in plan.shot[pc[2]])
          PROVE  Q = P
      BY <1>0, <1>1, <1>2, <1>4, <2>2, PendingTurns
    <2>3. CASE pc[1] = "event"
      <3>1. Q = P /\ (s \in mode' <=> s \in mode)
        BY <1>11, <2>2, <2>3 DEF Applied
      <3>2. Round(pc, l) /\ Round(pc', l) /\ b = a + 1 /\ a < n
        BY <1>3, <1>7, <1>11, <2>3, RoundEvent
      <3>3. due'[s] = IF s \in mode /\ due[s] > 0 THEN due[s] - 1 ELSE due[s]
        BY <1>0, <1>1, <1>4, <2>3, CFOFrame
      <3>4. v + InTag(pc') <= w + InTag(pc) + 1 /\ v + InTag(pc') \in Int /\ w + InTag(pc) \in Int
        BY <1>5, <1>13, <1>14, <2>3
      <3>6. a \in Int /\ b \in Int
        BY <1>5, <1>8
      <3>7. CASE s \in mode
        <4>1. P = {} /\ Q = {} /\ due[s] = r + (n - a) /\ s \in mode'
          BY <1>9, <3>1, <3>7
        <4>2. due'[s] = r + (n - b)
          BY <1>5, <3>2, <3>3, <3>6, <3>7, <4>1
        <4>3. o.step = "wait" => v + InTag(pc') <= n + b
          <5>1. o.step = "wait" => w + InTag(pc) <= n + a
            BY <1>9, <3>7
          <5> QED
            BY <1>5, <3>2, <3>4, <3>6, <5>1
        <4> QED
          BY <3>2, <4>1, <4>2, <4>3
      <3>8. CASE s \notin mode
        BY <1>5, <1>9, <3>1, <3>2, <3>3, <3>4, <3>6, <3>8
      <3> QED
        BY <3>7, <3>8
    <2>4. CASE pc[1] = "and" /\ pc[2] = Fine + l
      <3>1. Q = P /\ due'[s] = due[s] /\ v + InTag(pc') <= w + InTag(pc)
        BY <1>5, <1>12, <1>13, <1>15, <2>2, <2>4
      <3>2. s \notin mode'
        <4>1. pc[2] \in AndSlot
          BY <1>11, <2>4 DEF Turn
        <4> QED
          BY <1>9, <1>11, <2>4, <4>1 DEF Applied
      <3>3. a = n
        BY <1>3, <1>7, <1>11, <2>4, RoundEnds
      <3>4. Round(pc, l)
        BY <2>4, Sizes DEF Round
      <3>5. ~Round(pc', l)
        <4>1. ~Round(First, l)
          BY Sizes DEF First, Round
        <4>2. CASE l = Coarse
          BY <1>11, <2>4, <4>1, <4>2 DEF Turn
        <4>3. CASE l # Coarse
          <5>1. pc' = <<"do", l + 1>>
            BY <1>11, <2>4, <4>3, Sizes DEF Turn
          <5> QED
            BY <5>1, Sizes DEF Round
        <4> QED
          BY <4>2, <4>3
      <3>6. o.step = "wait" /\ Q # {} => v + InTag(pc') <= n
        BY <1>5, <1>9, <1>13, <3>1, <3>3, <3>4
      <3> QED
        BY <1>5, <1>9, <3>1, <3>2, <3>3, <3>4, <3>5, <3>6
    <2>5. CASE /\ ~(pc[1] = "shot" /\ s \in plan.shot[pc[2]]) /\ pc[1] # "event"
               /\ ~(pc[1] = "and" /\ pc[2] = Fine + l)
      <3>1. Q = P /\ due'[s] = due[s] /\ v + InTag(pc') <= w + InTag(pc)
        BY <1>5, <1>12, <1>13, <1>15, <2>2, <2>5
      <3>2. s \in mode' <=> s \in mode
        <4>1. pc[1] = "and" => s \in plan.keep[pc[2]]
          BY <1>9, <1>11, <2>5 DEF Turn
        <4>2. pc[1] = "or" => s \notin plan.or[pc[2]]
          BY <1>0, <1>1, <1>11 DEF NoOr, Turn
        <4> QED
          BY <1>11, <2>5, <4>1, <4>2 DEF Applied, Turn
      <3>3. CASE Round(pc, l)
        <4>1. Round(pc', l) /\ b = a
          BY <1>7, <1>11, <2>5, <3>3, RoundKept
        <4> QED
          BY <1>5, <1>8, <1>9, <1>13, <3>1, <3>2, <3>3, <4>1
      <3>4. CASE ~Round(pc, l)
        <4>1. s \notin mode /\ s \notin mode'
          BY <1>9, <3>2, <3>4
        <4>2. o.step = "wait" /\ P # {} => ~Round(pc', l)
          <5>1. SUFFICES ASSUME o.step = "wait", P # {}, Round(pc', l)
                         PROVE  FALSE
            OBVIOUS
          <5>2. pc = <<"shot", Coarse - l>>
            BY <1>11, <3>4, <5>1, RoundBegins
          <5>3. Coarse - l \in P
            BY <1>9, <5>1
          <5>4. s \in plan.shot[Coarse - l]
            BY <1>0, <1>1, <1>2, <5>1, <5>3 DEF Pending
          <5> QED
            BY <2>5, <5>2, <5>4
        <4> QED
          BY <1>5, <1>8, <1>9, <1>13, <3>1, <3>4, <4>1, <4>2
      <3> QED
        BY <3>3, <3>4
    <2> QED
      BY <2>1, <2>3, <2>4, <2>5
  <1> QED
    BY <1>2, <1>3, <1>4, <1>7, <1>10, <1>16 DEF CoarseShot

\* A single shot goes on while the CFO fires what it has armed.
LEMMA ShootTurns ==
  ASSUME TypeOK, Position, Position', CFO, NEW t \in Team, IsMacro(op[t]), op[t].kind = "shoot",
         op[t].sub \in InWork, share[op[t].sub] = {}, ShootOK(op[t])
  PROVE  ShootOK(op[t])'
  <1>0. PICK o, s, k : o = op[t] /\ s = op[t].sub /\ k = ChunkOf(op[t])[2]
    OBVIOUS
  <1>1. /\ op'[t].sub = s /\ op'[t].step = o.step /\ op'[t].remaining = o.remaining
        /\ op'[t].or = o.or /\ op'[t].target = o.target /\ op'[t].at = o.at
        /\ ChunkOf(op'[t])[2] = k
        /\ s \in Bit /\ o \in OpRecord /\ s \in InWork
    <2>1. SameMacro(o, op'[t]) /\ s \in Bit /\ o \in OpRecord /\ s \in InWork
      BY <1>0, CFOFrame DEF IsMacro, Bit, TypeOK
    <2>2. ChunkOf(op'[t]) = ChunkOf(o)
      BY <2>1, SamePlans DEF SameMacro
    <2> QED
      BY <1>0, <2>1, <2>2 DEF SameMacro
  <1>2. BitTurns(s)
    BY <1>1, EveryBitTurns
  <1>3. /\ asked[s] = {} /\ NoOr(plan, s) /\ \A j \in OrSlot : s \notin o.or[j]
        /\ share[s] = {}
    BY <1>0 DEF ShootOK
  <1>4. asked'[s] = {} /\ NoOr(plan, s)'
    BY <1>1, <1>2, <1>3 DEF BitTurns, NoOr
  <1>5. ASSUME o.step = "prepare"
        PROVE  /\ NoShot(plan, s)' /\ due'[s] = o.remaining
               /\ s \in mode' => k < 0 /\ pc'[1] = "and" /\ pc'[2] > 0 /\ \A i \in AndSlot : s \notin plan'.keep[i]
    <2>1. /\ NoShot(plan, s) /\ due[s] = o.remaining
          /\ s \in mode => k < 0 /\ pc[1] = "and" /\ pc[2] > 0 /\ \A i \in AndSlot : s \notin plan.keep[i]
      BY <1>0, <1>5 DEF ShootOK
    <2>2. s \notin mode'
      <3>1. CASE s \in mode
        <4>1. pc[1] = "and" /\ s \notin plan.keep[pc[2]]
          BY <1>2, <2>1, <3>1 DEF BitTurns, Turn
        <4> QED
          BY <1>2, <4>1 DEF BitTurns, Applied
      <3>2. CASE s \notin mode
        BY <1>1, <1>2, <1>3, <2>1, <3>2, SilentTurns
      <3> QED
        BY <3>1, <3>2
    <2>3. NoShot(plan, s)'
      BY <2>1, CFOFrame DEF NoShot
    <2>4. due'[s] = due[s]
      <3>1. CASE pc[1] = "event"
        <4>1. s \notin mode
          BY <2>1, <3>1
        <4> QED
          BY <1>1, <3>1, <4>1, CFOFrame
      <3>2. CASE pc[1] # "event"
        BY <3>2, CFOFrame
      <3> QED
        BY <3>1, <3>2
    <2> QED
      BY <2>1, <2>2, <2>3, <2>4
  <1>6. ASSUME o.step \in {"set", "wait"}
        PROVE  /\ \A j \in OrSlot : s \in plan'.shot[j] =>
                    s \in o.target.shot[j] /\ (o.step = "set" => Place(<<"shot", j>>) < o.at)
               /\ k < 0 => FineShot(op[t])'
               /\ k >= 0 => CoarseShot(op[t], LevelOf(k))'
    <2>1. /\ Armed(op[t])
          /\ k < 0 => FineShot(op[t])
          /\ k >= 0 => CoarseShot(op[t], LevelOf(k))
      BY <1>0, <1>6 DEF ShootOK, Armed
    <2>2. Armed(op[t])'
      BY <1>0, <1>1, <1>6, <2>1, PendingTurns
    <2>3. k < 0 => FineShot(op[t])'
      BY <1>0, <1>1, <1>3, <1>6, <2>1, FineShotTurns
    <2>4. ASSUME k >= 0
          PROVE  CoarseShot(op[t], LevelOf(k))'
      <3>1. LevelOf(k) \in 1..Coarse /\ NValues[LevelOf(k) + 1] <= o.remaining
        BY <1>0, <1>1, <2>4, ChunkOfIs, Sizes DEF LevelOf
      <3> QED
        BY <1>0, <1>1, <1>3, <1>6, <2>1, <2>4, <3>1, CoarseShotTurns DEF LevelOf
    <2> QED
      BY <1>1, <2>2, <2>3, <2>4 DEF Armed
  <1> QED
    BY <1>0, <1>1, <1>3, <1>4, <1>5, <1>6 DEF ShootOK

\* A subsystem that nobody has touched stays so.
LEMMA FreshTurns ==
  ASSUME TypeOK, Position, Position', CFO, NEW b \in Bit, Fresh(b), NoShot(plan, b)
  PROVE  Fresh(b)'
  <1>1. BitTurns(b)
    BY EveryBitTurns
  <1>2. KeepsAll(plan, b)'
    BY <1>1 DEF BitTurns, Fresh, KeepsAll
  <1>3. share'[b] = {} => NoOr(plan, b)' /\ b \notin mode'
    <2>1. SUFFICES ASSUME share'[b] = {}
                   PROVE  NoOr(plan, b)' /\ b \notin mode'
      OBVIOUS
    <2>2. NoOr(plan, b) /\ b \notin mode
      BY <1>1, <2>1 DEF BitTurns, Fresh
    <2> QED
      BY <1>1, <2>2, SilentTurns
  <1> QED
    BY <1>2, <1>3 DEF Fresh

\* The CFO keeps the invariant, whatever the macro of the team is about to do.
LEMMA RunsTurn ==
  ASSUME TypeOK, Macros, OneTeam, Runs, CFO
  PROVE  Runs'
  <1>1. Position /\ Position'
    <2>1. Position
      BY DEF Runs
    <2>2. running' = running
      BY DEF CFO, OrSingleShot, OrModeBits, AndModeBits, Loop, DoLoop, Event
    <2>3. running
      BY CFOFrame
    <2>4. Next
      BY DEF Next
    <2> QED
      BY <2>1, <2>2, <2>3, <2>4, PositionKept
  <1>2. InWork' = InWork
    BY CFOFrame, SameWork
  <1>3. ASSUME NEW b \in Bit \ InWork'
        PROVE  Resting(b)'
    BY <1>1, <1>2, RestingTurns DEF Runs
  <1>4. ASSUME NEW b \in fresh'
        PROVE  b \notin InWork' /\ Fresh(b)'
    <2>1. b \in fresh /\ b \in Bit
      BY CFOFrame DEF TypeOK, Bit
    <2>2. b \notin InWork /\ Fresh(b) /\ NoShot(plan, b)
      BY <2>1 DEF Runs, Resting
    <2> QED
      BY <1>1, <1>2, <2>1, <2>2, FreshTurns
  <1>5. ASSUME NEW t \in Team
        PROVE  MacroOK(op[t])'
    <2>1. /\ IsMacro(op[t]) /\ MacroOK(op[t]) /\ op'[t].kind = op[t].kind
          /\ op[t].sub \in InWork /\ \A b \in Bit \ InWork : Resting(b)
      BY CFOFrame DEF Macros, Runs, SameMacro, InWork
    <2>2. op[t].kind = "start" => StartOK(op[t])'
      BY <1>1, <2>1, StartTurns DEF IsMacro, MacroOK
    <2>3. op[t].kind \in {"join", "leave", "shoot"} => Merges(op[t])'
      BY <2>1, MergesTurn DEF MacroOK
    <2>4. op[t].kind = "join" => JoinOK(op[t])'
      BY <1>1, <2>1, JoinTurns DEF MacroOK
    <2>5. op[t].kind = "leave" => LeaveOK(op[t])'
      BY <1>1, <2>1, LeaveTurns DEF MacroOK
    <2>6. op[t].kind = "shoot" => ShootOK(op[t])'
      <3>1. op[t].kind = "shoot" => share[op[t].sub] = {}
        BY <2>1 DEF MacroOK, Merges
      <3> QED
        BY <1>1, <2>1, <3>1, ShootTurns DEF MacroOK
    <2> QED
      BY <2>1, <2>2, <2>3, <2>4, <2>5, <2>6 DEF MacroOK
  <1> QED
    BY <1>1, <1>3, <1>4, <1>5 DEF Runs

\* What has settled is asked for nothing more, also when the program begins again.
LEMMA SettledTurns ==
  ASSUME TypeOK, Settled, running => Runs, CFO
  PROVE  Settled'
  <1>1. InWork' = InWork /\ Runs
    BY CFOFrame, SameWork
  <1>2. ASSUME NEW b \in settled'
        PROVE  b \notin InWork /\ asked'[b] = {} /\ due'[b] = 0
    <2>1. b \in Bit
      BY CFOType DEF TypeOK
    <2>2. CASE b \in settled
      <3>1. b \notin InWork /\ asked[b] = {} /\ due[b] = 0
        BY <2>2 DEF Settled
      <3>2. asked'[b] = {}
        BY <2>1, <3>1, CFOFrame
      <3>3. due'[b] = 0
        BY <2>1, <3>1, CFOFrame
      <3> QED
        BY <3>1, <3>2, <3>3
    <2>3. CASE b \notin settled
      <3>1. pc = Final /\ b \notin InWork
        BY <1>2, <2>3, CFOFrame
      <3>2. asked'[b] = {}
        BY <2>1, <3>1, CFOFrame
      <3>3. due[b] = 0
        BY <1>1, <2>1, <3>1 DEF Runs, Resting
      <3>4. due'[b] = 0
        BY <2>1, <3>3, CFOFrame
      <3> QED
        BY <3>1, <3>2, <3>4
    <2> QED
      BY <2>2, <2>3
  <1> QED
    BY <1>1, <1>2 DEF Settled

-----------------------------------------------------------------------------
(* The masks that the macros write                                          *)

\* PeriodicOn changes the masks of its bits only.
LEMMA PeriodicOnIs ==
  ASSUME NEW keep, NEW or, NEW bits, NEW m, NEW n, NEW f, NEW shots, NEW applyOr,
         NEW q, q = PeriodicOn(keep, or, bits, m, n, f, shots, applyOr)
  PROVE  /\ q.shot = shots
         /\ \A i \in AndSlot : \A b : b \in q.keep[i] <=>
              b \in keep[i] /\ ~(i < Fine /\ OffSlot(m, n, f, i) /\ b \in bits)
         /\ \A k \in OrSlot : \A b : b \in q.or[k] <=>
              \/ b \in or[k]
              \/ /\ applyOr /\ b \in bits
                 /\ IF k < Coarse THEN NValues[LevelOf(k) + 1] = n ELSE OnSlot(m, n, f, k - Coarse)
  <1>1. /\ q.shot = shots
        /\ q.keep = [i \in AndSlot |-> IF i < Fine /\ OffSlot(m, n, f, i) THEN keep[i] \ bits ELSE keep[i]]
        /\ q.or = [k \in OrSlot |->
                     IF applyOr /\ (IF k < Coarse THEN NValues[LevelOf(k) + 1] = n
                                                  ELSE OnSlot(m, n, f, k - Coarse))
                     THEN or[k] \cup bits ELSE or[k]]
    BY DEF PeriodicOn
  <1>2. \A i \in AndSlot : q.keep[i] = IF i < Fine /\ OffSlot(m, n, f, i) THEN keep[i] \ bits ELSE keep[i]
    BY <1>1
  <1>3. \A k \in OrSlot : q.or[k] =
          IF applyOr /\ (IF k < Coarse THEN NValues[LevelOf(k) + 1] = n ELSE OnSlot(m, n, f, k - Coarse))
          THEN or[k] \cup bits ELSE or[k]
    BY <1>1
  <1> HIDE DEF OffSlot, OnSlot
  <1> QED
    BY <1>1, <1>2, <1>3

\* The loops before the OR masks are coarse.
LEMMA LevelIs ==
  ASSUME NEW k \in OrSlot, k < Coarse
  PROVE  LevelOf(k) \in 1..Coarse /\ Coarse - LevelOf(k) = k /\ NValues[LevelOf(k) + 1] > Fine
  <1>1. LevelOf(k) \in 1..Coarse /\ Coarse - LevelOf(k) = k
    BY Sizes DEF LevelOf, OrSlot
  <1>2. LevelOf(k) + 1 \in 1..(Coarse + 1) /\ 1 \in 1..((LevelOf(k) + 1) - 1)
    BY <1>1, Sizes
  <1> QED
    BY <1>1, <1>2, Parameters

\* Two coarse loops have different lengths.
LEMMA LevelsDiffer ==
  ASSUME NEW l \in 1..Coarse, NEW k \in 1..Coarse, NValues[l + 1] = NValues[k + 1]
  PROVE  l = k
  <1>1. l + 1 \in 1..(Coarse + 1) /\ k + 1 \in 1..(Coarse + 1)
        /\ NValues[l + 1] \in Nat /\ NValues[k + 1] \in Nat
    BY Sizes, Loops
  <1>2. CASE l < k
    <2>1. l + 1 \in 1..((k + 1) - 1)
      BY <1>2
    <2>2. NValues[k + 1] > NValues[l + 1]
      BY <1>1, <2>1, Parameters
    <2> QED
      BY <1>1, <2>2
  <1>3. CASE k < l
    <2>1. k + 1 \in 1..((l + 1) - 1)
      BY <1>3
    <2>2. NValues[l + 1] > NValues[k + 1]
      BY <1>1, <2>1, Parameters
    <2> QED
      BY <1>1, <2>2
  <1> QED
    BY <1>2, <1>3

\* A duty cycle sets its bit in its slots, or before its coarse loop, and nowhere else.
LEMMA PeriodicMasks ==
  ASSUME NEW keep, NEW or, NEW s, NEW m \in Nat, NEW n \in Nat, NEW f \in Nat, RatioOK(m, n), NEW applyOr,
         \A k \in OrSlot : s \notin or[k],
         NEW q, q = PeriodicOn(keep, or, {s}, m, n, f, NoShots, applyOr)
  PROVE  /\ n <= Fine => /\ FineMost(q, s, FineOf(m, n, f))
                         /\ applyOr => FineLeast(q, s, FineOf(m, n, f))
         /\ \A l \in 1..Coarse : n = NValues[l + 1] =>
              CoarseMost(q, s, l) /\ (applyOr /\ s \in keep[0] => CoarseLeast(q, s, l))
         /\ ~applyOr => NoOr(q, s)
  <1>1. /\ \A i \in AndSlot : s \in q.keep[i] <=> s \in keep[i] /\ ~(i < Fine /\ OffSlot(m, n, f, i))
        /\ \A k \in OrSlot : s \in q.or[k] <=>
             /\ applyOr
             /\ IF k < Coarse THEN NValues[LevelOf(k) + 1] = n ELSE OnSlot(m, n, f, k - Coarse)
    BY PeriodicOnIs
  <1>2. ~applyOr => NoOr(q, s)
    BY <1>1 DEF NoOr
  <1>3. ASSUME n <= Fine
        PROVE  /\ FineMost(q, s, FineOf(m, n, f))
               /\ applyOr => FineLeast(q, s, FineOf(m, n, f))
    <2>1. ASSUME NEW k \in OrSlot
          PROVE  s \in q.or[k] <=> applyOr /\ k >= Coarse /\ k - Coarse \in FineOf(m, n, f)
      <3>1. CASE k < Coarse
        <4>1. NValues[LevelOf(k) + 1] # n
          <5>1. NValues[LevelOf(k) + 1] > Fine /\ LevelOf(k) \in 1..Coarse
            BY <3>1, LevelIs
          <5>2. NValues[LevelOf(k) + 1] \in Nat
            BY <5>1, Loops
          <5> QED
            BY <1>3, <5>1, <5>2, Sizes
        <4> QED
          <5>1. ~(k >= Coarse)
            BY <3>1, Sizes DEF OrSlot
          <5> QED
            BY <1>1, <3>1, <4>1, <5>1
      <3>2. CASE ~(k < Coarse)
        <4>1. k >= Coarse /\ k - Coarse \in 0..(Fine - 1)
          BY <3>2, Sizes DEF OrSlot
        <4> QED
          BY <1>1, <3>2, <4>1 DEF FineOf
      <3> QED
        BY <3>1, <3>2
    <2>2. ASSUME NEW i \in 0..(Fine - 1), i \notin FineOf(m, n, f)
          PROVE  s \notin q.keep[i]
      <3>1. i \in AndSlot /\ i < Fine
        BY Sizes DEF AndSlot
      <3>2. ~OnSlot(m, n, f, i)
        BY <2>2 DEF FineOf
      <3>3. OffSlot(m, n, f, i)
        <4>1. n > 0 /\ i - f \in Int
          BY DEF RatioOK
        <4>2. (i - f) % n \in Int
          BY <4>1, Division
        <4>3. ~((i - f) % n < m)
          BY <1>3, <3>2 DEF OnSlot
        <4> QED
          BY <1>3, <4>2, <4>3 DEF OffSlot
      <3> QED
        BY <1>1, <3>1, <3>3
    <2> QED
      BY <2>1, <2>2 DEF FineMost, FineLeast
  <1>4. ASSUME NEW l \in 1..Coarse, n = NValues[l + 1]
        PROVE  CoarseMost(q, s, l) /\ (applyOr /\ s \in keep[0] => CoarseLeast(q, s, l))
    <2>1. n > Fine
      BY <1>4, ShareOfLevel
    <2>2. ASSUME NEW k \in OrSlot
          PROVE  s \in q.or[k] <=> applyOr /\ k = Coarse - l
      <3>1. CASE k < Coarse
        <4>1. NValues[LevelOf(k) + 1] = n <=> LevelOf(k) = l
          BY <1>4, <3>1, LevelIs, LevelsDiffer
        <4>2. LevelOf(k) = l <=> k = Coarse - l
          BY Sizes DEF LevelOf, OrSlot
        <4> QED
          BY <1>1, <3>1, <4>1, <4>2
      <3>2. CASE ~(k < Coarse)
        <4>1. ~OnSlot(m, n, f, k - Coarse)
          BY <2>1, Sizes DEF OnSlot
        <4>2. k # Coarse - l
          BY <3>2, Sizes DEF OrSlot
        <4> QED
          BY <1>1, <3>2, <4>1, <4>2
      <3> QED
        BY <3>1, <3>2
    <2>3. Coarse - l \in OrSlot
      BY Sizes DEF OrSlot
    <2>4. \A i \in 1..(Fine - 1) : i \in AndSlot /\ i < Fine /\ OffSlot(m, n, f, i)
      BY <2>1, Sizes DEF OffSlot, AndSlot
    <2>5. 0 \in AndSlot /\ ~OffSlot(m, n, f, 0)
      BY <2>1, Sizes DEF OffSlot, AndSlot
    <2>6. (\A i \in 1..(Fine - 1) : s \notin q.keep[i]) /\ (s \in keep[0] => s \in q.keep[0])
      BY <1>1, <2>4, <2>5
    <2> QED
      BY <2>2, <2>3, <2>6 DEF CoarseMost, CoarseLeast
  <1> QED
    BY <1>2, <1>3, <1>4

\* Start: the initial subsystems are on in all fine slots and never cleared.
LEMMA InitialMasks ==
  ASSUME NEW initial, NEW q, q = InitialPlan(initial)
  PROVE  /\ \A b : NoShot(q, b)
         /\ \A b \in Bit : KeepsAll(q, b)
         /\ \A b \in initial : \A k \in OrSlot : k >= Coarse => b \in q.or[k]
         /\ \A b : b \notin initial => NoOr(q, b)
  <1>0. PICK applyOr, keep, or : applyOr = TRUE /\ keep = EmptyKeep /\ or = EmptyOr
    OBVIOUS
  <1>1. q = PeriodicOn(keep, or, initial, 1, 1, 0, NoShots, applyOr)
    BY <1>0 DEF InitialPlan
  <1>2. /\ q.shot = NoShots
        /\ \A i \in AndSlot : \A b : b \in q.keep[i] <=>
             b \in EmptyKeep[i] /\ ~(i < Fine /\ OffSlot(1, 1, 0, i) /\ b \in initial)
        /\ \A k \in OrSlot : \A b : b \in q.or[k] <=>
             \/ b \in EmptyOr[k]
             \/ b \in initial /\ IF k < Coarse THEN NValues[LevelOf(k) + 1] = 1 ELSE OnSlot(1, 1, 0, k - Coarse)
    <2>1. /\ q.shot = NoShots
          /\ \A i \in AndSlot : \A b : b \in q.keep[i] <=>
               b \in keep[i] /\ ~(i < Fine /\ OffSlot(1, 1, 0, i) /\ b \in initial)
          /\ \A k \in OrSlot : \A b : b \in q.or[k] <=>
               \/ b \in or[k]
               \/ /\ applyOr /\ b \in initial
                  /\ IF k < Coarse THEN NValues[LevelOf(k) + 1] = 1 ELSE OnSlot(1, 1, 0, k - Coarse)
      BY <1>1, PeriodicOnIs
    <2> QED
      BY <1>0, <2>1
  <1>3. \A i \in Int : i % 1 = 0
    OBVIOUS
  <1>4. \A i \in AndSlot : ~OffSlot(1, 1, 0, i)
    BY <1>3, Sizes DEF OffSlot, AndSlot
  <1>5. \A k \in OrSlot : k >= Coarse => ~(k < Coarse) /\ OnSlot(1, 1, 0, k - Coarse)
    BY <1>3, Sizes DEF OnSlot, OrSlot
  <1>6. (\A i \in AndSlot : EmptyKeep[i] = Bit) /\ (\A k \in OrSlot : EmptyOr[k] = {} /\ NoShots[k] = {})
    BY DEF EmptyKeep, EmptyOr, NoShots
  <1>7. \A b : NoShot(q, b)
    BY <1>2, <1>6 DEF NoShot
  <1>8. \A b \in Bit : KeepsAll(q, b)
    BY <1>2, <1>4, <1>6 DEF KeepsAll
  <1>9. \A b \in initial : \A k \in OrSlot : k >= Coarse => b \in q.or[k]
    BY <1>2, <1>5
  <1>10. \A b : b \notin initial => NoOr(q, b)
    BY <1>2, <1>6 DEF NoOr
  <1> QED
    BY <1>7, <1>8, <1>9, <1>10

\* PeriodicOff takes its bit out of all OR masks and clears it in every slot.
LEMMA OffMasks ==
  ASSUME NEW keep, NEW or, NEW s, NEW bits, bits = {s}, NEW q, q = PeriodicOff(keep, or, bits)
  PROVE  NoOr(q, s) /\ \A i \in 0..(Fine - 1) : s \notin q.keep[i]
  <1>1. \A i \in AndSlot : q.keep[i] = IF i < Fine THEN keep[i] \ bits ELSE keep[i] \cup bits
    BY DEF PeriodicOff
  <1>2. \A k \in OrSlot : q.or[k] = or[k] \ bits
    BY DEF PeriodicOff
  <1>3. \A i \in 0..(Fine - 1) : i \in AndSlot /\ i < Fine
    BY Sizes DEF AndSlot
  <1>4. NoOr(q, s)
    BY <1>2 DEF NoOr
  <1> QED
    BY <1>1, <1>3, <1>4

\* A chunk changes the masks of its bit only: kept but at the end of its loop, or cleared everywhere.
LEMMA ChunkMasks ==
  ASSUME NEW o, NEW shots, NEW q, q = ChunkPlan(o, shots), NEW s, s = o.sub, NEW k, k = ChunkOf(o)[2]
  PROVE  /\ q.shot = shots /\ q.or = o.or
         /\ \A i \in AndSlot : \A b : b # s => (b \in q.keep[i] <=> b \in o.keep[i])
         /\ ~(k >= 0) => \A i \in AndSlot : s \notin q.keep[i]
         /\ k >= 0 => \A i \in AndSlot : s \in q.keep[i] <=> i # Fine + LevelOf(k)
  <1>1. /\ q.shot = shots /\ q.or = o.or
        /\ q.keep = IF k >= 0
                    THEN [i \in AndSlot |-> IF i = Fine + LevelOf(k) THEN o.keep[i] \ {s} ELSE o.keep[i] \cup {s}]
                    ELSE [i \in AndSlot |-> o.keep[i] \ {s}]
    BY DEF ChunkPlan, ChunkKeep
  <1>2. \A i \in AndSlot : q.keep[i] = IF k >= 0
                    THEN IF i = Fine + LevelOf(k) THEN o.keep[i] \ {s} ELSE o.keep[i] \cup {s}
                    ELSE o.keep[i] \ {s}
    BY <1>1
  <1> QED
    BY <1>1, <1>2

\* A macro about a subsystem leaves the masks of all others as it has read them.
LEMMA OthersKept ==
  ASSUME NEW o \in OpRecord, IsMacro(o), o.kind \in {"join", "leave", "shoot"}
  PROVE  /\ o.sub \in Subsystem /\ o.sub \in Bit
         /\ \A b : b # o.sub => /\ \A i \in AndSlot : b \in o.target.keep[i] <=> b \in o.keep[i]
                                /\ \A k \in OrSlot : b \in o.target.or[k] <=> b \in o.or[k]
                                /\ \A k \in OrSlot : b \notin o.target.shot[k]
         /\ o.kind \in {"join", "leave"} \/ o.step = "prepare" => o.target.shot = NoShots
         /\ o.kind = "shoot" => o.target.or = o.or
  <1>0. PICK s : s = o.sub
    OBVIOUS
  <1>1. s \in Subsystem /\ s \in Bit
    BY <1>0 DEF IsMacro, Bit
  <1>2. \A k \in OrSlot : NoShots[k] = {}
    BY DEF NoShots
  <1>3. CASE o.kind = "join"
    <2>1. PICK q, keep, or, m, n, f, applyOr : /\ q = o.target /\ keep = o.keep /\ or = o.or
                                               /\ m = o.m /\ n = o.n /\ f = o.offset /\ applyOr = (o.step = "set")
      OBVIOUS
    <2>2. q = PeriodicOn(keep, or, {s}, m, n, f, NoShots, applyOr)
      BY <1>0, <1>3, <2>1 DEF IsMacro, JoinPlan
    <2>3. /\ q.shot = NoShots
          /\ \A i \in AndSlot : \A b : b \in q.keep[i] <=>
               b \in keep[i] /\ ~(i < Fine /\ OffSlot(m, n, f, i) /\ b \in {s})
          /\ \A k \in OrSlot : \A b : b \in q.or[k] <=>
               \/ b \in or[k]
               \/ /\ applyOr /\ b \in {s}
                  /\ IF k < Coarse THEN NValues[LevelOf(k) + 1] = n ELSE OnSlot(m, n, f, k - Coarse)
      BY <2>2, PeriodicOnIs
    <2> QED
      BY <1>0, <1>1, <1>2, <1>3, <2>1, <2>3
  <1>4. CASE o.kind = "leave"
    <2>1. PICK q, keep, or, bits : q = o.target /\ keep = o.keep /\ or = o.or /\ bits = {s}
      OBVIOUS
    <2>2. q = PeriodicOff(keep, or, bits)
      BY <1>0, <1>4, <2>1 DEF IsMacro
    <2>3. q.shot = NoShots
      BY <2>2 DEF PeriodicOff
    <2>4. \A i \in AndSlot : q.keep[i] = IF i < Fine THEN keep[i] \ bits ELSE keep[i] \cup bits
      BY <2>2 DEF PeriodicOff
    <2>5. \A k \in OrSlot : q.or[k] = or[k] \ bits
      BY <2>2 DEF PeriodicOff
    <2>6. \A b : b # s => /\ \A i \in AndSlot : b \in q.keep[i] <=> b \in keep[i]
                          /\ \A k \in OrSlot : b \in q.or[k] <=> b \in or[k]
      <3>1. SUFFICES ASSUME NEW b, b # s
                     PROVE  /\ \A i \in AndSlot : b \in q.keep[i] <=> b \in keep[i]
                            /\ \A k \in OrSlot : b \in q.or[k] <=> b \in or[k]
        OBVIOUS
      <3>2. b \notin bits
        BY <2>1, <3>1
      <3>3. ASSUME NEW i \in AndSlot
            PROVE  b \in q.keep[i] <=> b \in keep[i]
        BY <2>4, <3>2
      <3>4. ASSUME NEW k \in OrSlot
            PROVE  b \in q.or[k] <=> b \in or[k]
        BY <2>5, <3>2
      <3> QED
        BY <3>3, <3>4
    <2> QED
      BY <1>0, <1>1, <1>2, <1>4, <2>1, <2>3, <2>6
  <1>5. CASE o.kind = "shoot"
    <2>1. PICK shots : /\ o.target = ChunkPlan(o, shots)
                       /\ \A k \in OrSlot : shots[k] \subseteq {s}
                       /\ o.step = "prepare" => shots = NoShots
      <3>1. CASE o.step = "prepare"
        BY <1>2, <1>5, <3>1 DEF IsMacro
      <3>2. CASE o.step # "prepare"
        <4>1. ChunkOf(o)[2] \in Int /\ ChunkOf(o)[1] \in Nat
          BY <1>5, ChunkOfIs, Sizes
        <4>2. \A k \in OrSlot : ChunkShots(s, ChunkOf(o), o.m, o.n)[k] \subseteq {s}
          BY <4>1, ArmedSlots
        <4>3. o.target = ChunkPlan(o, ChunkShots(s, ChunkOf(o), o.m, o.n))
          BY <1>0, <1>5, <3>2 DEF IsMacro, ArmedPlan
        <4> QED
          BY <3>2, <4>2, <4>3
      <3> QED
        BY <3>1, <3>2
    <2>2. PICK q, k : q = o.target /\ k = ChunkOf(o)[2]
      OBVIOUS
    <2>3. /\ q.shot = shots /\ q.or = o.or
          /\ \A i \in AndSlot : \A b : b # s => (b \in q.keep[i] <=> b \in o.keep[i])
      BY <1>0, <2>1, <2>2, ChunkMasks
    <2> QED
      BY <1>0, <1>1, <1>2, <1>5, <2>1, <2>2, <2>3
  <1> QED
    BY <1>3, <1>4, <1>5

\* What a joining macro writes for its subsystem.
LEMMA JoinTarget ==
  ASSUME NEW o \in OpRecord, IsMacro(o), o.kind = "join", NEW s, s = o.sub, \A k \in OrSlot : s \notin o.or[k]
  PROVE  /\ o.n <= Fine => /\ FineMost(o.target, s, FineOf(o.m, o.n, o.offset))
                           /\ o.step = "set" => FineLeast(o.target, s, FineOf(o.m, o.n, o.offset))
         /\ \A l \in 1..Coarse : o.n = NValues[l + 1] =>
              CoarseMost(o.target, s, l) /\ (o.step = "set" /\ s \in o.keep[0] => CoarseLeast(o.target, s, l))
         /\ o.step = "prepare" => NoOr(o.target, s)
  <1>1. PICK q, keep, or, m, n, f, applyOr : /\ q = o.target /\ keep = o.keep /\ or = o.or
                                             /\ m = o.m /\ n = o.n /\ f = o.offset /\ applyOr = (o.step = "set")
    OBVIOUS
  <1>2. q = PeriodicOn(keep, or, {s}, m, n, f, NoShots, applyOr) /\ RatioOK(m, n)
    BY <1>1 DEF IsMacro, JoinPlan
  <1>3. m \in Nat /\ n \in Nat /\ f \in Nat
    BY <1>1, OpRecordIs
  <1>4. \A k \in OrSlot : s \notin or[k]
    BY <1>1
  <1>5. n <= Fine => /\ FineMost(q, s, FineOf(m, n, f))
                     /\ applyOr => FineLeast(q, s, FineOf(m, n, f))
    BY <1>2, <1>3, <1>4, PeriodicMasks
  <1>6. \A l \in 1..Coarse : n = NValues[l + 1] =>
          CoarseMost(q, s, l) /\ (applyOr /\ s \in keep[0] => CoarseLeast(q, s, l))
    BY <1>2, <1>3, <1>4, PeriodicMasks
  <1>7. ASSUME ~applyOr
        PROVE  NoOr(q, s)
    <2>1. PICK bits : bits = {s}
      OBVIOUS
    <2>2. q = PeriodicOn(keep, or, bits, m, n, f, NoShots, applyOr)
      BY <1>2, <2>1
    <2>3. \A k \in OrSlot : \A b : b \in q.or[k] <=>
            \/ b \in or[k]
            \/ /\ applyOr /\ b \in bits
               /\ IF k < Coarse THEN NValues[LevelOf(k) + 1] = n ELSE OnSlot(m, n, f, k - Coarse)
      BY <2>2, PeriodicOnIs
    <2> QED
      BY <1>4, <1>7, <2>3 DEF NoOr
  <1> QED
    BY <1>1, <1>5, <1>6, <1>7

\* What a leaving macro writes for its subsystem.
LEMMA LeaveTarget ==
  ASSUME NEW o \in OpRecord, IsMacro(o), o.kind = "leave", NEW s, s = o.sub
  PROVE  NoOr(o.target, s) /\ \A i \in 0..(Fine - 1) : s \notin o.target.keep[i]
  <1>1. PICK q, keep, or, bits : q = o.target /\ keep = o.keep /\ or = o.or /\ bits = {s}
    OBVIOUS
  <1>2. q = PeriodicOff(keep, or, bits)
    BY <1>1 DEF IsMacro
  <1> QED
    BY <1>1, <1>2, OffMasks

\* What the macro of a single shot writes for its subsystem.
LEMMA ShootTarget ==
  ASSUME NEW o \in OpRecord, IsMacro(o), o.kind = "shoot", NEW s, s = o.sub, NEW k, k = ChunkOf(o)[2]
  PROVE  /\ ~(k >= 0) => \A i \in AndSlot : s \notin o.target.keep[i]
         /\ k >= 0 => \A i \in AndSlot : s \in o.target.keep[i] <=> i # Fine + LevelOf(k)
         /\ o.target.or = o.or
         /\ o.target.shot = IF o.step = "prepare" THEN NoShots ELSE ChunkShots(s, ChunkOf(o), o.m, o.n)
  <1>1. PICK shots : shots = IF o.step = "prepare" THEN NoShots ELSE ChunkShots(s, ChunkOf(o), o.m, o.n)
    OBVIOUS
  <1>2. PICK q : q = o.target
    OBVIOUS
  <1>3. q = ChunkPlan(o, shots)
    BY <1>1, <1>2 DEF IsMacro, ArmedPlan
  <1>4. /\ q.shot = shots /\ q.or = o.or
        /\ ~(k >= 0) => \A i \in AndSlot : s \notin q.keep[i]
        /\ k >= 0 => \A i \in AndSlot : s \in q.keep[i] <=> i # Fine + LevelOf(k)
    BY <1>3, ChunkMasks
  <1> QED
    BY <1>1, <1>2, <1>4

-----------------------------------------------------------------------------
(* Writing a word                                                           *)

\* The words of a plan.
LEMMA WordIs ==
  ASSUME NEW p
  PROVE  /\ \A i \in AndSlot : <<"and", i>> \in Mask /\ Word(p, <<"and", i>>) = p.keep[i]
         /\ \A k \in OrSlot : <<"or", k>> \in Mask /\ Word(p, <<"or", k>>) = p.or[k]
         /\ \A k \in OrSlot : <<"shot", k>> \in Mask /\ Word(p, <<"shot", k>>) = p.shot[k]
  BY DEF Mask, Word

\* A step that writes: the next word of the target that is not in the memory yet, and no other.
LEMMA WordWritten ==
  ASSUME TypeOK, NEW t \in Team, WriteWord(t)
  PROVE  \E o \in Mask :
           /\ Place(o) >= op[t].at
           /\ \A u \in Mask : Place(u) >= op[t].at /\ Word(plan, u) # Word(op[t].target, u) => Place(o) <= Place(u)
           /\ SameMacro([op[t] EXCEPT !.at = Place(o) + 1], op'[t])
           /\ Word(plan', o) = Word(op[t].target, o)
           /\ \A u \in Mask : u # o => Word(plan', u) = Word(plan, u)
  <1>1. PICK o \in ToWrite(t) :
          /\ \A u \in ToWrite(t) : Place(o) <= Place(u)
          /\ plan' = WithWord(plan, o, Word(op[t].target, o))
          /\ op' = [op EXCEPT ![t].at = Place(o) + 1]
    BY DEF WriteWord
  <1>2. /\ o \in Mask /\ Place(o) >= op[t].at
        /\ \A u \in Mask : Place(u) >= op[t].at /\ Word(plan, u) # Word(op[t].target, u) => Place(o) <= Place(u)
    BY <1>1 DEF ToWrite
  <1>3. op[t] \in OpRecord /\ op'[t] = [op[t] EXCEPT !.at = Place(o) + 1]
    BY <1>1 DEF TypeOK
  <1>4. SameMacro([op[t] EXCEPT !.at = Place(o) + 1], op'[t])
    BY <1>3 DEF SameMacro
  <1>5. PICK w : w = Word(op[t].target, o)
    OBVIOUS
  <1>6. w \in SUBSET Bit /\ plan \in Plan /\ op[t].target \in Plan
    BY <1>2, <1>3, <1>5, OpRecordIs, Words DEF TypeOK
  <1>7. PICK q : q = plan'
    OBVIOUS
  <1>8. q = WithWord(plan, o, w) /\ q \in Plan
    BY <1>1, <1>2, <1>5, <1>6, <1>7, Words
  <1>9. ASSUME NEW u \in Mask
        PROVE  Word(q, u) = IF u = o THEN w ELSE Word(plan, u)
    <2> DEFINE keep == plan.keep
               or == plan.or
               shot == plan.shot
    <2>0. keep \in [AndSlot -> SUBSET Bit] /\ or \in [OrSlot -> SUBSET Bit] /\ shot \in [OrSlot -> SUBSET Bit]
      BY <1>6, PlanIs
    <2>1. o = <<o[1], o[2]>> /\ u = <<u[1], u[2]>>
      BY <1>2 DEF Mask
    <2>2. /\ u[1] = "and" => u[2] \in AndSlot /\ Word(q, u) = q.keep[u[2]] /\ Word(plan, u) = keep[u[2]]
          /\ u[1] = "or" => u[2] \in OrSlot /\ Word(q, u) = q.or[u[2]] /\ Word(plan, u) = or[u[2]]
          /\ u[1] = "shot" => u[2] \in OrSlot /\ Word(q, u) = q.shot[u[2]] /\ Word(plan, u) = shot[u[2]]
          /\ u[1] \in {"and", "or", "shot"}
      BY <1>6, <1>8, Words
    <2>6. /\ o[1] = "and" => /\ o[2] \in AndSlot
                             /\ WithWord(plan, o, w).keep = [plan.keep EXCEPT ![o[2]] = w]
                             /\ WithWord(plan, o, w).or = plan.or /\ WithWord(plan, o, w).shot = plan.shot
          /\ o[1] = "or" => /\ o[2] \in OrSlot
                            /\ WithWord(plan, o, w).or = [plan.or EXCEPT ![o[2]] = w]
                            /\ WithWord(plan, o, w).keep = plan.keep /\ WithWord(plan, o, w).shot = plan.shot
          /\ o[1] = "shot" => /\ o[2] \in OrSlot
                              /\ WithWord(plan, o, w).keep = plan.keep /\ WithWord(plan, o, w).or = plan.or
      <3>1. PICK p, v : p = plan /\ v = w
        OBVIOUS
      <3>2. p \in Plan /\ o \in Mask /\ v \in SUBSET Bit
        BY <1>2, <1>6, <3>1
      <3>3. o[1] = "and" => /\ o[2] \in AndSlot
                            /\ WithWord(p, o, v).keep = [p.keep EXCEPT ![o[2]] = v]
                            /\ WithWord(p, o, v).or = p.or /\ WithWord(p, o, v).shot = p.shot
        BY <3>2, Words
      <3>4. o[1] = "or" => /\ o[2] \in OrSlot
                           /\ WithWord(p, o, v).or = [p.or EXCEPT ![o[2]] = v]
                           /\ WithWord(p, o, v).keep = p.keep /\ WithWord(p, o, v).shot = p.shot
        BY <3>2, Words
      <3>5. ASSUME o[1] = "shot"
            PROVE  /\ o[2] \in OrSlot
                   /\ WithWord(p, o, v).keep = p.keep /\ WithWord(p, o, v).or = p.or
        <4>1. o[2] \in OrSlot
          BY <3>5, <1>2 DEF Mask
        <4>2. WithWord(p, o, v) = [p EXCEPT !.shot[o[2]] = v]
          BY <3>5 DEF WithWord
        <4>3. p = [keep |-> p.keep, or |-> p.or, shot |-> p.shot]
          BY <3>2 DEF Plan
        <4> QED
          BY <4>1, <4>2, <4>3
      <3> QED
        BY <3>1, <3>3, <3>4, <3>5
    <2> HIDE DEF keep, or, shot
    <2>3. CASE o[1] = "and"
      <3>1. q.keep = [keep EXCEPT ![o[2]] = w] /\ q.or = or /\ q.shot = shot /\ o[2] \in AndSlot
        BY <1>8, <2>3, <2>6 DEF keep, or, shot
      <3> QED
        BY <2>0, <2>1, <2>2, <2>3, <3>1
    <2>4. CASE o[1] = "or"
      <3>1. q.or = [or EXCEPT ![o[2]] = w] /\ q.keep = keep /\ q.shot = shot /\ o[2] \in OrSlot
        BY <1>8, <2>4, <2>6 DEF keep, or, shot
      <3> QED
        BY <2>0, <2>1, <2>2, <2>4, <3>1
    <2>5. CASE o[1] = "shot"
      <3>1. q.shot = [shot EXCEPT ![o[2]] = w] /\ q.keep = keep /\ q.or = or /\ o[2] \in OrSlot
        <4>1. WithWord(plan, o, w).shot = [plan.shot EXCEPT ![o[2]] = w]
          <5>1. WithWord(plan, o, w) = [plan EXCEPT !.shot[o[2]] = w]
            BY <2>5 DEF WithWord
          <5>2. plan = [keep |-> plan.keep, or |-> plan.or, shot |-> plan.shot]
            BY <1>6, PlanIs
          <5> QED
            BY <5>1, <5>2
        <4>2. WithWord(plan, o, w).keep = plan.keep
          BY <2>5, <2>6
        <4>3. WithWord(plan, o, w).or = plan.or
          BY <2>5, <2>6
        <4>4. o[2] \in OrSlot
          BY <2>5, <2>6
        <4> QED
          BY <1>8, <4>1, <4>2, <4>3, <4>4 DEF keep, or, shot
      <3> QED
        BY <2>0, <2>1, <2>2, <2>5, <3>1
    <2> QED
      BY <1>2, <1>6, <2>3, <2>4, <2>5, Words
  <1>10. \A u \in Mask : Word(plan', u) = IF u = o THEN Word(op[t].target, o) ELSE Word(plan, u)
    BY <1>5, <1>7, <1>9
  <1>11. /\ Word(plan', o) = Word(op[t].target, o)
         /\ \A u \in Mask : u # o => Word(plan', u) = Word(plan, u)
    BY <1>2, <1>10
  <1> QED
    BY <1>2, <1>4, <1>11

\* Meanwhile every word is an old one or one of the target.
Mixed(p, q, r) ==
  /\ \A i \in AndSlot : q.keep[i] \in {p.keep[i], r.keep[i]}
  /\ \A k \in OrSlot : q.or[k] \in {p.or[k], r.or[k]}
  /\ \A k \in OrSlot : q.shot[k] \in {p.shot[k], r.shot[k]}

\* After a write the plan is a mix of the plan before and of the target.
LEMMA WritesMix ==
  ASSUME TypeOK, NEW t \in Team, WriteWord(t)
  PROVE  Mixed(plan, plan', op[t].target)
  <1>1. PICK o \in Mask : /\ Word(plan', o) = Word(op[t].target, o)
                          /\ \A u \in Mask : u # o => Word(plan', u) = Word(plan, u)
    BY WordWritten
  <1>2. \A u \in Mask : Word(plan', u) \in {Word(plan, u), Word(op[t].target, u)}
    BY <1>1
  <1>3. PICK p, q, r : p = plan /\ q = plan' /\ r = op[t].target
    OBVIOUS
  <1>4. \A u \in Mask : Word(q, u) \in {Word(p, u), Word(r, u)}
    BY <1>2, <1>3
  <1>5. Mixed(p, q, r)
    BY <1>4, WordIs DEF Mixed
  <1> QED
    BY <1>3, <1>5

-----------------------------------------------------------------------------
(* Bits that a step of a macro does not touch                               *)

SameWordsOf(p, q, b) ==
  /\ \A i \in AndSlot : b \in q.keep[i] <=> b \in p.keep[i]
  /\ \A k \in OrSlot : b \in q.or[k] <=> b \in p.or[k]
  /\ \A k \in OrSlot : b \in q.shot[k] => b \in p.shot[k]

Untouched(b) ==
  /\ pc' = pc /\ number' = number /\ mode' = mode
  /\ SameWordsOf(plan, plan', b)
  /\ share'[b] = share[b] /\ asked'[b] = asked[b] /\ due'[b] = due[b]
  /\ settled' \subseteq settled

\* What the words of a bit make of it depends on them only.
LEMMA SameMasks ==
  ASSUME NEW p, NEW q, NEW b, SameWordsOf(p, q, b)
  PROVE  /\ KeepsAll(p, b) => KeepsAll(q, b)
         /\ NoOr(p, b) => NoOr(q, b)
         /\ NoShot(p, b) => NoShot(q, b)
         /\ \A D : FineMost(p, b, D) => FineMost(q, b, D)
         /\ \A D : FineLeast(p, b, D) => FineLeast(q, b, D)
         /\ \A l \in 1..Coarse : CoarseMost(p, b, l) => CoarseMost(q, b, l)
         /\ \A l \in 1..Coarse : CoarseLeast(p, b, l) => CoarseLeast(q, b, l)
  <1>1. /\ \A i \in 0..(Fine - 1) : i \in AndSlot
        /\ \A l \in 1..Coarse : Coarse - l \in OrSlot
        /\ 0 \in AndSlot
    BY Sizes DEF AndSlot, OrSlot
  <1>2. KeepsAll(p, b) => KeepsAll(q, b)
    BY DEF SameWordsOf, KeepsAll
  <1>3. NoOr(p, b) => NoOr(q, b)
    BY DEF SameWordsOf, NoOr
  <1>4. NoShot(p, b) => NoShot(q, b)
    BY DEF SameWordsOf, NoShot
  <1>5. \A D : FineMost(p, b, D) => FineMost(q, b, D)
    BY <1>1 DEF SameWordsOf, FineMost
  <1>6. \A D : FineLeast(p, b, D) => FineLeast(q, b, D)
    BY DEF SameWordsOf, FineLeast
  <1>7. \A l \in 1..Coarse : CoarseMost(p, b, l) => CoarseMost(q, b, l)
    <2>1. \A i \in 1..(Fine - 1) : i \in AndSlot
      BY <1>1
    <2> QED
      BY <2>1 DEF SameWordsOf, CoarseMost
  <1>8. \A l \in 1..Coarse : CoarseLeast(p, b, l) => CoarseLeast(q, b, l)
    BY <1>1 DEF SameWordsOf, CoarseLeast
  <1> QED
    BY <1>2, <1>3, <1>4, <1>5, <1>6, <1>7, <1>8

\* A bit that is always on or off, and that is not touched, stays so.
LEMMA UntouchedFull ==
  ASSUME NEW b, Untouched(b)
  PROVE  /\ FullShape(b) => FullShape(b)'
         /\ SilentShape(b) => SilentShape(b)'
         /\ NoShot(plan, b) => NoShot(plan, b)'
         /\ Fresh(b) => Fresh(b)'
         /\ NowOK(b) => NowOK(b)'
  <1>1. PICK p, q : p = plan /\ q = plan'
    OBVIOUS
  <1>2. /\ KeepsAll(plan, b) => KeepsAll(plan, b)'
        /\ NoOr(plan, b) => NoOr(plan, b)'
        /\ NoShot(plan, b) => NoShot(plan, b)'
    BY <1>1, SameMasks DEF Untouched
  <1>3. (\A k \in OrSlot : k >= Coarse => b \in plan.or[k]) => \A k \in OrSlot : k >= Coarse => b \in plan'.or[k]
    BY DEF Untouched, SameWordsOf
  <1>4. FullMode(pc, plan, mode, b) => FullMode(pc', plan', mode', b)
    BY <1>3 DEF Untouched, FullMode
  <1>5. FullShape(b) => FullShape(b)'
    BY <1>2, <1>4 DEF Untouched, FullShape
  <1>6. SilentShape(b) => SilentShape(b)'
    BY <1>2 DEF Untouched, SilentShape
  <1>7. Fresh(b) => Fresh(b)'
    BY <1>2 DEF Untouched, Fresh
  <1>8. NowOK(b) => NowOK(b)'
    BY DEF Untouched, NowOK
  <1> QED
    BY <1>2, <1>5, <1>6, <1>7, <1>8

\* What no macro works on rests while it is not touched.
LEMMA UntouchedRests ==
  ASSUME NEW b, Untouched(b), Resting(b)
  PROVE  Resting(b)'
  <1>1. PICK p, q : p = plan /\ q = plan'
    OBVIOUS
  <1>2. SameWordsOf(p, q, b)
    BY <1>1 DEF Untouched
  <1>3. Steady(b)' => Steady(b)
    BY DEF Untouched, Steady
  <1>4. FineShape(b) => FineShape(b)'
    <2>1. SUFFICES ASSUME NEW D \in SUBSET (0..(Fine - 1)), FineIn(b, D)
                   PROVE  FineIn(b, D)'
      BY DEF FineShape
    <2>2. FineMost(q, b, D) /\ FineLeast(q, b, D)
      BY <1>1, <1>2, <2>1, SameMasks DEF FineIn
    <2>3. FineMost(plan, b, D)' /\ FineLeast(plan, b, D)'
      BY <1>1, <2>2
    <2>4. b \in settled' => FineExact(pc', mode', b, D)
      BY <2>1 DEF FineIn, Untouched
    <2> QED
      BY <2>1, <2>3, <2>4 DEF FineIn, Untouched
  <1>5. CoarseShape(b) => CoarseShape(b)'
    <2>1. SUFFICES ASSUME NEW l \in 1..Coarse, CoarseIn(b, l)
                   PROVE  CoarseIn(b, l)'
      BY DEF CoarseShape
    <2>2. CoarseMost(q, b, l) /\ CoarseLeast(q, b, l)
      BY <1>1, <1>2, <2>1, SameMasks DEF CoarseIn
    <2>3. CoarseMost(plan, b, l)' /\ CoarseLeast(plan, b, l)'
      BY <1>1, <2>2
    <2>4. /\ b \in settled' => CoarseExact(pc', number', mode', b, l)
          /\ Steady(b)' => CoarseMode(pc', number', mode', b, l)
      BY <1>3, <2>1 DEF CoarseIn, Untouched
    <2> QED
      BY <2>1, <2>3, <2>4 DEF CoarseIn, Untouched
  <1>6. FullShape(b)' \/ SilentShape(b)' \/ FineShape(b)' \/ CoarseShape(b)'
    BY <1>4, <1>5, UntouchedFull DEF Resting
  <1>7. NoShot(plan, b)' /\ due'[b] = 0
    BY UntouchedFull DEF Resting, Untouched
  <1>8. Steady(b)' => NowOK(b)'
    BY <1>3, UntouchedFull DEF Resting
  <1> QED
    BY <1>6, <1>7, <1>8 DEF Resting

-----------------------------------------------------------------------------
(* A bit whose words are being written                                      *)

\* What both the old words and the target say of a bit, the words say in between.
LEMMA MixedMasks ==
  ASSUME NEW p, NEW q, NEW r, Mixed(p, q, r), NEW b
  PROVE  /\ KeepsAll(p, b) /\ KeepsAll(r, b) => KeepsAll(q, b)
         /\ NoOr(p, b) /\ NoOr(r, b) => NoOr(q, b)
         /\ NoShot(p, b) /\ NoShot(r, b) => NoShot(q, b)
         /\ \A D : FineMost(p, b, D) /\ FineMost(r, b, D) => FineMost(q, b, D)
         /\ \A l \in 1..Coarse : CoarseMost(p, b, l) /\ CoarseMost(r, b, l) => CoarseMost(q, b, l)
         /\ SameWordsOf(p, r, b) => SameWordsOf(p, q, b)
  <1>1. /\ \A i \in 0..(Fine - 1) : i \in AndSlot
        /\ \A l \in 1..Coarse : Coarse - l \in OrSlot
    BY Sizes DEF AndSlot, OrSlot
  <1>2. KeepsAll(p, b) /\ KeepsAll(r, b) => KeepsAll(q, b)
    BY DEF Mixed, KeepsAll
  <1>3. NoOr(p, b) /\ NoOr(r, b) => NoOr(q, b)
    BY DEF Mixed, NoOr
  <1>4. NoShot(p, b) /\ NoShot(r, b) => NoShot(q, b)
    BY DEF Mixed, NoShot
  <1>5. \A D : FineMost(p, b, D) /\ FineMost(r, b, D) => FineMost(q, b, D)
    BY <1>1 DEF Mixed, FineMost
  <1>6. \A l \in 1..Coarse : CoarseMost(p, b, l) /\ CoarseMost(r, b, l) => CoarseMost(q, b, l)
    <2>1. \A i \in 1..(Fine - 1) : i \in AndSlot
      BY <1>1
    <2> QED
      BY <2>1 DEF Mixed, CoarseMost
  <1>7. SameWordsOf(p, r, b) => SameWordsOf(p, q, b)
    BY DEF Mixed, SameWordsOf
  <1> QED
    BY <1>2, <1>3, <1>4, <1>5, <1>6, <1>7

\* A step that writes changes nothing but a word and the place it has come to.
LEMMA WritesFrame ==
  ASSUME TypeOK, NEW t \in Team, WriteWord(t)
  PROVE  /\ UNCHANGED <<hardware, history>> /\ op[t].step \in {"prepare", "set"}
         /\ op[t] \in OpRecord
         /\ op'[t].kind = op[t].kind /\ op'[t].step = op[t].step /\ op'[t].sub = op[t].sub
         /\ op'[t].m = op[t].m /\ op'[t].n = op[t].n /\ op'[t].offset = op[t].offset
         /\ op'[t].keep = op[t].keep /\ op'[t].or = op[t].or /\ op'[t].remaining = op[t].remaining
         /\ op'[t].target = op[t].target
  <1>1. PICK o : SameMacro([op[t] EXCEPT !.at = Place(o) + 1], op'[t])
    BY WordWritten
  <1>2. op[t] \in OpRecord
    BY DEF TypeOK
  <1>3. UNCHANGED <<hardware, history>> /\ op[t].step \in {"prepare", "set"}
    BY DEF WriteWord
  <1> QED
    BY <1>1, <1>2, <1>3, OpRecordIs DEF SameMacro

\* What has been copied stays copied, up to the place that the writing has come to.
LEMMA CopiedWrites ==
  ASSUME TypeOK, NEW t \in Team, WriteWord(t), Copied(op[t])
  PROVE  Copied(op[t])'
  <1>1. PICK o \in Mask :
          /\ Place(o) >= op[t].at
          /\ \A u \in Mask : Place(u) >= op[t].at /\ Word(plan, u) # Word(op[t].target, u) => Place(o) <= Place(u)
          /\ SameMacro([op[t] EXCEPT !.at = Place(o) + 1], op'[t])
          /\ Word(plan', o) = Word(op[t].target, o)
          /\ \A u \in Mask : u # o => Word(plan', u) = Word(plan, u)
    BY WordWritten
  <1>2. op[t].step # "wait" /\ op'[t].step = op[t].step /\ op'[t].target = op[t].target /\ op[t] \in OpRecord
    BY WritesFrame
  <1>3. op'[t].at = Place(o) + 1 /\ op[t].at \in Nat
    BY <1>1, <1>2, OpRecordIs DEF SameMacro
  <1>4. ASSUME NEW u \in Mask, u[1] # "shot", Place(u) < op'[t].at
        PROVE  Word(plan', u) = Word(op[t].target, u)
    <2>1. Place(u) \in Nat /\ Place(o) \in Nat
      BY PlaceType
    <2>2. CASE u = o
      BY <1>1, <2>2
    <2>3. CASE u # o
      <3>1. Place(u) # Place(o)
        BY <2>3, PlacesDiffer
      <3>2. Place(u) < Place(o)
        BY <1>3, <1>4, <2>1, <3>1
      <3>3. Word(plan', u) = Word(plan, u)
        BY <1>1, <2>3
      <3>4. CASE Place(u) < op[t].at
        BY <1>4, <3>3, <3>4 DEF Copied
      <3>5. CASE ~(Place(u) < op[t].at)
        <4>1. Place(u) >= op[t].at /\ ~(Place(o) <= Place(u))
          BY <1>3, <2>1, <3>2, <3>5
        <4> QED
          BY <1>1, <3>3, <4>1
      <3> QED
        BY <3>4, <3>5
    <2> QED
      BY <2>2, <2>3
  <1> QED
    BY <1>2, <1>4 DEF Copied

\* The bits of the others are in the target as they are in the memory.
LEMMA OthersAgree ==
  ASSUME TypeOK, NEW t \in Team, IsMacro(op[t]), op[t].kind \in {"join", "leave", "shoot"}, Merges(op[t]),
         NEW b \in Bit, b # op[t].sub
  PROVE  SameWordsOf(plan, op[t].target, b)
  <1>1. PICK o, q : o = op[t] /\ q = op[t].target
    OBVIOUS
  <1>2. o \in OpRecord
    BY <1>1 DEF TypeOK
  <1>3. /\ \A i \in AndSlot : b \in q.keep[i] <=> b \in o.keep[i]
        /\ \A k \in OrSlot : b \in q.or[k] <=> b \in o.or[k]
        /\ \A k \in OrSlot : b \notin q.shot[k]
    BY <1>1, <1>2, OthersKept
  <1>4. /\ \A i \in AndSlot : b \in o.keep[i] <=> b \in plan.keep[i]
        /\ \A k \in OrSlot : b \in o.or[k] <=> b \in plan.or[k]
    BY <1>1 DEF Merges
  <1> QED
    BY <1>1, <1>3, <1>4 DEF SameWordsOf

\* A step that writes touches the bits of its own macro only.
LEMMA WritesTouch ==
  ASSUME TypeOK, NEW t \in Team, IsMacro(op[t]), op[t].kind \in {"join", "leave", "shoot"}, Merges(op[t]),
         WriteWord(t), NEW b \in Bit, b # op[t].sub
  PROVE  Untouched(b)
  <1>1. PICK p, q, r : p = plan /\ q = plan' /\ r = op[t].target
    OBVIOUS
  <1>2. SameWordsOf(p, r, b) /\ Mixed(p, q, r)
    BY <1>1, OthersAgree, WritesMix
  <1>3. SameWordsOf(p, q, b)
    BY <1>2, MixedMasks
  <1> QED
    BY <1>1, <1>3, WritesFrame DEF Untouched, hardware, history

\* What a macro has read of the others stays what the memory holds.
LEMMA MergesWrites ==
  ASSUME TypeOK, NEW t \in Team, IsMacro(op[t]), op[t].kind \in {"join", "leave", "shoot"}, Merges(op[t]), WriteWord(t)
  PROVE  Merges(op[t])'
  <1>1. UNCHANGED history /\ op'[t].sub = op[t].sub /\ op'[t].keep = op[t].keep /\ op'[t].or = op[t].or
    BY WritesFrame
  <1>2. ASSUME NEW b \in Bit \ {op[t].sub}
        PROVE  /\ \A i \in AndSlot : b \in op[t].keep[i] <=> b \in plan'.keep[i]
               /\ \A k \in OrSlot : b \in op[t].or[k] <=> b \in plan'.or[k]
    <2>1. SameWordsOf(plan, plan', b)
      BY WritesTouch DEF Untouched
    <2> QED
      BY <2>1 DEF Merges, SameWordsOf
  <1>3. Copied(op[t])'
    BY CopiedWrites DEF Merges
  <1> QED
    BY <1>1, <1>2, <1>3 DEF Merges, history

\* A joining macro sets its bit in its own events only, however far it has got.
LEMMA JoinWrites ==
  ASSUME TypeOK, NEW t \in Team, IsMacro(op[t]), op[t].kind = "join", JoinOK(op[t]), WriteWord(t)
  PROVE  JoinOK(op[t])'
  <1>0. PICK o, s, p, q, r : o = op[t] /\ s = op[t].sub /\ p = plan /\ q = plan' /\ r = op[t].target
    OBVIOUS
  <1>1. o \in OpRecord /\ IsMacro(o) /\ o.kind = "join" /\ r = o.target /\ s = o.sub /\ Mixed(p, q, r)
        /\ o.step \in {"prepare", "set"}
    BY <1>0, WritesMix, WritesFrame
  <1>2. /\ NoShot(p, s) /\ due[s] = 0 /\ NowOK(s) /\ Share(o.m, o.n, o.offset) \subseteq asked[s]
        /\ \A k \in OrSlot : s \notin o.or[k]
        /\ o.n > Fine => s \in o.keep[0]
        /\ o.step = "prepare" =>
             /\ NoOr(p, s)
             /\ s \in mode => o.n <= Fine /\ \A i \in 0..(Fine - 1) : s \notin p.keep[i] \cup o.keep[i]
        /\ o.step = "set" =>
             /\ o.n <= Fine => FineMost(p, s, FineOf(o.m, o.n, o.offset))
             /\ \A l \in 1..Coarse : o.n = NValues[l + 1] =>
                  CoarseMost(p, s, l) /\ CoarseMode(pc, number, mode, s, l)
    BY <1>0 DEF JoinOK
  <1>3. NoShot(r, s)
    <2>1. r.shot = NoShots
      BY <1>1, OthersKept
    <2> QED
      BY <2>1 DEF NoShot, NoShots
  <1>4. NoShot(q, s)
    BY <1>1, <1>2, <1>3, MixedMasks
  <1>5. ASSUME o.step = "prepare"
        PROVE  /\ NoOr(q, s)
               /\ s \in mode => o.n <= Fine /\ \A i \in 0..(Fine - 1) : s \notin q.keep[i] \cup o.keep[i]
    <2>1. NoOr(r, s)
      BY <1>1, <1>2, <1>5, JoinTarget
    <2>2. NoOr(q, s)
      BY <1>1, <1>2, <1>5, <2>1, MixedMasks
    <2>3. ASSUME s \in mode
          PROVE  o.n <= Fine /\ \A i \in 0..(Fine - 1) : s \notin q.keep[i] \cup o.keep[i]
      <3>1. /\ o.n <= Fine
            /\ \A i \in 0..(Fine - 1) : s \notin p.keep[i] /\ s \notin o.keep[i] /\ i \in AndSlot
        BY <1>2, <1>5, <2>3, Sizes DEF AndSlot
      <3>2. \A i \in 0..(Fine - 1) : s \notin r.keep[i]
        <4>1. r = PeriodicOn(o.keep, o.or, {s}, o.m, o.n, o.offset, NoShots, FALSE)
          BY <1>1, <1>5 DEF IsMacro, JoinPlan
        <4>2. \A i \in AndSlot : r.keep[i] \subseteq o.keep[i]
          BY <4>1 DEF PeriodicOn
        <4> QED
          BY <3>1, <4>2
      <3> QED
        BY <1>1, <3>1, <3>2 DEF Mixed
    <2> QED
      BY <2>2, <2>3
  <1>6. ASSUME o.step = "set", o.n <= Fine
        PROVE  FineMost(q, s, FineOf(o.m, o.n, o.offset))
    <2>1. FineMost(r, s, FineOf(o.m, o.n, o.offset))
      BY <1>1, <1>2, <1>6, JoinTarget
    <2> QED
      BY <1>1, <1>2, <1>6, <2>1, MixedMasks
  <1>7. ASSUME o.step = "set", NEW l \in 1..Coarse, o.n = NValues[l + 1]
        PROVE  CoarseMost(q, s, l) /\ CoarseMode(pc, number, mode, s, l)
    <2>1. CoarseMost(r, s, l)
      BY <1>1, <1>2, <1>7, JoinTarget
    <2> QED
      BY <1>1, <1>2, <1>7, <2>1, MixedMasks
  <1>8. /\ pc' = pc /\ number' = number /\ mode' = mode /\ share' = share /\ asked' = asked /\ due' = due
        /\ op'[t].sub = s /\ op'[t].m = o.m /\ op'[t].n = o.n /\ op'[t].offset = o.offset
        /\ op'[t].or = o.or /\ op'[t].keep = o.keep /\ op'[t].step = o.step
    BY <1>0, WritesFrame DEF hardware, history
  <1>9. NowOK(s)'
    BY <1>2, <1>8 DEF NowOK
  <1>10. PICK u : u = op'[t]
    OBVIOUS
  <1>11. /\ NoShot(plan', s) /\ due'[s] = 0 /\ Share(u.m, u.n, u.offset) \subseteq asked'[s]
         /\ \A k \in OrSlot : s \notin u.or[k]
         /\ u.n > Fine => s \in u.keep[0]
         /\ u.step = "prepare" =>
              /\ NoOr(plan', s)
              /\ s \in mode' => u.n <= Fine /\ \A i \in 0..(Fine - 1) : s \notin plan'.keep[i] \cup u.keep[i]
    BY <1>0, <1>2, <1>4, <1>5, <1>8, <1>10
  <1>12. u.step = "set" =>
           /\ u.n <= Fine => FineMost(plan', s, FineOf(u.m, u.n, u.offset))
           /\ \A l \in 1..Coarse : u.n = NValues[l + 1] =>
                CoarseMost(plan', s, l) /\ CoarseMode(pc', number', mode', s, l)
    BY <1>0, <1>6, <1>7, <1>8, <1>10
  <1> QED
    BY <1>8, <1>9, <1>10, <1>11, <1>12 DEF JoinOK

\* A leaving macro leaves its bit no place but those it was on in.
LEMMA LeaveWrites ==
  ASSUME TypeOK, NEW t \in Team, IsMacro(op[t]), op[t].kind = "leave", LeaveOK(op[t]), WriteWord(t)
  PROVE  LeaveOK(op[t])'
  <1>0. PICK o, s, p, q, r : o = op[t] /\ s = op[t].sub /\ p = plan /\ q = plan' /\ r = op[t].target
    OBVIOUS
  <1>1. o \in OpRecord /\ IsMacro(o) /\ o.kind = "leave" /\ r = o.target /\ s = o.sub /\ Mixed(p, q, r)
    BY <1>0, WritesMix, WritesFrame
  <1>2. NoShot(p, s) /\ due[s] = 0 /\ NowOK(s) /\ Fading(s)
    BY <1>0 DEF LeaveOK
  <1>3. NoOr(r, s) /\ \A i \in 0..(Fine - 1) : s \notin r.keep[i]
    BY <1>1, LeaveTarget
  <1>4. NoShot(r, s)
    <2>1. r.shot = NoShots
      BY <1>1, OthersKept
    <2> QED
      BY <2>1 DEF NoShot, NoShots
  <1>5. NoShot(q, s)
    BY <1>1, <1>2, <1>4, MixedMasks
  <1>6. /\ pc' = pc /\ number' = number /\ mode' = mode /\ share' = share /\ asked' = asked /\ due' = due
        /\ op'[t].sub = s
    BY <1>0, WritesFrame DEF hardware, history
  <1>7. (\A D : FineMost(r, s, D)) /\ \A l \in 1..Coarse : CoarseMost(r, s, l)
    BY <1>3, Sizes DEF FineMost, CoarseMost, NoOr
  <1>8. \/ share[s] \cup asked[s] = All
        \/ NoOr(q, s) /\ s \notin mode
        \/ \E D \in SUBSET (0..(Fine - 1)) : OfSlots(D) \subseteq asked[s] /\ FineMost(q, s, D)
        \/ \E l \in 1..Coarse : /\ OfLevel(l) \subseteq asked[s]
                                /\ CoarseMost(q, s, l) /\ CoarseMode(pc, number, mode, s, l)
    <2>1. CASE share[s] \cup asked[s] = All
      BY <2>1
    <2>2. CASE NoOr(p, s) /\ s \notin mode
      BY <1>1, <1>3, <2>2, MixedMasks
    <2>3. CASE \E D \in SUBSET (0..(Fine - 1)) : OfSlots(D) \subseteq asked[s] /\ FineMost(p, s, D)
      BY <1>1, <1>7, <2>3, MixedMasks
    <2>4. CASE \E l \in 1..Coarse : /\ OfLevel(l) \subseteq asked[s]
                                    /\ CoarseMost(p, s, l) /\ CoarseMode(pc, number, mode, s, l)
      BY <1>1, <1>7, <2>4, MixedMasks
    <2> QED
      BY <1>0, <1>2, <2>1, <2>2, <2>3, <2>4 DEF Fading
  <1>9. Fading(s)'
    BY <1>0, <1>6, <1>8 DEF Fading
  <1>10. NowOK(s)'
    BY <1>2, <1>6 DEF NowOK
  <1> QED
    BY <1>0, <1>2, <1>5, <1>6, <1>9, <1>10 DEF LeaveOK

\* Writing the word of a shot arms what was still to be armed.
LEMMA PendingWrites ==
  ASSUME TypeOK, NEW t \in Team, op[t].kind = "shoot", op[t].step = "set", Armed(op[t]), WriteWord(t)
  PROVE  Armed(op[t])' /\ Pending(op[t])' = Pending(op[t])
  <1>0. PICK a, s, p, q, r : a = op[t].at /\ s = op[t].sub /\ p = plan /\ q = plan' /\ r = op[t].target
    OBVIOUS
  <1>1. PICK o \in Mask :
          /\ Place(o) >= a
          /\ \A u \in Mask : Place(u) >= a /\ Word(p, u) # Word(r, u) => Place(o) <= Place(u)
          /\ SameMacro([op[t] EXCEPT !.at = Place(o) + 1], op'[t])
          /\ Word(q, o) = Word(r, o)
          /\ \A u \in Mask : u # o => Word(q, u) = Word(p, u)
    BY <1>0, WordWritten
  <1>2. op[t] \in OpRecord /\ op'[t].step = "set" /\ op'[t].sub = s /\ op'[t].target = r
    BY <1>0, WritesFrame
  <1>3. op'[t].at = Place(o) + 1 /\ a \in Nat
    BY <1>0, <1>1, <1>2, OpRecordIs DEF SameMacro
  <1>4. ASSUME NEW j \in OrSlot
        PROVE  /\ s \in q.shot[j] => s \in r.shot[j] /\ Place(<<"shot", j>>) < Place(o) + 1
               /\ \/ s \in q.shot[j]
                  \/ Place(<<"shot", j>>) >= Place(o) + 1 /\ s \in r.shot[j]
                  <=>
                  \/ s \in p.shot[j]
                  \/ Place(<<"shot", j>>) >= a /\ s \in r.shot[j]
    <2>1. PICK u : u = <<"shot", j>>
      OBVIOUS
    <2>2. u \in Mask /\ Word(p, u) = p.shot[j] /\ Word(q, u) = q.shot[j] /\ Word(r, u) = r.shot[j]
      BY <2>1, WordIs
    <2>3. Place(u) \in Nat /\ Place(o) \in Nat
      BY <2>2, PlaceType
    <2>4. s \in p.shot[j] => s \in r.shot[j] /\ Place(u) < a
      BY <1>0, <2>1 DEF Armed
    <2>5. CASE u = o
      BY <1>1, <1>3, <2>1, <2>2, <2>3, <2>4, <2>5
    <2>6. CASE u # o
      <3>1. Place(u) # Place(o)
        BY <2>2, <2>6, PlacesDiffer
      <3>2. q.shot[j] = p.shot[j]
        BY <1>1, <2>2, <2>6
      <3>3. Place(u) >= a /\ Place(u) < Place(o) => p.shot[j] = r.shot[j]
        BY <1>1, <2>2, <2>3
      <3> QED
        BY <1>1, <1>3, <2>1, <2>3, <2>4, <3>1, <3>2, <3>3
    <2> QED
      BY <2>5, <2>6
  <1>5. Armed(op[t])'
    BY <1>0, <1>2, <1>3, <1>4 DEF Armed
  <1>6. Pending(op[t]) = {k \in OrSlot : s \in p.shot[k] \/ (Place(<<"shot", k>>) >= a /\ s \in r.shot[k])}
    BY <1>0 DEF Pending
  <1>7. Pending(op[t])' = {k \in OrSlot : s \in q.shot[k] \/ (Place(<<"shot", k>>) >= Place(o) + 1 /\ s \in r.shot[k])}
    BY <1>0, <1>2, <1>3 DEF Pending
  <1> QED
    BY <1>4, <1>5, <1>6, <1>7

\* A single shot stays as long as it is to be, however far its macro has got.
LEMMA ShootWrites ==
  ASSUME TypeOK, NEW t \in Team, IsMacro(op[t]), op[t].kind = "shoot", ShootOK(op[t]), WriteWord(t)
  PROVE  ShootOK(op[t])'
  <1>0. PICK o, s, p, q, r, k : /\ o = op[t] /\ s = op[t].sub /\ p = plan /\ q = plan' /\ r = op[t].target
                                /\ k = ChunkOf(op[t])[2]
    OBVIOUS
  <1>1. o \in OpRecord /\ IsMacro(o) /\ o.kind = "shoot" /\ r = o.target /\ s = o.sub /\ Mixed(p, q, r)
        /\ o.step \in {"prepare", "set"}
    BY <1>0, WritesMix, WritesFrame
  <1>2. /\ ~(k >= 0) => \A i \in AndSlot : s \notin r.keep[i]
        /\ k >= 0 => \A i \in AndSlot : s \in r.keep[i] <=> i # Fine + LevelOf(k)
        /\ r.or = o.or
        /\ o.step = "prepare" => r.shot = NoShots
    BY <1>0, <1>1, ShootTarget
  <1>3. k \in Int
    BY <1>0, <1>1, ChunkOfIs, Sizes
  <1>4. /\ pc' = pc /\ number' = number /\ mode' = mode /\ share' = share /\ asked' = asked /\ due' = due
        /\ op'[t].sub = s /\ op'[t].or = o.or /\ op'[t].step = o.step /\ op'[t].remaining = o.remaining
        /\ op'[t].target = r
    BY <1>0, WritesFrame DEF hardware, history
  <1>5. ChunkOf(op'[t]) = ChunkOf(op[t])
    BY WritesFrame, SamePlans
  <1>6. asked[s] = {} /\ NoOr(p, s) /\ \A j \in OrSlot : s \notin o.or[j]
    BY <1>0 DEF ShootOK
  <1>7. NoOr(q, s)
    <2>1. NoOr(r, s)
      BY <1>2, <1>6 DEF NoOr
    <2> QED
      BY <1>1, <1>6, <2>1, MixedMasks
  <1>8. ASSUME o.step = "prepare"
        PROVE  /\ NoShot(q, s) /\ due[s] = o.remaining
               /\ s \in mode => k < 0 /\ pc[1] = "and" /\ pc[2] > 0 /\ \A i \in AndSlot : s \notin q.keep[i]
    <2>1. /\ NoShot(p, s) /\ due[s] = o.remaining
          /\ s \in mode => k < 0 /\ pc[1] = "and" /\ pc[2] > 0 /\ \A i \in AndSlot : s \notin p.keep[i]
      BY <1>0, <1>8 DEF ShootOK
    <2>2. NoShot(r, s)
      BY <1>2, <1>8 DEF NoShot, NoShots
    <2>3. NoShot(q, s)
      BY <1>1, <2>1, <2>2, MixedMasks
    <2>4. s \in mode => \A i \in AndSlot : s \notin q.keep[i]
      BY <1>1, <1>2, <1>3, <2>1 DEF Mixed
    <2> QED
      BY <2>1, <2>3, <2>4
  <1>9. ASSUME o.step = "set"
        PROVE  /\ Armed(op[t])'
               /\ k < 0 => FineShot(op[t])'
               /\ k >= 0 => CoarseShot(op[t], LevelOf(k))'
    <2>1. /\ Armed(op[t])
          /\ k < 0 => FineShot(op[t])
          /\ k >= 0 => CoarseShot(op[t], LevelOf(k))
      BY <1>0, <1>9 DEF ShootOK, Armed
    <2>2. Armed(op[t])' /\ Pending(op[t])' = Pending(op[t])
      BY <1>0, <1>1, <1>9, <2>1, PendingWrites
    <2>3. ASSUME k < 0
          PROVE  FineShot(op[t])'
      <3>1. \A i \in AndSlot : s \notin p.keep[i]
        BY <1>0, <2>1, <2>3 DEF FineShot
      <3>2. \A i \in AndSlot : s \notin q.keep[i]
        BY <1>1, <1>2, <1>3, <2>3, <3>1 DEF Mixed
      <3>3. FineShot(op[t])
        BY <2>1, <2>3
      <3> QED
        BY <1>0, <1>4, <1>5, <2>2, <3>2, <3>3 DEF FineShot
    <2>4. ASSUME k >= 0
          PROVE  CoarseShot(op[t], LevelOf(k))'
      <3>1. \A i \in AndSlot : s \in p.keep[i] <=> i # Fine + LevelOf(k)
        BY <1>0, <2>1, <2>4 DEF CoarseShot
      <3>2. \A i \in AndSlot : s \in q.keep[i] <=> i # Fine + LevelOf(k)
        BY <1>1, <1>2, <2>4, <3>1 DEF Mixed
      <3>3. CoarseShot(op[t], LevelOf(k))
        BY <2>1, <2>4
      <3>4. op'[t].step # "wait"
        BY <1>4, <1>9
      <3> QED
        BY <1>0, <1>4, <2>2, <3>2, <3>3, <3>4 DEF CoarseShot
    <2> QED
      BY <2>2, <2>3, <2>4
  <1>10. NoOr(plan, s)' /\ asked'[s] = {} /\ ChunkOf(op'[t])[2] = k
    BY <1>0, <1>4, <1>5, <1>6, <1>7
  <1>11. ASSUME o.step = "prepare"
         PROVE  /\ NoShot(plan, s)' /\ due'[s] = o.remaining
                /\ s \in mode' => k < 0 /\ pc'[1] = "and" /\ pc'[2] > 0 /\ \A i \in AndSlot : s \notin plan'.keep[i]
    BY <1>0, <1>4, <1>8, <1>11
  <1>12. ASSUME o.step \in {"set", "wait"}
         PROVE  /\ \A j \in OrSlot : s \in plan'.shot[j] =>
                     s \in o.target.shot[j] /\ (o.step = "set" => Place(<<"shot", j>>) < op'[t].at)
                /\ k < 0 => FineShot(op[t])'
                /\ k >= 0 => CoarseShot(op[t], LevelOf(k))'
    <2>1. o.step = "set"
      BY <1>1, <1>12
    <2> QED
      BY <1>0, <1>1, <1>4, <1>9, <2>1 DEF Armed
  <1>13. op'[t].sub = s /\ op'[t].step = o.step /\ op'[t].remaining = o.remaining /\ op'[t].or = o.or
         /\ op'[t].target = o.target
    BY <1>1, <1>4
  <1> QED
    BY <1>0, <1>6, <1>10, <1>11, <1>12, <1>13 DEF ShootOK

\* The second part of Start: the masks of the injection bit only.
LEMMA InjectMasks ==
  ASSUME NEW r \in Nat \X Nat, RatioOK(r[1], r[2]), NEW q, q = InjectPlan(r)
  PROVE  /\ \A b : NoShot(q, b)
         /\ \A b \in Bit : b # Inject => KeepsAll(q, b) /\ NoOr(q, b)
         /\ r[2] <= Fine => /\ FineMost(q, Inject, FineOf(r[1], r[2], 0))
                            /\ FineLeast(q, Inject, FineOf(r[1], r[2], 0))
         /\ \A l \in 1..Coarse : r[2] = NValues[l + 1] => CoarseMost(q, Inject, l) /\ CoarseLeast(q, Inject, l)
  <1>0. PICK applyOr, keep, or, m, n, bits, s, f : /\ applyOr = TRUE /\ keep = EmptyKeep /\ or = EmptyOr
                                                   /\ m = r[1] /\ n = r[2] /\ s = Inject /\ bits = {s} /\ f = 0
    OBVIOUS
  <1>1. q = PeriodicOn(keep, or, bits, m, n, f, NoShots, applyOr)
    BY <1>0 DEF InjectPlan
  <1>2. \A i \in AndSlot : \A b : b \in q.keep[i] <=>
          b \in keep[i] /\ ~(i < Fine /\ OffSlot(m, n, f, i) /\ b \in bits)
    BY <1>1, PeriodicOnIs
  <1>3. \A k \in OrSlot : \A b : b \in q.or[k] <=>
          \/ b \in or[k]
          \/ /\ applyOr /\ b \in bits
             /\ IF k < Coarse THEN NValues[LevelOf(k) + 1] = n ELSE OnSlot(m, n, f, k - Coarse)
    BY <1>1, PeriodicOnIs
  <1>4. q.shot = NoShots
    BY <1>1, PeriodicOnIs
  <1>5. /\ \A i \in AndSlot : keep[i] = Bit
        /\ \A k \in OrSlot : or[k] = {} /\ NoShots[k] = {}
    BY <1>0 DEF EmptyKeep, EmptyOr, NoShots
  <1>6. \A b : NoShot(q, b)
    BY <1>4, <1>5 DEF NoShot
  <1>7. ASSUME NEW b \in Bit, b # Inject
        PROVE  KeepsAll(q, b) /\ NoOr(q, b)
    BY <1>0, <1>2, <1>3, <1>5, <1>7 DEF KeepsAll, NoOr
  <1>8. /\ m \in Nat /\ n \in Nat /\ f \in Nat /\ RatioOK(m, n)
        /\ \A k \in OrSlot : s \notin or[k]
        /\ q = PeriodicOn(keep, or, {s}, m, n, f, NoShots, applyOr)
    BY <1>0, <1>1, <1>5
  <1>9. n <= Fine => /\ FineMost(q, s, FineOf(m, n, f))
                     /\ applyOr => FineLeast(q, s, FineOf(m, n, f))
    BY <1>8, PeriodicMasks
  <1>10. \A l \in 1..Coarse : n = NValues[l + 1] =>
           CoarseMost(q, s, l) /\ (applyOr /\ s \in keep[0] => CoarseLeast(q, s, l))
    BY <1>8, PeriodicMasks
  <1>11. s \in keep[0]
    BY <1>0, <1>5, Sizes DEF AndSlot, Bit
  <1>12. /\ r[2] <= Fine => /\ FineMost(q, Inject, FineOf(r[1], r[2], 0))
                            /\ FineLeast(q, Inject, FineOf(r[1], r[2], 0))
         /\ \A l \in 1..Coarse : r[2] = NValues[l + 1] => CoarseMost(q, Inject, l) /\ CoarseLeast(q, Inject, l)
    BY <1>0, <1>9, <1>10, <1>11
  <1> QED
    BY <1>6, <1>7, <1>12

\* The duty cycle of the injection bit is one that the program can be made to run.
LEMMA InjectRatioIs ==
  ASSUME NEW r \in Resolved(InjectRatio[1], InjectRatio[2])
  PROVE  r \in Nat \X Nat /\ RatioOK(r[1], r[2])
  BY AskedAssumption, ResolvedIs

\* While the second part is written, the initial subsystems stay on and the others stay off.
LEMMA StartWrites ==
  ASSUME TypeOK, OneTeam, NEW t \in Team, IsMacro(op[t]), op[t].kind = "start", StartOK(op[t]), WriteWord(t),
         \A b \in Bit \ InWork : Resting(b), \A b \in fresh : Fresh(b)
  PROVE  /\ StartOK(op[t])'
         /\ \A b \in Bit \ InWork : Resting(b)'
         /\ \A b \in fresh : Fresh(b)'
  <1>0. PICK p, q, r : p = plan /\ q = plan' /\ r = op[t].target
    OBVIOUS
  <1>1. /\ InWork = {NoSubsystem, Inject} /\ Inject \in Bit /\ Bit \ InWork = Subsystem /\ fresh = Subsystem
        /\ \A b \in Subsystem : b # Inject /\ b \in Bit
    BY WorkIs, BitAssumption DEF WorkOf, Bit, IsMacro, StartOK
  <1>2. PICK z \in Resolved(InjectRatio[1], InjectRatio[2]) :
          r = InjectPlan(z) /\ share[Inject] = Share(z[1], z[2], 0)
    BY <1>0 DEF StartOK
  <1>3. /\ \A b : NoShot(r, b)
        /\ \A b \in Bit : b # Inject => KeepsAll(r, b) /\ NoOr(r, b)
    BY <1>2, InjectRatioIs, InjectMasks
  <1>4. Mixed(p, q, r) /\ op[t].step \in {"prepare", "set"}
    BY <1>0, WritesMix, WritesFrame
  <1>5. op[t].step = "set"
    BY <1>4 DEF IsMacro
  <1>6. /\ pc' = pc /\ number' = number /\ mode' = mode /\ share' = share /\ asked' = asked /\ due' = due
        /\ fresh' = fresh /\ settled' = settled
        /\ op'[t].step = op[t].step /\ op'[t].target = r
    BY <1>0, WritesFrame DEF hardware, history
  <1>7. \A b \in Subsystem : share[b] = {} \/ b \in mode
    BY <1>5 DEF StartOK
  <1>8. ASSUME NEW b \in Bit, NoShot(plan, b)
        PROVE  NoShot(plan, b)'
    <2>1. NoShot(q, b)
      BY <1>0, <1>3, <1>4, <1>8, MixedMasks
    <2> QED
      BY <1>0, <2>1
  <1>9. All # {}
    BY Parameters DEF All
  <1>10. ASSUME NEW b \in Subsystem
         PROVE  FullShape(b)' \/ SilentShape(b)'
    <2>1. KeepsAll(r, b) /\ NoOr(r, b)
      BY <1>1, <1>3
    <2>2. CASE FullShape(b)
      <3>1. KeepsAll(p, b) /\ b \in mode
        BY <1>0, <1>7, <1>9, <2>2 DEF FullShape
      <3>2. KeepsAll(q, b)
        BY <1>4, <2>1, <3>1, MixedMasks
      <3>3. KeepsAll(plan, b)'
        BY <1>0, <3>2
      <3> QED
        BY <1>6, <2>2, <3>1, <3>3 DEF FullShape, FullMode
    <2>3. CASE SilentShape(b)
      <3>1. NoOr(p, b)
        BY <1>0, <2>3 DEF SilentShape
      <3>2. NoOr(q, b)
        BY <1>4, <2>1, <3>1, MixedMasks
      <3>3. NoOr(plan, b)'
        BY <1>0, <3>2
      <3> QED
        BY <1>6, <2>3, <3>3 DEF SilentShape
    <2> QED
      BY <2>2, <2>3 DEF StartOK
  <1>11. ASSUME NEW b \in Subsystem
         PROVE  Resting(b)'
    <2>1. Resting(b)
      BY <1>1
    <2>2. NoShot(plan, b)' /\ due'[b] = 0
      BY <1>1, <1>6, <1>8, <2>1 DEF Resting
    <2>3. NowOK(b)'
      BY <1>6, <2>1 DEF Resting, Steady, NowOK
    <2> QED
      BY <1>10, <2>2, <2>3 DEF Resting
  <1>12. ASSUME NEW b \in Subsystem
         PROVE  Fresh(b)'
    <2>1. Fresh(b) /\ KeepsAll(r, b) /\ NoOr(r, b)
      BY <1>1, <1>3
    <2>2. KeepsAll(q, b)
      BY <1>0, <1>4, <2>1, MixedMasks DEF Fresh
    <2>3. share[b] = {} => NoOr(q, b)
      BY <1>0, <1>4, <2>1, MixedMasks DEF Fresh
    <2>4. KeepsAll(plan, b)' /\ (share[b] = {} => NoOr(plan, b)')
      BY <1>0, <2>2, <2>3
    <2> QED
      BY <1>6, <2>1, <2>4 DEF Fresh
  <1>13. Copied(op[t])'
    BY <1>5, CopiedWrites DEF StartOK
  <1>14. NoShot(plan, Inject)' /\ due'[Inject] = 0
    BY <1>1, <1>6, <1>8 DEF StartOK
  <1>15. StartOK(op[t])'
    BY <1>0, <1>1, <1>2, <1>5, <1>6, <1>7, <1>10, <1>13, <1>14 DEF StartOK
  <1> QED
    BY <1>1, <1>11, <1>12, <1>15

-----------------------------------------------------------------------------
(* The steps of a macro                                                     *)

\* With one team, the bits in work after a step are those of its macro then.
LEMMA WorkNext ==
  ASSUME OneTeam, NEW t \in Team
  PROVE  InWork' = WorkOf(op'[t])
  BY DEF OneTeam, InWork, WorkOf

\* The one macro decides on what rests.
LEMMA RunsIf ==
  ASSUME OneTeam, NEW t \in Team, Position, pc' = pc, number' = number, left' = left,
         \A b \in Bit \ InWork' : Resting(b)', \A b \in fresh' : b \notin InWork' /\ Fresh(b)', MacroOK(op[t])'
  PROVE  Runs'
  <1>1. Position'
    BY DEF Position
  <1>2. \A u \in Team : u = t
    BY DEF OneTeam
  <1>3. \A u \in Team : MacroOK(op[u])'
    BY <1>2
  <1> QED
    BY <1>1, <1>3 DEF Runs

\* A step that touches nothing but the macro and what it is about.
LEMMA RunsStep ==
  ASSUME TypeOK, OneTeam, NEW t \in Team, Runs, pc' = pc, number' = number, left' = left, fresh' = fresh,
         \A b \in Bit \ InWork : Untouched(b),
         InWork' = InWork \/ \A b \in Bit : b \in InWork => b \in InWork' \/ Resting(b)',
         InWork' \cap Bit \subseteq InWork,
         MacroOK(op[t])'
  PROVE  Runs'
  <1>1. ASSUME NEW b \in Bit \ InWork'
        PROVE  Resting(b)'
    <2>1. CASE b \in InWork
      BY <1>1, <2>1
    <2>2. CASE b \notin InWork
      BY <2>2, UntouchedRests DEF Runs
    <2> QED
      BY <2>1, <2>2
  <1>2. ASSUME NEW b \in fresh'
        PROVE  b \notin InWork' /\ Fresh(b)'
    <2>1. b \in Bit /\ b \notin InWork /\ Fresh(b)
      BY DEF Runs, TypeOK, Bit
    <2>2. Untouched(b)
      BY <2>1
    <2> QED
      BY <2>1, <2>2, UntouchedFull
  <1> QED
    BY <1>1, <1>2, RunsIf DEF Runs

\* A word is written while the program runs: nobody's events change but those of the macro's
\* own bit, and those are asked for.
LEMMA RunsWrites ==
  ASSUME TypeOK, Macros, OneTeam, NEW t \in Team, Runs, WriteWord(t)
  PROVE  Runs'
  <1>1. /\ UNCHANGED <<hardware, history>> /\ op[t] \in OpRecord /\ op[t].step \in {"prepare", "set"}
        /\ op'[t].kind = op[t].kind /\ op'[t].sub = op[t].sub
    BY WritesFrame
  <1>2. InWork' = InWork
    BY <1>1, WorkIs, WorkNext DEF WorkOf
  <1>3. IsMacro(op[t]) /\ MacroOK(op[t]) /\ (\A b \in Bit \ InWork : Resting(b)) /\ (\A b \in fresh : b \notin InWork /\ Fresh(b))
    BY DEF Macros, Runs
  <1>4. CASE op[t].kind = "start"
    <2>1. /\ StartOK(op[t])'
          /\ \A b \in Bit \ InWork : Resting(b)'
          /\ \A b \in fresh : Fresh(b)'
      BY <1>3, <1>4, StartWrites DEF MacroOK
    <2>2. MacroOK(op[t])'
      BY <1>1, <1>4, <2>1 DEF MacroOK
    <2> QED
      BY <1>1, <1>2, <1>3, <2>1, <2>2, RunsIf DEF Runs, hardware, history
  <1>5. CASE op[t].kind \in {"join", "leave", "shoot"}
    <2>1. Merges(op[t])
      BY <1>3, <1>5 DEF MacroOK
    <2>2. ASSUME NEW b \in Bit \ InWork
          PROVE  Untouched(b)
      <3>1. b # op[t].sub
        BY WorkIs DEF WorkOf
      <3> QED
        BY <1>3, <1>5, <2>1, <3>1, WritesTouch
    <2>3. MacroOK(op[t])'
      <3>1. Merges(op[t])'
        BY <1>3, <1>5, <2>1, MergesWrites
      <3>2. op[t].kind = "join" => JoinOK(op[t])'
        BY <1>3, JoinWrites DEF MacroOK
      <3>3. op[t].kind = "leave" => LeaveOK(op[t])'
        BY <1>3, LeaveWrites DEF MacroOK
      <3>4. op[t].kind = "shoot" => ShootOK(op[t])'
        BY <1>3, ShootWrites DEF MacroOK
      <3> QED
        BY <1>1, <1>5, <3>1, <3>2, <3>3, <3>4 DEF MacroOK
    <2> QED
      BY <1>1, <1>2, <2>2, <2>3, RunsStep DEF hardware, history
  <1>6. op[t].kind # "idle"
    BY <1>1, <1>3 DEF IsMacro, Idle
  <1> QED
    BY <1>1, <1>4, <1>5, <1>6, OpRecordIs, KindIs

\* Nothing that the macro is not about is touched when the memory is not written.
LEMMA QuietStep ==
  ASSUME UNCHANGED <<hardware, plan, number>>, settled' \subseteq settled,
         NEW b, share'[b] = share[b], asked'[b] = asked[b], due'[b] = due[b]
  PROVE  Untouched(b)
  <1>1. pc' = pc /\ number' = number /\ mode' = mode /\ plan' = plan
    BY DEF hardware
  <1>2. SameWordsOf(plan, plan', b)
    BY <1>1 DEF SameWordsOf
  <1> QED
    BY <1>1, <1>2 DEF Untouched

\* A macro that is over works on no bit.
LEMMA IdleWork == Idle.kind = "idle" /\ WorkOf(Idle) = {NoSubsystem} /\ NoSubsystem \notin Bit
  BY BitAssumption DEF Idle, WorkOf, Bit

\* A macro ends: what it was about rests from now on.
LEMMA RunsEnd ==
  ASSUME TypeOK, OneTeam, NEW t \in Team, Runs, UNCHANGED <<hardware, plan, number, settled, fresh>>,
         op' = [op EXCEPT ![t] = Idle],
         \A b \in Bit \ InWork : share'[b] = share[b] /\ asked'[b] = asked[b] /\ due'[b] = due[b],
         \A b \in Bit : b \in InWork => Resting(b)'
  PROVE  Runs'
  <1>1. op'[t] = Idle
    BY DEF TypeOK
  <1>2. InWork' = {NoSubsystem}
    BY <1>1, WorkNext, IdleWork
  <1>3. MacroOK(op[t])'
    BY <1>1, IdleWork DEF MacroOK
  <1>4. \A b \in Bit \ InWork : Untouched(b)
    BY QuietStep
  <1>5. InWork' \cap Bit \subseteq InWork
    BY <1>2, IdleWork
  <1> QED
    BY <1>3, <1>4, <1>5, RunsStep DEF hardware

\* A macro goes on.
LEMMA RunsGo ==
  ASSUME TypeOK, OneTeam, NEW t \in Team, Runs, UNCHANGED <<hardware, plan, history>>, NEW o,
         op' = [op EXCEPT ![t] = o], o.kind = op[t].kind, o.sub = op[t].sub, MacroOK(op[t])'
  PROVE  Runs'
  <1>1. op'[t] = o
    BY DEF TypeOK
  <1>2. InWork' = InWork
    BY <1>1, WorkIs, WorkNext DEF WorkOf
  <1>3. \A b \in Bit \ InWork : Untouched(b)
    BY QuietStep DEF history
  <1> QED
    BY <1>2, <1>3, RunsStep DEF hardware, history

\* What a macro has written when no word is left to be written.
LEMMA AllWritten ==
  ASSUME TypeOK, NEW t \in Team, ToWrite(t) = {}
  PROVE  /\ Copied(op[t]) => /\ \A i \in AndSlot : plan.keep[i] = op[t].target.keep[i]
                             /\ \A k \in OrSlot : plan.or[k] = op[t].target.or[k]
         /\ \A k \in OrSlot : Place(<<"shot", k>>) >= op[t].at => plan.shot[k] = op[t].target.shot[k]
         /\ Copied(op[t]) => \A u \in Mask : u[1] # "shot" => Word(plan, u) = Word(op[t].target, u)
  <1>0. PICK a, p, r : a = op[t].at /\ p = plan /\ r = op[t].target
    OBVIOUS
  <1>1. \A u \in Mask : Place(u) >= a => Word(p, u) = Word(r, u)
    BY <1>0 DEF ToWrite
  <1>2. a \in Nat
    BY <1>0, OpRecordIs DEF TypeOK
  <1>3. ASSUME Copied(op[t])
        PROVE  \A u \in Mask : u[1] # "shot" => Word(p, u) = Word(r, u)
    <2>1. \A u \in Mask : Place(u) < a \/ Place(u) >= a
      BY <1>2, PlaceType
    <2> QED
      BY <1>0, <1>1, <1>3, <2>1 DEF Copied
  <1>4. ASSUME Copied(op[t])
        PROVE  /\ \A i \in AndSlot : p.keep[i] = r.keep[i]
               /\ \A k \in OrSlot : p.or[k] = r.or[k]
    <2>1. \A u \in Mask : u[1] # "shot" => Word(p, u) = Word(r, u)
      BY <1>3, <1>4
    <2>2. ASSUME NEW i \in AndSlot
          PROVE  p.keep[i] = r.keep[i]
      <3>1. PICK u : u = <<"and", i>>
        OBVIOUS
      <3>2. u \in Mask /\ Word(p, u) = p.keep[i] /\ Word(r, u) = r.keep[i] /\ u[1] # "shot"
        BY <3>1, WordIs
      <3> QED
        BY <2>1, <3>2
    <2>3. ASSUME NEW k \in OrSlot
          PROVE  p.or[k] = r.or[k]
      <3>1. PICK u : u = <<"or", k>>
        OBVIOUS
      <3>2. u \in Mask /\ Word(p, u) = p.or[k] /\ Word(r, u) = r.or[k] /\ u[1] # "shot"
        BY <3>1, WordIs
      <3> QED
        BY <2>1, <3>2
    <2> QED
      BY <2>2, <2>3
  <1>5. \A k \in OrSlot : Place(<<"shot", k>>) >= a => p.shot[k] = r.shot[k]
    BY <1>1, WordIs
  <1> QED
    BY <1>0, <1>3, <1>4, <1>5

\* The record of a macro, with one field changed.
LEMMA StepIs ==
  ASSUME NEW o \in OpRecord, NEW step, NEW u, u = [o EXCEPT !.step = step]
  PROVE  /\ u.step = step /\ u.kind = o.kind /\ u.sub = o.sub /\ u.m = o.m /\ u.n = o.n /\ u.offset = o.offset
         /\ u.keep = o.keep /\ u.or = o.or /\ u.remaining = o.remaining /\ u.at = o.at /\ u.target = o.target
  BY OpRecordIs

\* By the time that Start merges its second part the initial subsystems are on.
LEMMA StartMergesRuns ==
  ASSUME TypeOK, Macros, OneTeam, NEW t \in Team, running, Runs, StartMerges(t)
  PROVE  Runs'
  <1>1. /\ op[t].kind = "start" /\ op[t].step = "wait" /\ plan.or[Coarse] \subseteq mode
        /\ op' = [op EXCEPT ![t].step = "set"] /\ UNCHANGED <<hardware, plan, history>>
    BY DEF StartMerges
  <1>2. PICK o : o = [op[t] EXCEPT !.step = "set"]
    OBVIOUS
  <1>3. /\ op' = [op EXCEPT ![t] = o] /\ op[t] \in OpRecord /\ op'[t] = o
    BY <1>1, <1>2 DEF TypeOK
  <1>4. /\ o.step = "set" /\ o.kind = op[t].kind /\ o.sub = op[t].sub /\ o.at = op[t].at /\ o.target = op[t].target
    BY <1>2, <1>3, StepIs
  <1>5. StartOK(op[t])
    BY <1>1 DEF Runs, MacroOK
  <1>6. \A b \in Bit \ InWork : Untouched(b)
    BY <1>1, QuietStep DEF history
  <1>7. \A b \in Subsystem : b \in Bit /\ b \notin InWork
    <2>1. op[t].sub = NoSubsystem
      BY <1>1 DEF Macros, IsMacro
    <2> QED
      BY <1>1, <2>1, WorkIs, BitAssumption DEF WorkOf, Bit
  <1>8. ASSUME NEW b \in Subsystem
        PROVE  /\ FullShape(b)' \/ SilentShape(b)'
               /\ share'[b] = {} \/ b \in mode'
    <2>1. Untouched(b)
      BY <1>6, <1>7
    <2>2. FullShape(b)' \/ SilentShape(b)'
      BY <1>5, <2>1, UntouchedFull DEF StartOK
    <2>3. FullShape(b) => b \in mode
      <3>1. Coarse \in OrSlot /\ Coarse >= Coarse
        BY Sizes DEF OrSlot
      <3> QED
        BY <1>1, <3>1 DEF FullShape, FullMode
    <2>4. share[b] = {} \/ b \in mode
      BY <1>5, <2>3 DEF StartOK, SilentShape
    <2> QED
      BY <1>1, <2>2, <2>4 DEF hardware, history
  <1>9. Copied(op[t])'
    <2>1. \A u \in Mask : ~(Place(u) < o.at)
      BY <1>1, <1>3, <1>4, <1>5, PlaceType DEF StartOK
    <2> QED
      BY <1>3, <1>4, <2>1 DEF Copied
  <1>10. NoShot(plan, Inject)'
    BY <1>1, <1>5 DEF StartOK, NoShot
  <1>11. StartOK(op[t])'
    BY <1>1, <1>3, <1>4, <1>5, <1>8, <1>9, <1>10 DEF StartOK, history
  <1>12. MacroOK(op[t])'
    BY <1>1, <1>3, <1>4, <1>11 DEF MacroOK
  <1> QED
    BY <1>1, <1>3, <1>4, <1>12, RunsGo

\* When Start is done the injection bit has the shape of its duty cycle.
LEMMA StartEndsRuns ==
  ASSUME TypeOK, Macros, OneTeam, Settled, NEW t \in Team, Runs, StartEnds(t)
  PROVE  Runs'
  <1>1. /\ op[t].kind = "start" /\ op[t].step = "set" /\ ToWrite(t) = {}
        /\ op' = [op EXCEPT ![t] = Idle] /\ UNCHANGED <<hardware, plan, history>>
    BY DEF StartEnds, Written
  <1>2. InWork = {NoSubsystem, Inject} /\ NoSubsystem \notin Bit
    <2>1. op[t].sub = NoSubsystem
      BY <1>1 DEF Macros, IsMacro
    <2> QED
      BY <1>1, <2>1, WorkIs, BitAssumption DEF WorkOf, Bit
  <1>3. StartOK(op[t])
    BY <1>1 DEF Runs, MacroOK
  <1>4. PICK p, q : p = plan /\ q = op[t].target
    OBVIOUS
  <1>5. PICK r \in Resolved(InjectRatio[1], InjectRatio[2]) : q = InjectPlan(r) /\ share[Inject] = Share(r[1], r[2], 0)
    BY <1>3, <1>4 DEF StartOK
  <1>6. r \in Nat \X Nat /\ RatioOK(r[1], r[2]) /\ r[1] \in Nat /\ r[2] \in Nat
    BY InjectRatioIs
  <1>7. /\ r[2] <= Fine => /\ FineMost(q, Inject, FineOf(r[1], r[2], 0))
                           /\ FineLeast(q, Inject, FineOf(r[1], r[2], 0))
        /\ \A l \in 1..Coarse : r[2] = NValues[l + 1] => CoarseMost(q, Inject, l) /\ CoarseLeast(q, Inject, l)
    BY <1>5, <1>6, InjectMasks
  <1>8. /\ \A i \in AndSlot : p.keep[i] = q.keep[i]
        /\ \A k \in OrSlot : p.or[k] = q.or[k]
    <2>1. Copied(op[t])
      BY <1>1, <1>3 DEF StartOK
    <2> QED
      BY <1>1, <1>4, <2>1, AllWritten
  <1>9. Inject \notin settled /\ Inject \notin Subsystem /\ Inject \in Bit
    BY <1>2, BitAssumption DEF Settled, Bit
  <1>10. FineShape(Inject) \/ CoarseShape(Inject)
    <2>1. CASE r[2] <= Fine
      <3>1. PICK D : D = FineOf(r[1], r[2], 0)
        OBVIOUS
      <3>2. D \in SUBSET (0..(Fine - 1))
        BY <3>1 DEF FineOf
      <3>3. FineMost(p, Inject, D) /\ FineLeast(p, Inject, D)
        <4>1. FineMost(q, Inject, D) /\ FineLeast(q, Inject, D)
          BY <1>7, <2>1, <3>1
        <4>2. \A i \in 0..(Fine - 1) : i \in AndSlot
          BY Sizes DEF AndSlot
        <4> QED
          BY <1>8, <4>1, <4>2 DEF FineMost, FineLeast
      <3>4. share[Inject] = OfSlots(D)
        <4>1. r[2] > 0 /\ Fine % r[2] = 0
          BY <1>6, <2>1, Sizes DEF RatioOK
        <4> QED
          BY <1>5, <1>6, <2>1, <3>1, <4>1, ShareOfSlots
      <3>5. FineIn(Inject, D)
        BY <1>4, <1>9, <3>3, <3>4 DEF FineIn
      <3> QED
        BY <3>2, <3>5 DEF FineShape
    <2>2. CASE ~(r[2] <= Fine)
      <3>1. PICK l \in 1..Coarse : r[2] = NValues[l + 1]
        BY <1>6, <2>2 DEF RatioOK
      <3>2. CoarseMost(p, Inject, l) /\ CoarseLeast(p, Inject, l)
        <4>1. CoarseMost(q, Inject, l) /\ CoarseLeast(q, Inject, l)
          BY <1>7, <3>1
        <4>2. 0 \in AndSlot /\ Coarse - l \in OrSlot /\ \A i \in 1..(Fine - 1) : i \in AndSlot
          BY Sizes DEF AndSlot, OrSlot
        <4> QED
          BY <1>8, <4>1, <4>2 DEF CoarseMost, CoarseLeast
      <3>3. share[Inject] = OfLevel(l)
        BY <1>5, <3>1, ShareOfLevel
      <3>4. CoarseIn(Inject, l)
        BY <1>4, <1>9, <3>2, <3>3 DEF CoarseIn, Steady
      <3> QED
        BY <3>4 DEF CoarseShape
    <2> QED
      BY <2>1, <2>2
  <1>11. Resting(Inject)
    BY <1>3, <1>9, <1>10 DEF Resting, StartOK, Steady
  <1>12. Untouched(Inject)
    BY <1>1, QuietStep DEF history
  <1>13. Resting(Inject)'
    BY <1>11, <1>12, UntouchedRests
  <1>14. UNCHANGED <<hardware, plan, number, settled, fresh>>
         /\ \A b : share'[b] = share[b] /\ asked'[b] = asked[b] /\ due'[b] = due[b]
    BY <1>1 DEF history
  <1> QED
    BY <1>1, <1>2, <1>13, <1>14, RunsEnd

\* The macro of the other bits has read them once: it may go on to its next plan.
LEMMA MergesGo ==
  ASSUME TypeOK, NEW t \in Team, Merges(op[t]), UNCHANGED <<plan, share, fresh, settled>>,
         op'[t].sub = op[t].sub, op'[t].keep = op[t].keep, op'[t].or = op[t].or, Copied(op[t])'
  PROVE  Merges(op[t])'
  BY DEF Merges

\* A macro that has just begun to write has copied nothing.
LEMMA NothingCopied ==
  ASSUME NEW t \in Team, op'[t].at = 0, op'[t].step # "wait"
  PROVE  Copied(op[t])'
  <1>1. \A u \in Mask : ~(Place(u) < op'[t].at)
    BY PlaceType
  <1> QED
    BY <1>1 DEF Copied

\* Plans with the same words.
LEMMA EqualMasks ==
  ASSUME NEW p, NEW q, \A i \in AndSlot : p.keep[i] = q.keep[i], \A k \in OrSlot : p.or[k] = q.or[k], NEW b
  PROVE  /\ NoOr(q, b) => NoOr(p, b)
         /\ \A D : FineMost(q, b, D) => FineMost(p, b, D)
         /\ \A D : FineLeast(q, b, D) => FineLeast(p, b, D)
         /\ \A l \in 1..Coarse : CoarseMost(q, b, l) => CoarseMost(p, b, l)
         /\ \A l \in 1..Coarse : CoarseLeast(q, b, l) => CoarseLeast(p, b, l)
  <1>1. /\ \A i \in 0..(Fine - 1) : i \in AndSlot
        /\ \A i \in 1..(Fine - 1) : i \in AndSlot
        /\ \A l \in 1..Coarse : Coarse - l \in OrSlot
        /\ 0 \in AndSlot
    BY Sizes DEF AndSlot, OrSlot
  <1>2. NoOr(q, b) => NoOr(p, b)
    BY DEF NoOr
  <1>3. \A D : FineMost(q, b, D) => FineMost(p, b, D)
    BY <1>1 DEF FineMost
  <1>4. \A D : FineLeast(q, b, D) => FineLeast(p, b, D)
    BY DEF FineLeast
  <1>5. \A l \in 1..Coarse : CoarseMost(q, b, l) => CoarseMost(p, b, l)
    BY <1>1 DEF CoarseMost
  <1>6. \A l \in 1..Coarse : CoarseLeast(q, b, l) => CoarseLeast(p, b, l)
    BY <1>1 DEF CoarseLeast
  <1> QED
    BY <1>2, <1>3, <1>4, <1>5, <1>6

\* The AND masks of a joining macro are in place before its OR masks are written.
LEMMA JoinSetsRuns ==
  ASSUME TypeOK, Macros, OneTeam, NEW t \in Team, Runs, JoinSets(t)
  PROVE  Runs'
  <1>0. PICK o, s, u, p, q, new : /\ o = op[t] /\ s = op[t].sub /\ p = plan /\ q = op[t].target
                                  /\ new = JoinPlan(op[t], TRUE) /\ u = Writing(op[t], "set", new)
    OBVIOUS
  <1>1. /\ o.kind = "join" /\ o.step = "prepare" /\ ToWrite(t) = {}
        /\ op' = [op EXCEPT ![t] = u] /\ UNCHANGED <<hardware, plan, history>>
    BY <1>0 DEF JoinSets, Written
  <1>2. o \in OpRecord /\ IsMacro(o) /\ s \in Subsystem /\ JoinOK(op[t]) /\ Merges(op[t])
    BY <1>0, <1>1 DEF TypeOK, Macros, Runs, MacroOK, IsMacro
  <1>3. new \in Plan
    BY <1>0, <1>2, JoinPlanType
  <1>4. /\ u.step = "set" /\ u.target = new /\ u.at = 0
        /\ u.kind = o.kind /\ u.sub = o.sub /\ u.m = o.m /\ u.n = o.n /\ u.offset = o.offset
        /\ u.keep = o.keep /\ u.or = o.or
    <2>1. u = [o EXCEPT !.step = "set", !.target = new, !.at = 0]
      BY <1>0 DEF Writing
    <2> QED
      BY <1>2, <2>1, OpRecordIs
  <1>5. op'[t] = u
    BY <1>1 DEF TypeOK
  <1>6. Copied(op[t])' /\ Copied(op[t])
    BY <1>2, <1>4, <1>5, NothingCopied DEF Merges
  <1>7. /\ \A i \in AndSlot : p.keep[i] = q.keep[i]
        /\ \A k \in OrSlot : p.or[k] = q.or[k]
    BY <1>0, <1>1, <1>6, AllWritten
  <1>8. /\ NoShot(plan, s) /\ due[s] = 0 /\ NowOK(s) /\ Share(o.m, o.n, o.offset) \subseteq asked[s]
        /\ \A k \in OrSlot : s \notin o.or[k]
        /\ o.n > Fine => s \in o.keep[0]
        /\ s \in mode => o.n <= Fine
    BY <1>0, <1>1, <1>2 DEF JoinOK
  <1>9. /\ o.n <= Fine => FineMost(q, s, FineOf(o.m, o.n, o.offset))
        /\ \A l \in 1..Coarse : o.n = NValues[l + 1] => CoarseMost(q, s, l)
    BY <1>0, <1>1, <1>2, <1>8, JoinTarget
  <1>10. /\ o.n <= Fine => FineMost(p, s, FineOf(o.m, o.n, o.offset))
         /\ \A l \in 1..Coarse : o.n = NValues[l + 1] => CoarseMost(p, s, l)
    BY <1>7, <1>9, EqualMasks
  <1>11. \A l \in 1..Coarse : o.n = NValues[l + 1] => CoarseMode(pc, number, mode, s, l)
    <2>1. ASSUME NEW l \in 1..Coarse, o.n = NValues[l + 1]
          PROVE  s \notin mode
      <3>1. o.n > Fine /\ o.n \in Nat
        BY <1>2, <2>1, ShareOfLevel, OpRecordIs
      <3> QED
        BY <1>8, <3>1, Sizes
    <2> QED
      BY <2>1 DEF CoarseMode
  <1>12. NowOK(s)' /\ NoShot(plan, s)'
    BY <1>1, <1>8 DEF NowOK, NoShot, hardware, history
  <1>13. /\ plan' = p /\ mode' = mode /\ pc' = pc /\ number' = number /\ due' = due /\ asked' = asked
    BY <1>0, <1>1 DEF hardware, history
  <1>14. JoinOK(op[t])'
    <2>1. PICK v : v = op'[t]
      OBVIOUS
    <2>2. v.sub = s /\ v.step = "set" /\ v.m = o.m /\ v.n = o.n /\ v.offset = o.offset /\ v.keep = o.keep /\ v.or = o.or
      BY <1>0, <1>4, <1>5, <2>1
    <2>3. /\ o.n <= Fine => FineMost(plan', s, FineOf(o.m, o.n, o.offset))
          /\ \A l \in 1..Coarse : o.n = NValues[l + 1] =>
               CoarseMost(plan', s, l) /\ CoarseMode(pc', number', mode', s, l)
      BY <1>10, <1>11, <1>13
    <2>4. /\ due'[s] = 0 /\ Share(o.m, o.n, o.offset) \subseteq asked'[s]
          /\ \A k \in OrSlot : s \notin o.or[k]
          /\ o.n > Fine => s \in o.keep[0]
      BY <1>8, <1>13
    <2> QED
      BY <1>12, <2>1, <2>2, <2>3, <2>4 DEF JoinOK
  <1>15. Merges(op[t])'
    BY <1>0, <1>1, <1>2, <1>4, <1>5, <1>6, MergesGo DEF history
  <1>16. MacroOK(op[t])'
    BY <1>1, <1>4, <1>5, <1>14, <1>15 DEF MacroOK
  <1> QED
    BY <1>0, <1>1, <1>4, <1>16, RunsGo

\* When a join is done the subsystem has the shape of its duty cycle.
LEMMA JoinEndsRuns ==
  ASSUME TypeOK, Macros, OneTeam, NEW t \in Team, Runs, JoinEnds(t)
  PROVE  Runs'
  <1>0. PICK o, s, p, q, S : /\ o = op[t] /\ s = op[t].sub /\ p = plan /\ q = op[t].target
                             /\ S = Share(op[t].m, op[t].n, op[t].offset)
    OBVIOUS
  <1>1. /\ o.kind = "join" /\ o.step = "set" /\ ToWrite(t) = {}
        /\ share' = [share EXCEPT ![s] = S]
        /\ op' = [op EXCEPT ![t] = Idle] /\ UNCHANGED <<hardware, plan, number, asked, due, settled, fresh>>
    BY <1>0 DEF JoinEnds, Written
  <1>2. o \in OpRecord /\ IsMacro(o) /\ s \in Subsystem /\ s \in Bit /\ JoinOK(op[t]) /\ Merges(op[t]) /\ RatioOK(o.m, o.n)
    BY <1>0, <1>1 DEF TypeOK, Macros, Runs, MacroOK, IsMacro, Bit
  <1>3. o.m \in Nat /\ o.n \in Nat /\ o.offset \in Nat
    BY <1>2, OpRecordIs
  <1>4. /\ \A i \in AndSlot : p.keep[i] = q.keep[i]
        /\ \A k \in OrSlot : p.or[k] = q.or[k]
    BY <1>0, <1>1, <1>2, AllWritten DEF Merges
  <1>5. /\ NoShot(plan, s) /\ due[s] = 0 /\ NowOK(s) /\ S \subseteq asked[s]
        /\ \A k \in OrSlot : s \notin o.or[k]
        /\ o.n > Fine => s \in o.keep[0]
        /\ \A l \in 1..Coarse : o.n = NValues[l + 1] => CoarseMode(pc, number, mode, s, l)
        /\ share[s] = {} /\ s \notin settled
    BY <1>0, <1>1, <1>2 DEF JoinOK, Merges
  <1>6. /\ o.n <= Fine => /\ FineMost(q, s, FineOf(o.m, o.n, o.offset))
                          /\ FineLeast(q, s, FineOf(o.m, o.n, o.offset))
        /\ \A l \in 1..Coarse : o.n = NValues[l + 1] => CoarseMost(q, s, l) /\ (s \in o.keep[0] => CoarseLeast(q, s, l))
    BY <1>0, <1>1, <1>2, <1>5, JoinTarget
  <1>7. share'[s] = S /\ \A b \in Bit : b # s => share'[b] = share[b]
    BY <1>1, <1>2 DEF TypeOK
  <1>8. plan' = p /\ pc' = pc /\ mode' = mode /\ number' = number /\ settled' = settled /\ asked' = asked /\ due' = due
    BY <1>0, <1>1 DEF hardware
  <1>9. FineShape(s)' \/ CoarseShape(s)'
    <2>1. CASE o.n <= Fine
      <3>1. PICK D : D = FineOf(o.m, o.n, o.offset)
        OBVIOUS
      <3>2. D \in SUBSET (0..(Fine - 1))
        BY <3>1 DEF FineOf
      <3>3. FineMost(p, s, D) /\ FineLeast(p, s, D)
        BY <1>4, <1>6, <2>1, <3>1, EqualMasks
      <3>4. S = OfSlots(D)
        <4>1. o.n > 0 /\ Fine % o.n = 0
          BY <1>2, <1>3, <2>1, Sizes DEF RatioOK
        <4> QED
          BY <1>0, <1>3, <2>1, <3>1, <4>1, ShareOfSlots
      <3>5. FineIn(s, D)'
        BY <1>5, <1>7, <1>8, <3>3, <3>4 DEF FineIn
      <3> QED
        BY <3>2, <3>5 DEF FineShape
    <2>2. CASE ~(o.n <= Fine)
      <3>1. PICK l \in 1..Coarse : o.n = NValues[l + 1]
        BY <1>2, <2>2 DEF RatioOK
      <3>2. o.n > Fine /\ S = OfLevel(l)
        BY <1>0, <3>1, ShareOfLevel
      <3>3. CoarseMost(q, s, l) /\ CoarseLeast(q, s, l)
        BY <1>5, <1>6, <3>1, <3>2
      <3>4. CoarseMost(p, s, l) /\ CoarseLeast(p, s, l)
        BY <1>4, <3>3, EqualMasks
      <3>5. CoarseMode(pc, number, mode, s, l)
        BY <1>5, <3>1
      <3>6. CoarseIn(s, l)'
        BY <1>5, <1>7, <1>8, <3>2, <3>4, <3>5 DEF CoarseIn
      <3> QED
        BY <3>6 DEF CoarseShape
    <2> QED
      BY <2>1, <2>2
  <1>10. NowOK(s)'
    BY <1>5, <1>7, <1>8 DEF NowOK, Now
  <1>11. NoShot(plan, s)'
    BY <1>0, <1>5, <1>8
  <1>12. Resting(s)'
    BY <1>5, <1>8, <1>9, <1>10, <1>11 DEF Resting
  <1>13. InWork = {s}
    BY <1>0, <1>1, WorkIs DEF WorkOf
  <1>14. \A b \in Bit \ InWork : share'[b] = share[b] /\ asked'[b] = asked[b] /\ due'[b] = due[b]
    BY <1>1, <1>7, <1>13
  <1> QED
    BY <1>1, <1>12, <1>13, <1>14, RunsEnd

\* When a subsystem has left its bit is set nowhere.
LEMMA LeaveEndsRuns ==
  ASSUME TypeOK, Macros, OneTeam, NEW t \in Team, Runs, LeaveEnds(t)
  PROVE  Runs'
  <1>0. PICK o, s, p, q : o = op[t] /\ s = op[t].sub /\ p = plan /\ q = op[t].target
    OBVIOUS
  <1>1. /\ o.kind = "leave" /\ ToWrite(t) = {}
        /\ op' = [op EXCEPT ![t] = Idle] /\ UNCHANGED <<hardware, plan, history>>
    BY <1>0 DEF LeaveEnds, Written
  <1>2. o \in OpRecord /\ IsMacro(o) /\ s \in Subsystem /\ s \in Bit /\ LeaveOK(op[t]) /\ Merges(op[t])
    BY <1>0, <1>1 DEF TypeOK, Macros, Runs, MacroOK, IsMacro, Bit
  <1>3. /\ \A i \in AndSlot : p.keep[i] = q.keep[i]
        /\ \A k \in OrSlot : p.or[k] = q.or[k]
    BY <1>0, <1>1, <1>2, AllWritten DEF Merges
  <1>4. NoOr(q, s) /\ \A i \in 0..(Fine - 1) : s \notin q.keep[i]
    BY <1>0, <1>1, <1>2, LeaveTarget
  <1>5. FineMost(q, s, {})
    BY <1>4 DEF FineMost, NoOr
  <1>6. FineMost(p, s, {}) /\ FineLeast(p, s, {})
    BY <1>3, <1>5, EqualMasks DEF FineLeast
  <1>7. NoShot(plan, s) /\ due[s] = 0 /\ NowOK(s) /\ share[s] = {} /\ s \notin settled
    BY <1>0, <1>2 DEF LeaveOK, Merges
  <1>8. FineIn(s, {})
    BY <1>0, <1>6, <1>7 DEF FineIn, OfSlots
  <1>9. Resting(s)
    BY <1>7, <1>8 DEF Resting, FineShape
  <1>10. Untouched(s)
    BY <1>1, QuietStep DEF history
  <1>11. Resting(s)'
    BY <1>9, <1>10, UntouchedRests
  <1>12. InWork = {s}
    BY <1>0, <1>1, WorkIs DEF WorkOf
  <1>13. UNCHANGED <<hardware, plan, number, settled, fresh>>
         /\ \A b : share'[b] = share[b] /\ asked'[b] = asked[b] /\ due'[b] = due[b]
    BY <1>1 DEF history
  <1> QED
    BY <1>1, <1>11, <1>12, <1>13, RunsEnd

\* The macro of a single shot goes on, with what it has read and what it has still to shoot.
LEMMA ShootGo ==
  ASSUME TypeOK, Macros, OneTeam, NEW t \in Team, Runs, UNCHANGED <<hardware, plan, history>>, NEW u,
         op' = [op EXCEPT ![t] = u], op[t].kind = "shoot",
         u.kind = op[t].kind, u.sub = op[t].sub, u.keep = op[t].keep, u.or = op[t].or, Copied(op[t])', ShootOK(op[t])'
  PROVE  Runs'
  <1>1. op'[t] = u
    BY DEF TypeOK
  <1>2. Merges(op[t])
    BY DEF Runs, MacroOK
  <1>3. Merges(op[t])'
    BY <1>1, <1>2, MergesGo DEF history
  <1>4. MacroOK(op[t])'
    BY <1>1, <1>3 DEF MacroOK
  <1> QED
    BY <1>1, <1>4, RunsGo

\* A prepared chunk is armed: what is pending is what is to come of it.
LEMMA ShootArmsRuns ==
  ASSUME TypeOK, Macros, OneTeam, NEW t \in Team, Runs, ShootArms(t)
  PROVE  Runs'
  <1>0. PICK o, s, u, p, q, new, c, k : /\ o = op[t] /\ s = op[t].sub /\ p = plan /\ q = op[t].target
                                        /\ new = ArmedPlan(op[t]) /\ u = Writing(op[t], "set", new)
                                        /\ c = ChunkOf(op[t]) /\ k = c[2]
    OBVIOUS
  <1>1. /\ o.kind = "shoot" /\ o.step = "prepare" /\ ToWrite(t) = {}
        /\ op' = [op EXCEPT ![t] = u] /\ UNCHANGED <<hardware, plan, history>>
    BY <1>0 DEF ShootArms, Written
  <1>2. o \in OpRecord /\ IsMacro(o) /\ s \in Subsystem /\ ShootOK(op[t]) /\ Merges(op[t])
    BY <1>0, <1>1 DEF TypeOK, Macros, Runs, MacroOK, IsMacro
  <1>3. new \in Plan
    BY <1>0, <1>2, ArmedPlanType
  <1>4. /\ u.step = "set" /\ u.target = new /\ u.at = 0
        /\ u.kind = o.kind /\ u.sub = o.sub /\ u.m = o.m /\ u.n = o.n /\ u.offset = o.offset
        /\ u.keep = o.keep /\ u.or = o.or /\ u.remaining = o.remaining
    <2>1. u = [o EXCEPT !.step = "set", !.target = new, !.at = 0]
      BY <1>0 DEF Writing
    <2> QED
      BY <1>2, <2>1, OpRecordIs
  <1>5. op'[t] = u /\ u \in OpRecord /\ IsMacro(u)
    <2>1. op'[t] = u
      BY <1>1 DEF TypeOK
    <2>2. TypeOK' /\ Macros'
      BY TypeKept DEF Next, Macro
    <2> QED
      BY <2>1, <2>2 DEF TypeOK, Macros
  <1>6. Copied(op[t])' /\ Copied(op[t])
    BY <1>2, <1>4, <1>5, NothingCopied DEF Merges
  <1>7. \A i \in AndSlot : p.keep[i] = q.keep[i]
    BY <1>0, <1>1, <1>6, AllWritten
  <1>8. /\ ~(k >= 0) => \A i \in AndSlot : s \notin p.keep[i]
        /\ k >= 0 => \A i \in AndSlot : s \in p.keep[i] <=> i # Fine + LevelOf(k)
    <2>1. /\ ~(k >= 0) => \A i \in AndSlot : s \notin q.keep[i]
          /\ k >= 0 => \A i \in AndSlot : s \in q.keep[i] <=> i # Fine + LevelOf(k)
      BY <1>0, <1>1, <1>2, ShootTarget
    <2> QED
      BY <1>7, <2>1
  <1>9. ChunkOf(u) = c
    BY <1>0, <1>4, SamePlans
  <1>10. new.shot = ChunkShots(s, c, o.m, o.n)
    BY <1>0 DEF ArmedPlan, ChunkPlan
  <1>11. /\ c[1] \in Nat /\ c[1] > 0 /\ c[1] <= o.remaining /\ o.remaining \in Nat
         /\ \/ k \in 0..(Coarse - 1) /\ c[1] = NValues[LevelOf(k) + 1]
            \/ k = -1 /\ c[1] <= Cardinality(OnFineSlots(o.m, o.n))
    BY <1>0, <1>1, <1>2, ChunkOfIs, OpRecordIs
  <1>12. k \in Int
    BY <1>11, Sizes
  <1>13. PICK armed : armed = {j \in OrSlot : s \in ChunkShots(s, c, o.m, o.n)[j]}
    OBVIOUS
  <1>14. /\ k \in OrSlot => armed = {k}
         /\ k < 0 => /\ \A j \in armed : j >= Coarse
                     /\ IsFiniteSet(armed)
                     /\ c[1] <= Cardinality(OnFineSlots(o.m, o.n)) => Cardinality(armed) = c[1]
    <2>1. PICK m, n : m = o.m /\ n = o.n
      OBVIOUS
    <2>2. c[2] \in Int /\ c[1] \in Nat /\ k = c[2]
      BY <1>0, <1>11, <1>12
    <2>3. armed = ArmedIn(s, c, m, n)
      BY <1>13, <2>1 DEF ArmedIn
    <2>4. c[2] \in OrSlot => ArmedIn(s, c, m, n) = {c[2]}
      BY <2>2, ArmedSlots
    <2>5. ASSUME c[2] < 0
          PROVE  /\ \A j \in ArmedIn(s, c, m, n) : j >= Coarse
                 /\ IsFiniteSet(ArmedIn(s, c, m, n))
                 /\ c[1] <= Cardinality(OnFineSlots(m, n)) => Cardinality(ArmedIn(s, c, m, n)) = c[1]
      BY <2>2, <2>5, ArmedSlots
    <2> QED
      BY <2>1, <2>2, <2>3, <2>4, <2>5
  <1>15. /\ asked[s] = {} /\ NoOr(plan, s) /\ \A j \in OrSlot : s \notin o.or[j]
         /\ NoShot(plan, s) /\ due[s] = o.remaining
         /\ s \in mode => k < 0 /\ pc[1] = "and" /\ pc[2] > 0
    BY <1>0, <1>1, <1>2 DEF ShootOK
  <1>16. /\ plan' = p /\ mode' = mode /\ pc' = pc /\ number' = number /\ due' = due /\ asked' = asked
    BY <1>0, <1>1 DEF hardware, history
  <1>17. Pending(op[t])' = armed
    <2>1. \A j \in OrSlot : Place(<<"shot", j>>) >= 0
      BY PlaceType DEF Mask
    <2>2. \A j \in OrSlot : s \notin plan'.shot[j]
      BY <1>1, <1>15 DEF NoShot
    <2>3. Pending(op[t])' = {j \in OrSlot : \/ s \in plan'.shot[j]
                                            \/ Place(<<"shot", j>>) >= 0 /\ s \in new.shot[j]}
      BY <1>0, <1>4, <1>5 DEF Pending
    <2> QED
      BY <1>10, <1>13, <2>1, <2>2, <2>3
  <1>18. ASSUME k < 0
         PROVE  FineShot(op[t])'
    <2>1. ~(k >= 0) /\ k = -1
      BY <1>11, <1>12, <1>18
    <2>2. Cardinality(armed) = c[1]
      BY <1>11, <1>14, <1>18, <2>1
    <2>3. due[s] = (o.remaining - c[1]) + Cardinality(armed) + IF s \in mode /\ pc[1] = "event" THEN 1 ELSE 0
      <3>1. ~(s \in mode /\ pc[1] = "event")
        BY <1>15
      <3> QED
        BY <1>11, <1>15, <2>2, <3>1
    <2> QED
      BY <1>0, <1>4, <1>5, <1>8, <1>9, <1>14, <1>15, <1>16, <1>17, <1>18, <2>1, <2>3 DEF FineShot
  <1>19. ASSUME k >= 0
         PROVE  CoarseShot(op[t], LevelOf(k))'
    <2>1. k \in OrSlot /\ k \in 0..(Coarse - 1) /\ Coarse - LevelOf(k) = k /\ c[1] = NValues[LevelOf(k) + 1]
      BY <1>11, <1>19, Sizes DEF OrSlot, LevelOf
    <2>2. armed = {k} /\ s \notin mode
      BY <1>12, <1>14, <1>15, <1>19, <2>1
    <2>3. due[s] = (o.remaining - NValues[LevelOf(k) + 1]) + NValues[LevelOf(k) + 1]
      BY <1>11, <1>15, <2>1
    <2>4. \A i \in AndSlot : s \in p.keep[i] <=> i # Fine + LevelOf(k)
      BY <1>8, <1>19
    <2>5. PICK l : l = LevelOf(k)
      OBVIOUS
    <2>6. /\ op'[t].sub = s /\ op'[t].step = "set" /\ op'[t].remaining = o.remaining
          /\ Pending(op[t])' = {k} /\ {k} # {} /\ Coarse - l = k
      BY <1>0, <1>4, <1>5, <1>17, <2>1, <2>2, <2>5
    <2>7. /\ \A i \in AndSlot : s \in plan'.keep[i] <=> i # Fine + l
          /\ s \notin mode' /\ due'[s] = (o.remaining - NValues[l + 1]) + NValues[l + 1]
      BY <1>16, <2>2, <2>3, <2>4, <2>5
    <2>8. CoarseShot(op[t], l)'
      BY <2>6, <2>7 DEF CoarseShot
    <2> QED
      BY <1>0, <2>5, <2>8 DEF LevelOf
  <1>20. \A j \in OrSlot : s \notin plan'.shot[j]
    BY <1>1, <1>15 DEF NoShot
  <1>21. op'[t].sub = s /\ op'[t].step = "set" /\ ChunkOf(op'[t])[2] = k /\ op'[t].or = o.or
    BY <1>0, <1>4, <1>5, <1>9
  <1>22. NoOr(plan, s)'
    BY <1>0, <1>15, <1>16
  <1>23. ShootOK(op[t])'
    BY <1>15, <1>16, <1>18, <1>19, <1>20, <1>21, <1>22 DEF ShootOK
  <1> QED
    BY <1>0, <1>1, <1>4, <1>6, <1>23, ShootGo

\* In the WAIT of an event, that event has begun in the round of every loop.
LEMMA TagPassed ==
  ASSUME Position, pc \in Operation, number \in Nat, Waiting(pc), NEW l \in 1..Coarse
  PROVE  Round(pc, l) /\ Passed(pc, number, l) >= 1
  <1>1. pc[1] = "and" /\ pc[2] \in 1..Fine
    BY DEF Waiting
  <1>2. Round(pc, l)
    BY <1>1, Sizes DEF Round
  <1>3. PICK n : n = NValues[l + 1]
    OBVIOUS
  <1>4. n \in Nat /\ n > 0 /\ n % Fine = 0
    <2>1. l + 1 \in 1..(Coarse + 1) /\ 1 \in 1..(l + 1)
      BY Sizes
    <2> QED
      BY <1>3, <2>1, Loops, Parameters
  <1>5. CASE Closing(pc)
    <2>1. number - 1 \in Int
      OBVIOUS
    <2>2. (number - 1) % n \in 0..(n - 1)
      BY <1>4, <2>1, Division
    <2> QED
      BY <1>2, <1>3, <1>5, <2>2 DEF Passed, Latest
  <1>6. CASE ~Closing(pc)
    <2>1. number % Fine = pc[2] /\ pc[2] > 0
      BY <1>1, <1>6, Sizes DEF Position, PositionOf, Located, SlotOf
    <2>2. number % n \in 0..(n - 1)
      BY <1>4, Division
    <2>3. number % n # 0
      <3>1. (number % n) % Fine = number % Fine
        BY <1>4, Sizes, Divides
      <3>2. 0 % Fine = 0
        BY Sizes
      <3> QED
        BY <2>1, <3>1, <3>2, Sizes
    <2> QED
      BY <1>2, <1>3, <1>6, <2>2, <2>3 DEF Passed, Latest
  <1> QED
    BY <1>5, <1>6

\* The wait begins with nothing left to be armed.
LEMMA ShootWaitsRuns ==
  ASSUME TypeOK, Macros, OneTeam, NEW t \in Team, Runs, ShootWaits(t)
  PROVE  Runs'
  <1>0. PICK o, s, u, p, q, c, k, a : /\ o = op[t] /\ s = op[t].sub /\ p = plan /\ q = op[t].target /\ a = op[t].at
                                      /\ u = [op[t] EXCEPT !.step = "wait", !.waited = 0]
                                      /\ c = ChunkOf(op[t]) /\ k = c[2]
    OBVIOUS
  <1>1. /\ o.kind = "shoot" /\ o.step = "set" /\ ToWrite(t) = {}
        /\ op' = [op EXCEPT ![t] = u] /\ UNCHANGED <<hardware, plan, history>>
    BY <1>0 DEF ShootWaits, Written
  <1>2. o \in OpRecord /\ IsMacro(o) /\ s \in Subsystem /\ ShootOK(op[t]) /\ Merges(op[t])
    BY <1>0, <1>1 DEF TypeOK, Macros, Runs, MacroOK, IsMacro
  <1>3. /\ u.step = "wait" /\ u.waited = 0 /\ u.target = o.target /\ u.at = o.at
        /\ u.kind = o.kind /\ u.sub = o.sub /\ u.m = o.m /\ u.n = o.n /\ u.offset = o.offset
        /\ u.keep = o.keep /\ u.or = o.or /\ u.remaining = o.remaining
    BY <1>0, <1>2, OpRecordIs
  <1>4. op'[t] = u
    BY <1>1 DEF TypeOK
  <1>5. Copied(op[t])'
    <2>1. \A v \in Mask : v[1] # "shot" => Word(p, v) = Word(q, v)
      BY <1>0, <1>1, <1>2, AllWritten DEF Merges
    <2> QED
      BY <1>0, <1>1, <1>3, <1>4, <2>1 DEF Copied
  <1>6. ChunkOf(u) = c
    <2>1. ChunkOf(u) = ChunkOf(o)
      BY <1>3, SamePlans
    <2> QED
      BY <1>0, <2>1
  <1>7. /\ asked[s] = {} /\ NoOr(plan, s) /\ \A j \in OrSlot : s \notin o.or[j]
        /\ \A j \in OrSlot : s \in p.shot[j] => s \in q.shot[j]
        /\ k < 0 => FineShot(op[t])
        /\ k >= 0 => CoarseShot(op[t], LevelOf(k))
    BY <1>0, <1>1, <1>2 DEF ShootOK
  <1>8. /\ plan' = p /\ mode' = mode /\ pc' = pc /\ number' = number /\ due' = due /\ asked' = asked
    BY <1>0, <1>1 DEF hardware, history
  <1>9. Pending(op[t])' = Pending(op[t])
    <2>1. \A j \in OrSlot : Place(<<"shot", j>>) >= a => p.shot[j] = q.shot[j]
      BY <1>0, <1>1, AllWritten
    <2>2. Pending(op[t]) = {j \in OrSlot : s \in p.shot[j] \/ (Place(<<"shot", j>>) >= a /\ s \in q.shot[j])}
      BY <1>0, <1>1 DEF Pending
    <2>3. Pending(op[t])' = {j \in OrSlot : s \in p.shot[j]}
      BY <1>0, <1>3, <1>4, <1>8 DEF Pending
    <2> QED
      BY <2>1, <2>2, <2>3
  <1>10. ASSUME k < 0
         PROVE  FineShot(op[t])'
    <2>1. FineShot(op[t])
      BY <1>7, <1>10
    <2> QED
      BY <1>0, <1>3, <1>4, <1>6, <1>8, <1>9, <2>1 DEF FineShot
  <1>11. ASSUME k >= 0
         PROVE  CoarseShot(op[t], LevelOf(k))'
    <2>1. CoarseShot(op[t], LevelOf(k))
      BY <1>7, <1>11
    <2>2. LevelOf(k) \in 1..Coarse
      <3>1. k \in 0..(Coarse - 1) \/ k = -1
        BY <1>0, <1>1, <1>2, ChunkOfIs
      <3> QED
        BY <1>11, <3>1, Sizes DEF LevelOf
    <2>3. PICK l \in 1..Coarse : l = LevelOf(k)
      BY <2>2
    <2>4. Passed(pc, number, l) \in 0..NValues[l + 1] /\ NValues[l + 1] \in Nat
      BY PassedType, Loops DEF TypeOK
    <2>5. PICK n, e : n = NValues[l + 1] /\ e = Passed(pc, number, l)
      OBVIOUS
    <2>6. 0 <= n /\ 0 <= e /\ 0 <= n + e
      BY <2>4, <2>5
    <2>7. CoarseShot(op[t], l)
      BY <2>1, <2>3
    <2>8. CoarseShot(op[t], l)'
      <3>1. /\ 0 + InTag(pc) <= IF Round(pc, l) THEN Passed(pc, number, l) ELSE NValues[l + 1]
            /\ 0 + InTag(pc) <= NValues[l + 1] + Passed(pc, number, l)
        <4>1. CASE Waiting(pc)
          BY <2>4, <4>1, TagPassed DEF InTag, TypeOK, Runs, Position
        <4>2. CASE ~Waiting(pc)
          BY <2>5, <2>6, <4>2 DEF InTag
        <4> QED
          BY <4>1, <4>2
      <3> QED
        BY <1>0, <1>3, <1>4, <1>8, <1>9, <2>7, <3>1 DEF CoarseShot
    <2> QED
      BY <2>3, <2>8 DEF LevelOf
  <1>12. op'[t].sub = s /\ op'[t].step = "wait" /\ ChunkOf(op'[t])[2] = k /\ op'[t].or = o.or /\ op'[t].target = q
    BY <1>0, <1>3, <1>4, <1>6
  <1>13. NoOr(plan, s)'
    BY <1>0, <1>7, <1>8
  <1>14. ShootOK(op[t])'
    BY <1>7, <1>8, <1>10, <1>11, <1>12, <1>13 DEF ShootOK
  <1>15. /\ op[t].kind = "shoot" /\ op' = [op EXCEPT ![t] = u] /\ UNCHANGED <<hardware, plan, history>>
         /\ u.kind = op[t].kind /\ u.sub = op[t].sub /\ u.keep = op[t].keep /\ u.or = op[t].or
    BY <1>0, <1>1, <1>3
  <1> QED
    BY <1>5, <1>14, <1>15, ShootGo

\* A chunk that is over: nothing of it is armed, and what is due is the rest of the shot.  A coarse
\* chunk that still had its bit on would have been left before the tag of its last event.
LEMMA ChunkOver ==
  ASSUME TypeOK, Macros, NEW t \in Team, running, Runs, ChunkEnds(t), NEW s, s = op[t].sub,
         NEW c, c = ChunkOf(op[t])
  PROVE  /\ NoShot(plan, s) /\ due[s] = op[t].remaining - c[1]
         /\ s \in mode => c[2] < 0 /\ pc[1] = "and" /\ pc[2] > 0
         /\ c[2] < 0 => \A i \in AndSlot : s \notin plan.keep[i]
  <1>0. PICK o, k : o = op[t] /\ k = c[2]
    OBVIOUS
  <1>1. /\ o.kind = "shoot" /\ o.step = "wait" /\ pc[1] # "event" /\ ShotsCleared
        /\ o.waited >= EventsToWait(c, o.m, o.n) /\ InTag(pc) = 1
    BY <1>0 DEF ChunkEnds, InWait, InTag, Waiting
  <1>2. o \in OpRecord /\ IsMacro(o) /\ ShootOK(op[t])
    BY <1>0, <1>1 DEF TypeOK, Macros, Runs, MacroOK
  <1>3. NoShot(plan, s)
    BY <1>1 DEF ShotsCleared, NoShot
  <1>4. Pending(op[t]) = {}
    BY <1>0, <1>1, <1>3 DEF Pending, NoShot
  <1>5. /\ k < 0 => FineShot(op[t])
        /\ k >= 0 => CoarseShot(op[t], LevelOf(k))
    BY <1>0, <1>1, <1>2 DEF ShootOK
  <1>6. /\ c[1] \in Nat /\ o.remaining \in Nat /\ o.waited \in Nat
        /\ \/ k \in 0..(Coarse - 1) /\ c[1] = NValues[LevelOf(k) + 1] /\ o.m = o.n
           \/ k = -1
    BY <1>0, <1>1, <1>2, ChunkOfIs, OpRecordIs
  <1>7. CASE k = -1
    <2>1. FineShot(op[t]) /\ k < 0
      BY <1>5, <1>7
    <2>2. Cardinality({}) = 0
      BY FS_EmptySet
    <2>3. /\ \A i \in AndSlot : s \notin plan.keep[i]
          /\ s \in mode => pc[1] = "and" /\ pc[2] > 0
          /\ due[s] = (o.remaining - c[1]) + Cardinality({}) + IF s \in mode /\ pc[1] = "event" THEN 1 ELSE 0
      BY <1>0, <1>1, <1>4, <2>1 DEF FineShot
    <2>4. due[s] = o.remaining - c[1]
      BY <1>1, <1>6, <2>2, <2>3
    <2> QED
      BY <1>0, <1>3, <2>1, <2>3, <2>4
  <1>8. CASE k # -1
    <2>1. k \in 0..(Coarse - 1) /\ c[1] = NValues[LevelOf(k) + 1] /\ o.m = o.n
      BY <1>6, <1>8
    <2>2. PICK l \in 1..Coarse : l = LevelOf(k)
      BY <2>1, Sizes DEF LevelOf
    <2>3. CoarseShot(op[t], l)
      BY <1>5, <2>1, <2>2, Sizes
    <2>4. PICK n, e : n = c[1] /\ e = Passed(pc, number, l)
      OBVIOUS
    <2>5. n \in Nat /\ e \in 0..n
      BY <1>6, <2>1, <2>2, <2>4, PassedType DEF TypeOK
    <2>6. /\ s \in mode => o.waited + 1 <= n + e
          /\ due[s] = (o.remaining - n) + IF s \in mode THEN n - e ELSE 0
      BY <1>0, <1>1, <1>4, <2>1, <2>2, <2>3, <2>4 DEF CoarseShot
    <2>7. EventsToWait(c, o.m, o.n) = 2 * n
      BY <2>1, <2>4 DEF EventsToWait
    <2>8. s \notin mode
      BY <1>1, <1>6, <2>5, <2>6, <2>7
    <2>9. due[s] = o.remaining - n
      BY <1>6, <2>5, <2>6, <2>8
    <2>10. ~(k < 0)
      BY <2>1, Sizes
    <2> QED
      BY <1>0, <1>3, <2>4, <2>8, <2>9, <2>10
  <1> QED
    BY <1>7, <1>8

\* The last chunk ends the macro, another one is followed by the next.
LEMMA ChunkEndsRuns ==
  ASSUME TypeOK, Macros, OneTeam, NEW t \in Team, running, Runs, ChunkEnds(t)
  PROVE  Runs'
  <1>0. PICK o, s, c, v, u : /\ o = op[t] /\ s = op[t].sub /\ c = ChunkOf(op[t])
                             /\ v = [op[t] EXCEPT !.remaining = @ - ChunkOf(op[t])[1]]
                             /\ u = Writing(v, "prepare", ChunkPlan(v, NoShots))
    OBVIOUS
  <1>1. /\ o.kind = "shoot" /\ o.step = "wait"
        /\ op' = [op EXCEPT ![t] = IF v.remaining = 0 THEN Idle ELSE u]
        /\ UNCHANGED <<hardware, plan, history>>
    BY <1>0 DEF ChunkEnds
  <1>2. o \in OpRecord /\ IsMacro(o) /\ s \in Subsystem /\ s \in Bit /\ ShootOK(op[t]) /\ Merges(op[t])
    BY <1>0, <1>1 DEF TypeOK, Macros, Runs, MacroOK, IsMacro, Bit
  <1>3. /\ NoShot(plan, s) /\ due[s] = o.remaining - c[1]
        /\ s \in mode => c[2] < 0 /\ pc[1] = "and" /\ pc[2] > 0
        /\ c[2] < 0 => \A i \in AndSlot : s \notin plan.keep[i]
    BY <1>0, ChunkOver
  <1>4. /\ asked[s] = {} /\ NoOr(plan, s) /\ \A j \in OrSlot : s \notin o.or[j]
        /\ share[s] = {} /\ s \notin settled
    BY <1>0, <1>2 DEF ShootOK, Merges
  <1>5. /\ c[1] \in Nat /\ c[1] > 0 /\ c[1] <= o.remaining /\ o.remaining \in Nat
        /\ \/ c[2] \in 0..(Coarse - 1)
           \/ c[2] = -1 /\ (o.m = o.n => \A j \in 0..(Coarse - 1) : ~(NValues[LevelOf(j) + 1] <= o.remaining))
    BY <1>0, <1>1, <1>2, ChunkOfIs, OpRecordIs
  <1>6. /\ v.remaining = o.remaining - c[1]
        /\ v = [kind |-> o.kind, step |-> o.step, sub |-> o.sub, m |-> o.m, n |-> o.n,
                offset |-> o.offset, keep |-> o.keep, or |-> o.or, remaining |-> o.remaining - c[1],
                at |-> o.at, target |-> o.target, waited |-> o.waited]
    <2>1. o = [kind |-> o.kind, step |-> o.step, sub |-> o.sub, m |-> o.m, n |-> o.n,
               offset |-> o.offset, keep |-> o.keep, or |-> o.or, remaining |-> o.remaining,
               at |-> o.at, target |-> o.target, waited |-> o.waited]
      BY <1>2, OpRecordIs
    <2>2. v = [o EXCEPT !.remaining = o.remaining - c[1]]
      BY <1>0
    <2> QED
      BY <2>1, <2>2
  <1>7. ASSUME v.remaining = 0
        PROVE  Runs'
    <2>1. op' = [op EXCEPT ![t] = Idle] /\ due[s] = 0
      BY <1>1, <1>3, <1>6, <1>7
    <2>2. SilentShape(s) \/ FineShape(s)
      <3>1. CASE s \notin mode
        BY <1>4, <3>1 DEF SilentShape
      <3>2. CASE s \in mode
        <4>1. \A i \in AndSlot : s \notin plan.keep[i]
          BY <1>3, <3>2
        <4>2. \A i \in 0..(Fine - 1) : i \in AndSlot
          BY Sizes DEF AndSlot
        <4>3. FineMost(plan, s, {}) /\ FineLeast(plan, s, {})
          BY <1>4, <4>1, <4>2 DEF FineMost, FineLeast, NoOr
        <4>4. FineIn(s, {})
          BY <1>4, <4>3 DEF FineIn, OfSlots
        <4> QED
          BY <4>4 DEF FineShape
      <3> QED
        BY <3>1, <3>2
    <2>3. NowOK(s)
      <3>1. s \in mode => ~Slotted(pc)
        BY <1>3 DEF Slotted
      <3> QED
        BY <3>1 DEF NowOK, Now
    <2>4. Resting(s)
      BY <1>3, <2>1, <2>2, <2>3 DEF Resting
    <2>5. Untouched(s)
      BY <1>1, QuietStep DEF history
    <2>6. Resting(s)'
      BY <2>4, <2>5, UntouchedRests
    <2>7. InWork = {s}
      BY <1>0, <1>1, WorkIs DEF WorkOf
    <2>8. UNCHANGED <<hardware, plan, number, settled, fresh>>
          /\ \A b : share'[b] = share[b] /\ asked'[b] = asked[b] /\ due'[b] = due[b]
      BY <1>1 DEF history
    <2> QED
      BY <2>1, <2>6, <2>7, <2>8, RunsEnd
  <1>8. ASSUME v.remaining # 0
        PROVE  Runs'
    <2>1. op' = [op EXCEPT ![t] = u]
      BY <1>1, <1>8
    <2>2. /\ u.step = "prepare" /\ u.at = 0 /\ u.remaining = v.remaining
          /\ u.kind = o.kind /\ u.sub = s /\ u.m = o.m /\ u.n = o.n
          /\ u.keep = o.keep /\ u.or = o.or
      <3>1. u = [v EXCEPT !.step = "prepare", !.target = ChunkPlan(v, NoShots), !.at = 0]
        BY <1>0 DEF Writing
      <3>2. v \in OpRecord
        <4>1. o.remaining - c[1] \in Nat
          BY <1>5
        <4> QED
          BY <1>0, <1>2, <4>1 DEF OpRecord
      <3>3. v.kind = o.kind /\ v.sub = s /\ v.m = o.m /\ v.n = o.n /\ v.keep = o.keep /\ v.or = o.or
        BY <1>0, <1>6
      <3>4. /\ u.step = "prepare" /\ u.at = 0 /\ u.remaining = v.remaining
            /\ u.kind = v.kind /\ u.sub = v.sub /\ u.m = v.m /\ u.n = v.n
            /\ u.keep = v.keep /\ u.or = v.or
        BY <3>1, <3>2, OpRecordIs
      <3> QED
        BY <3>3, <3>4
    <2>3. op'[t] = u /\ u \in OpRecord /\ IsMacro(u)
      <3>1. op'[t] = u
        BY <2>1 DEF TypeOK
      <3>2. TypeOK' /\ Macros'
        BY TypeKept DEF Next, Macro
      <3> QED
        BY <3>1, <3>2 DEF TypeOK, Macros
    <2>4. ASSUME s \in mode
          PROVE  ChunkOf(u)[2] < 0
      <3>1. PICK d : d = ChunkOf(u)
        OBVIOUS
      <3>2. /\ d[1] \in Nat /\ d[1] <= u.remaining
            /\ \/ d[2] \in 0..(Coarse - 1) /\ o.m = o.n /\ d[1] = NValues[LevelOf(d[2]) + 1]
               \/ d[2] = -1
        BY <1>1, <2>2, <2>3, <3>1, ChunkOfIs
      <3>3. CASE d[2] = -1
        BY <3>1, <3>3
      <3>4. CASE d[2] \in 0..(Coarse - 1) /\ o.m = o.n /\ d[1] = NValues[LevelOf(d[2]) + 1]
        <4>1. c[2] < 0
          BY <1>3, <2>4
        <4>2. ~(d[1] <= o.remaining)
          BY <1>5, <3>4, <4>1, Sizes
        <4>3. d[1] <= o.remaining - c[1]
          BY <1>6, <2>2, <3>2
        <4> QED
          BY <1>5, <3>2, <4>2, <4>3
      <3> QED
        BY <3>2, <3>3, <3>4
    <2>5. Copied(op[t])'
      BY <2>2, <2>3, NothingCopied
    <2>6. /\ plan' = plan /\ mode' = mode /\ pc' = pc /\ due' = due /\ asked' = asked
      BY <1>1 DEF hardware, history
    <2>7. /\ NoOr(plan, s)' /\ NoShot(plan, s)'
      BY <1>3, <1>4, <2>6
    <2>8. ShootOK(op[t])'
      BY <1>3, <1>4, <1>6, <2>2, <2>3, <2>4, <2>6, <2>7 DEF ShootOK
    <2>9. /\ op[t].kind = "shoot" /\ u.kind = op[t].kind /\ u.sub = op[t].sub
          /\ u.keep = op[t].keep /\ u.or = op[t].or
      BY <1>0, <1>1, <2>2
    <2> QED
      BY <1>1, <2>1, <2>5, <2>8, <2>9, ShootGo
  <1> QED
    BY <1>7, <1>8

-----------------------------------------------------------------------------
(* Macros that begin                                                        *)

\* Without a macro every bit rests.
LEMMA NothingInWork ==
  ASSUME Macros, OneTeam, NEW t \in Team, op[t].kind = "idle"
  PROVE  op[t] = Idle /\ InWork = {NoSubsystem} /\ NoSubsystem \notin Bit
  <1>1. op[t] = Idle
    BY DEF Macros, IsMacro
  <1> QED
    BY <1>1, WorkIs, IdleWork

\* A macro about s begins: nothing else is touched.
LEMMA BeginsRuns ==
  ASSUME Macros, TypeOK, OneTeam, NEW t \in Team, Runs, op[t].kind = "idle", NEW s \in Subsystem,
         UNCHANGED <<hardware, plan, number>>, settled' = settled \ {s}, fresh' = fresh \ {s},
         op'[t].sub = s, op'[t].kind # "start",
         \A b \in Bit : b # s => share'[b] = share[b] /\ asked'[b] = asked[b] /\ due'[b] = due[b],
         MacroOK(op[t])'
  PROVE  Runs' /\ (Settled => Settled')
  <1>1. InWork = {NoSubsystem} /\ NoSubsystem \notin Bit /\ s \in Bit
    BY NothingInWork DEF Bit
  <1>2. InWork' = {s}
    BY WorkNext DEF WorkOf
  <1>3. ASSUME NEW b \in Bit, b # s
        PROVE  Untouched(b)
    BY <1>3, QuietStep
  <1>4. ASSUME NEW b \in Bit \ InWork'
        PROVE  Resting(b)'
    BY <1>1, <1>2, <1>3, UntouchedRests DEF Runs
  <1>5. ASSUME NEW b \in fresh'
        PROVE  b \notin InWork' /\ Fresh(b)'
    <2>1. b \in fresh /\ b # s /\ b \in Bit
      BY DEF TypeOK, Bit
    <2>2. Fresh(b) /\ Untouched(b)
      BY <1>3, <2>1 DEF Runs
    <2> QED
      BY <1>2, <2>1, <2>2, UntouchedFull
  <1>6. pc' = pc /\ number' = number /\ left' = left
    BY DEF hardware
  <1>7. Runs'
    BY <1>4, <1>5, <1>6, RunsIf DEF Runs
  <1>8. ASSUME Settled, NEW b \in settled'
        PROVE  b \notin InWork' /\ asked'[b] = {} /\ due'[b] = 0
    <2>1. b \in settled /\ b # s /\ b \in Bit
      BY <1>8 DEF TypeOK
    <2> QED
      BY <1>2, <1>8, <2>1 DEF Settled
  <1> QED
    BY <1>7, <1>8 DEF Settled

\* What a macro has read of the masks at its start are those of the others, and it has written nothing.
LEMMA MergesBegins ==
  ASSUME NEW t \in Team, NEW s, UNCHANGED plan, settled' = settled \ {s}, fresh' = fresh \ {s}, share'[s] = {},
         op'[t].sub = s, op'[t].keep = plan.keep, op'[t].or = plan.or, op'[t].at = 0, op'[t].step # "wait"
  PROVE  Merges(op[t])'
  <1>1. Copied(op[t])'
    BY NothingCopied
  <1> QED
    BY <1>1 DEF Merges

\* A bit that rests without a share is set nowhere, and may only be on until the next fine slot.
LEMMA WithoutShare ==
  ASSUME NEW b, Resting(b), share[b] = {}
  PROVE  NoOr(plan, b) /\ (b \in mode => \A i \in 0..(Fine - 1) : b \notin plan.keep[i])
  <1>1. 0 \in All /\ \A i \in 0..(Fine - 1) : i \in All /\ i % Fine = i
    <2>1. Fine \in Nat /\ Fine > 1 /\ Period \in Nat /\ Period >= Fine
      <3>1. Coarse + 1 \in 1..(Coarse + 1)
        BY Sizes
      <3> QED
        BY <3>1, Parameters
    <2>2. \A i \in 0..(Fine - 1) : i \in All
      BY <2>1 DEF All
    <2>3. ASSUME NEW i \in 0..(Fine - 1)
          PROVE  i % Fine = i
      BY <2>1, Remainder
    <2> QED
      BY <2>1, <2>2, <2>3
  <1>2. CASE FullShape(b)
    BY <1>1, <1>2 DEF FullShape
  <1>3. CASE SilentShape(b)
    BY <1>3 DEF SilentShape
  <1>4. CASE FineShape(b)
    <2>1. PICK D \in SUBSET (0..(Fine - 1)) : FineIn(b, D)
      BY <1>4 DEF FineShape
    <2>2. D = {}
      BY <1>1, <2>1 DEF FineIn, OfSlots
    <2> QED
      BY <2>1, <2>2 DEF FineIn, FineMost, NoOr
  <1>5. CASE CoarseShape(b)
    <2>1. PICK l \in 1..Coarse : CoarseIn(b, l)
      BY <1>5 DEF CoarseShape
    <2>2. 0 % NValues[l + 1] = 0
      <3>1. NValues[l + 1] \in Nat /\ NValues[l + 1] > 0
        BY Loops
      <3> QED
        BY <3>1, Remainder
    <2> QED
      BY <1>1, <2>1, <2>2 DEF CoarseIn, OfLevel
  <1> QED
    BY <1>2, <1>3, <1>4, <1>5 DEF Resting

\* A subsystem without a share joins: its masks are as its next macro may find them.
LEMMA JoinStartsRuns ==
  ASSUME TypeOK, Macros, OneTeam, Careful, NEW t \in Team, running, Runs, JoinStarts(t)
  PROVE  Runs' /\ (Settled => Settled')
  <1>1. PICK s \in Subsystem, asking \in Ratio, offset \in Offset :
          /\ Begins(t, s)
          /\ \E r \in Resolved(asking[1], asking[2]) :
               /\ Careful => share[s] = {} /\ (r[2] > Fine => s \in fresh)
               /\ LET o == Extracted("join", s, r, offset)
                  IN  op' = [op EXCEPT ![t] = Writing(o, "prepare", JoinPass1(o))]
               /\ asked' = [asked EXCEPT ![s] = @ \cup Share(r[1], r[2], offset)]
          /\ UNCHANGED <<hardware, plan, number, share, due>>
    BY DEF JoinStarts
  <1>2. PICK r \in Resolved(asking[1], asking[2]) :
          /\ share[s] = {} /\ (r[2] > Fine => s \in fresh)
          /\ op' = [op EXCEPT ![t] = Writing(Extracted("join", s, r, offset), "prepare",
                                             JoinPass1(Extracted("join", s, r, offset)))]
          /\ asked' = [asked EXCEPT ![s] = @ \cup Share(r[1], r[2], offset)]
    BY <1>1
  <1>3. /\ op[t].kind = "idle" /\ settled' = settled \ {s} /\ fresh' = fresh \ {s}
        /\ UNCHANGED <<hardware, plan, number, share, due>>
    BY <1>1 DEF Begins
  <1>4. r \in Nat \X Nat /\ r[2] \in Nat /\ offset \in Nat
    <2>1. asking[1] \in Nat /\ asking[2] \in Nat /\ offset \in Nat
      BY AskedAssumption
    <2>2. r \in Nat \X Nat
      BY <2>1, ResolvedIs
    <2> QED
      BY <2>1, <2>2
  <1>5. PICK o, u, kind : /\ kind = "join" /\ o = Extracted(kind, s, r, offset)
                          /\ u = Writing(o, "prepare", JoinPass1(o))
    OBVIOUS
  <1>6. /\ o \in OpRecord /\ o.kind = "join" /\ o.sub = s /\ o.m = r[1] /\ o.n = r[2] /\ o.offset = offset
        /\ o.keep = plan.keep /\ o.or = plan.or
    BY <1>4, <1>5, ExtractedType DEF TypeOK, Kind
  <1>7. /\ u.step = "prepare" /\ u.at = 0
        /\ u.kind = "join" /\ u.sub = s /\ u.m = r[1] /\ u.n = r[2] /\ u.offset = offset
        /\ u.keep = plan.keep /\ u.or = plan.or
    <2>1. JoinPass1(o) \in Plan
      BY <1>6, JoinPlanType DEF JoinPass1
    <2>2. u = [o EXCEPT !.step = "prepare", !.target = JoinPass1(o), !.at = 0]
      BY <1>5 DEF Writing
    <2> QED
      BY <1>6, <2>1, <2>2, OpRecordIs
  <1>8. op'[t] = u
    BY <1>2, <1>5 DEF TypeOK
  <1>9. s \in Bit /\ s \notin InWork /\ InWork = {NoSubsystem}
    BY <1>3, NothingInWork DEF Bit
  <1>10. /\ Resting(s) /\ NoShot(plan, s) /\ due[s] = 0 /\ NowOK(s)
         /\ NoOr(plan, s) /\ (s \in mode => \A i \in 0..(Fine - 1) : s \notin plan.keep[i])
    BY <1>2, <1>9, WithoutShare DEF Runs, Resting, Steady
  <1>11. r[2] > Fine => s \in plan.keep[0] /\ s \notin mode
    <2>1. 0 \in AndSlot
      BY Sizes DEF AndSlot
    <2> QED
      BY <1>2, <2>1 DEF Runs, Fresh, KeepsAll
  <1>12. /\ plan' = plan /\ mode' = mode /\ pc' = pc /\ number' = number /\ due' = due /\ share' = share
         /\ asked'[s] = asked[s] \cup Share(r[1], r[2], offset)
         /\ \A b \in Bit : b # s => asked'[b] = asked[b]
    BY <1>2, <1>3, <1>9 DEF hardware, TypeOK
  <1>13. NowOK(s)' /\ NoShot(plan, s)' /\ NoOr(plan, s)'
    BY <1>10, <1>12 DEF NowOK, Now
  <1>14. s \in mode => r[2] <= Fine
    BY <1>4, <1>11, Sizes
  <1>15. JoinOK(op[t])'
    BY <1>7, <1>8, <1>10, <1>11, <1>12, <1>13, <1>14 DEF JoinOK, NoOr
  <1>16. Merges(op[t])'
    BY <1>2, <1>3, <1>7, <1>8, <1>12, MergesBegins
  <1>17. MacroOK(op[t])'
    BY <1>7, <1>8, <1>15, <1>16 DEF MacroOK
  <1>18. op'[t].sub = s /\ op'[t].kind # "start"
    BY <1>7, <1>8
  <1> QED
    BY <1>3, <1>12, <1>17, <1>18, BeginsRuns

\* A subsystem leaves: it may be on where it was on before.
LEMMA LeaveStartsRuns ==
  ASSUME TypeOK, Macros, OneTeam, NEW t \in Team, running, Runs, LeaveStarts(t)
  PROVE  Runs' /\ (Settled => Settled')
  <1>1. PICK s \in Subsystem :
          /\ Begins(t, s)
          /\ LET o == Extracted("leave", s, <<1, 1>>, 0)
             IN  op' = [op EXCEPT ![t] = Writing(o, "set", PeriodicOff(o.keep, o.or, {s}))]
          /\ asked' = [asked EXCEPT ![s] = @ \cup share[s]]
          /\ share' = [share EXCEPT ![s] = {}]
          /\ UNCHANGED <<hardware, plan, number, due>>
    BY DEF LeaveStarts
  <1>2. /\ op[t].kind = "idle" /\ settled' = settled \ {s} /\ fresh' = fresh \ {s}
        /\ UNCHANGED <<hardware, plan, number, due>>
    BY <1>1 DEF Begins
  <1>3. PICK o, u, r, kind, f : /\ r = <<1, 1>> /\ kind = "leave" /\ f = 0 /\ o = Extracted(kind, s, r, f)
                                /\ u = Writing(o, "set", PeriodicOff(o.keep, o.or, {s}))
    OBVIOUS
  <1>4. o \in OpRecord /\ o.kind = "leave" /\ o.sub = s /\ o.keep = plan.keep /\ o.or = plan.or
    BY <1>3, ExtractedType DEF TypeOK, Kind
  <1>5. s \in Bit /\ s \notin InWork /\ InWork = {NoSubsystem}
    BY <1>2, NothingInWork DEF Bit
  <1>6. /\ u.step = "set" /\ u.at = 0 /\ u.kind = "leave" /\ u.sub = s
        /\ u.keep = plan.keep /\ u.or = plan.or
    <2>1. PeriodicOff(o.keep, o.or, {s}) \in Plan
      BY <1>4, <1>5, OpRecordIs, PeriodicOffType
    <2>2. u = [o EXCEPT !.step = "set", !.target = PeriodicOff(o.keep, o.or, {s}), !.at = 0]
      BY <1>3 DEF Writing
    <2> QED
      BY <1>4, <2>1, <2>2, OpRecordIs
  <1>7. op'[t] = u
    BY <1>1, <1>3 DEF TypeOK
  <1>8. Resting(s) /\ NoShot(plan, s) /\ due[s] = 0 /\ NowOK(s) /\ Steady(s)
    BY <1>5 DEF Runs, Resting, Steady
  <1>9. /\ plan' = plan /\ mode' = mode /\ pc' = pc /\ number' = number /\ due' = due
        /\ asked'[s] = asked[s] \cup share[s] /\ share'[s] = {}
        /\ \A b \in Bit : b # s => asked'[b] = asked[b] /\ share'[b] = share[b]
    BY <1>1, <1>2, <1>5 DEF hardware, TypeOK
  <1>10. share'[s] \cup asked'[s] = share[s] \cup asked[s]
    BY <1>9
  <1>11. NowOK(s)' /\ NoShot(plan, s)'
    BY <1>8, <1>9, <1>10 DEF NowOK
  <1>12. Fading(s)'
    <2>1. CASE FullShape(s)
      <3>1. share'[s] \cup asked'[s] = All
        BY <1>5, <1>10, <2>1 DEF FullShape, TypeOK, All
      <3> QED
        BY <3>1 DEF Fading
    <2>2. CASE SilentShape(s)
      <3>1. NoOr(plan, s)' /\ s \notin mode'
        BY <1>9, <2>2 DEF SilentShape
      <3> QED
        BY <3>1 DEF Fading
    <2>3. CASE FineShape(s)
      <3>1. PICK D \in SUBSET (0..(Fine - 1)) : FineIn(s, D)
        BY <2>3 DEF FineShape
      <3>2. OfSlots(D) \subseteq asked'[s] /\ FineMost(plan', s, D)
        BY <1>9, <3>1 DEF FineIn
      <3> QED
        BY <3>2 DEF Fading
    <2>4. CASE CoarseShape(s)
      <3>1. PICK l \in 1..Coarse : CoarseIn(s, l)
        BY <2>4 DEF CoarseShape
      <3>2. /\ OfLevel(l) \subseteq asked'[s] /\ CoarseMost(plan', s, l)
            /\ CoarseMode(pc', number', mode', s, l)
        BY <1>8, <1>9, <3>1 DEF CoarseIn
      <3> QED
        BY <3>2 DEF Fading
    <2> QED
      BY <1>8, <2>1, <2>2, <2>3, <2>4 DEF Resting
  <1>13. LeaveOK(op[t])'
    BY <1>6, <1>7, <1>8, <1>9, <1>11, <1>12 DEF LeaveOK
  <1>14. Merges(op[t])'
    BY <1>2, <1>6, <1>7, <1>9, MergesBegins
  <1>15. MacroOK(op[t])'
    BY <1>6, <1>7, <1>13, <1>14 DEF MacroOK
  <1>16. op'[t].sub = s /\ op'[t].kind # "start"
    BY <1>6, <1>7
  <1> QED
    BY <1>2, <1>9, <1>15, <1>16, BeginsRuns

\* A subsystem that is off shoots: all its events still have to come.
LEMMA ShootStartsRuns ==
  ASSUME TypeOK, Macros, OneTeam, Careful, NEW t \in Team, running, Runs, ShootStarts(t)
  PROVE  Runs' /\ (Settled => Settled')
  <1>1. PICK s \in Subsystem, asking \in Ratio, count \in Count :
          /\ Begins(t, s)
          /\ Careful => share[s] = {} /\ s \notin mode
          /\ \E r \in Resolved(asking[1], asking[2]) :
               /\ r[2] <= Fine
               /\ OnFineSlots(r[1], r[2]) # {}
               /\ LET o == [Extracted("shoot", s, r, 0) EXCEPT !.remaining = count]
                  IN  op' = [op EXCEPT ![t] = Writing(o, "prepare", ChunkPlan(o, NoShots))]
          /\ due' = [due EXCEPT ![s] = count]
          /\ asked' = [asked EXCEPT ![s] = {}]
          /\ UNCHANGED <<hardware, plan, number, share>>
    BY DEF ShootStarts
  <1>2. PICK r \in Resolved(asking[1], asking[2]) :
          op' = [op EXCEPT ![t] = Writing([Extracted("shoot", s, r, 0) EXCEPT !.remaining = count], "prepare",
                                          ChunkPlan([Extracted("shoot", s, r, 0) EXCEPT !.remaining = count], NoShots))]
    BY <1>1
  <1>3. PICK x, o, u : /\ x = Extracted("shoot", s, r, 0) /\ o = [x EXCEPT !.remaining = count]
                       /\ u = Writing(o, "prepare", ChunkPlan(o, NoShots))
                       /\ op' = [op EXCEPT ![t] = u]
    BY <1>2
  <1>4. /\ op[t].kind = "idle" /\ settled' = settled \ {s} /\ fresh' = fresh \ {s}
        /\ UNCHANGED <<hardware, plan, number, share>> /\ share[s] = {} /\ s \notin mode
    BY <1>1 DEF Begins
  <1>5. r \in Nat \X Nat /\ count \in Nat
    <2>1. asking[1] \in Nat /\ asking[2] \in Nat /\ count \in Nat
      BY AskedAssumption
    <2>2. r \in Nat \X Nat
      BY <2>1, ResolvedIs
    <2> QED
      BY <2>1, <2>2
  <1>6. x \in OpRecord /\ x.kind = "shoot" /\ x.sub = s /\ x.keep = plan.keep /\ x.or = plan.or
    <2>1. PICK kind, f : kind = "shoot" /\ f = 0
      OBVIOUS
    <2>2. x = Extracted(kind, s, r, f)
      BY <1>3, <2>1
    <2> QED
      BY <1>5, <2>1, <2>2, ExtractedType DEF TypeOK, Kind
  <1>7. o \in OpRecord /\ o.kind = "shoot" /\ o.sub = s /\ o.keep = plan.keep /\ o.or = plan.or /\ o.remaining = count
    <2>1. o \in OpRecord
      BY <1>3, <1>5, <1>6 DEF OpRecord
    <2> QED
      BY <1>3, <1>6, <2>1, OpRecordIs
  <1>8. /\ u.step = "prepare" /\ u.at = 0 /\ u.kind = "shoot" /\ u.sub = s
        /\ u.keep = plan.keep /\ u.or = plan.or /\ u.remaining = count
    <2>1. ChunkPlan(o, NoShots) \in Plan
      BY <1>7, ChunkPlanType, EmptyTypes
    <2>2. u = [o EXCEPT !.step = "prepare", !.target = ChunkPlan(o, NoShots), !.at = 0]
      BY <1>3 DEF Writing
    <2> QED
      BY <1>7, <2>1, <2>2, OpRecordIs
  <1>9. op'[t] = u
    BY <1>3 DEF TypeOK
  <1>10. s \in Bit /\ s \notin InWork /\ InWork = {NoSubsystem}
    BY <1>4, NothingInWork DEF Bit
  <1>11. NoShot(plan, s) /\ NoOr(plan, s)
    BY <1>4, <1>10, WithoutShare DEF Runs, Resting
  <1>12. /\ plan' = plan /\ mode' = mode /\ pc' = pc /\ number' = number /\ share' = share
         /\ asked'[s] = {} /\ due'[s] = count
         /\ \A b \in Bit : b # s => asked'[b] = asked[b] /\ due'[b] = due[b]
    BY <1>1, <1>4, <1>10 DEF hardware, TypeOK
  <1>13. NoShot(plan, s)' /\ NoOr(plan, s)'
    BY <1>11, <1>12
  <1>14. ShootOK(op[t])'
    BY <1>4, <1>8, <1>9, <1>11, <1>12, <1>13 DEF ShootOK, NoOr
  <1>15. Merges(op[t])'
    BY <1>4, <1>8, <1>9, <1>12, MergesBegins
  <1>16. MacroOK(op[t])'
    BY <1>8, <1>9, <1>14, <1>15 DEF MacroOK
  <1>17. op'[t].sub = s /\ op'[t].kind # "start"
    BY <1>8, <1>9
  <1> QED
    BY <1>4, <1>12, <1>16, <1>17, BeginsRuns

\* Start writes the first part of the program, and it begins: the initial subsystems are to be on
\* always, the others never.
LEMMA StartRuns ==
  ASSUME TypeOK, OneTeam, NEW t \in Team, Start(t)
  PROVE  Runs'
  <1>1. PICK initial \in SUBSET Subsystem, r \in Resolved(InjectRatio[1], InjectRatio[2]) :
          /\ plan' = InitialPlan(initial)
          /\ op' = [op EXCEPT ![t] = [Idle EXCEPT !.kind = "start", !.step = "wait", !.target = InjectPlan(r)]]
          /\ share' = [b \in Bit |-> IF b \in initial THEN 0..(Period - 1) ELSE
                                     IF b = Inject THEN Share(r[1], r[2], 0) ELSE {}]
    BY DEF Start
  <1>2. /\ pc' = First /\ number' = 0 /\ mode' = {} /\ settled' = {} /\ fresh' = Subsystem
        /\ asked' = [b \in Bit |-> {}] /\ due' = [b \in Bit |-> 0]
    BY DEF Start
  <1>3. PICK u : u = [Idle EXCEPT !.kind = "start", !.step = "wait", !.target = InjectPlan(r)]
    OBVIOUS
  <1>4. op'[t] = u
    BY <1>1, <1>3 DEF TypeOK
  <1>5. u.kind = "start" /\ u.step = "wait" /\ u.target = InjectPlan(r) /\ u.sub = NoSubsystem /\ u.at = 0
    <2>1. Idle.sub = NoSubsystem /\ Idle.at = 0
      BY DEF Idle
    <2> QED
      BY <1>3, <2>1, IdleType, OpRecordIs
  <1>6. InWork' = {NoSubsystem, Inject} /\ NoSubsystem \notin Bit /\ Inject \notin Subsystem /\ Inject \in Bit
    BY <1>4, <1>5, WorkNext, BitAssumption DEF WorkOf, Bit
  <1>7. PICK q : q = plan'
    OBVIOUS
  <1>8. /\ \A b : NoShot(q, b)
        /\ \A b \in Bit : KeepsAll(q, b)
        /\ \A b \in initial : \A k \in OrSlot : k >= Coarse => b \in q.or[k]
        /\ \A b : b \notin initial => NoOr(q, b)
    BY <1>1, <1>7, InitialMasks
  <1>9. \A b \in Subsystem : b \in Bit /\ b # Inject
    BY <1>6 DEF Bit
  <1>10. 0 \in All
    <2>1. Coarse + 1 \in 1..(Coarse + 1)
      BY Sizes
    <2>2. Period \in Nat /\ Period >= Fine /\ Fine > 1 /\ Fine \in Nat
      BY <2>1, Parameters
    <2> QED
      BY <2>2 DEF All
  <1>11. ASSUME NEW b \in Subsystem
         PROVE  /\ b \in initial => FullShape(b)'
                /\ b \notin initial => SilentShape(b)'
    <2>1. CASE b \in initial
      <3>1. share'[b] = All
        BY <1>1, <1>9, <2>1 DEF All
      <3>2. FullMode(pc', q, mode', b)
        BY <1>2, <1>8, <2>1, FirstIs DEF FullMode
      <3> QED
        BY <1>7, <1>8, <1>9, <2>1, <3>1, <3>2 DEF FullShape
    <2>2. CASE b \notin initial
      <3>1. share'[b] = {}
        BY <1>1, <1>9, <2>2
      <3> QED
        BY <1>2, <1>7, <1>8, <2>2, <3>1 DEF SilentShape
    <2> QED
      BY <2>1, <2>2
  <1>12. ASSUME NEW b \in Bit \ InWork'
         PROVE  Resting(b)'
    <2>1. b \in Subsystem
      BY <1>6 DEF Bit
    <2>2. NoShot(plan, b)' /\ due'[b] = 0
      BY <1>2, <1>7, <1>8
    <2>3. NowOK(b)'
      <3>1. \A S : Now(First, 0, mode', b, S)
        BY Begun
      <3> QED
        BY <1>2, <3>1 DEF NowOK
    <2>4. FullShape(b)' \/ SilentShape(b)'
      BY <1>11, <2>1
    <2> QED
      BY <2>2, <2>3, <2>4 DEF Resting
  <1>13. ASSUME NEW b \in fresh'
         PROVE  b \notin InWork' /\ Fresh(b)'
    <2>1. b \in Subsystem /\ b \in Bit
      BY <1>2, <1>9
    <2>2. b \notin InWork'
      BY <1>6, <1>9, <2>1
    <2>3. KeepsAll(plan, b)'
      BY <1>7, <1>8, <2>1
    <2>4. share'[b] = {} => NoOr(plan, b)' /\ b \notin mode'
      <3>1. b \in initial => share'[b] = All
        BY <1>1, <2>1 DEF All
      <3> QED
        BY <1>2, <1>7, <1>8, <1>10, <3>1
    <2> QED
      BY <2>2, <2>3, <2>4 DEF Fresh
  <1>14. StartOK(op[t])'
    <2>1. fresh' = Subsystem /\ (\A b \in Subsystem : FullShape(b)' \/ SilentShape(b)')
      BY <1>2, <1>11
    <2>2. NoShot(plan, Inject)' /\ due'[Inject] = 0
      BY <1>2, <1>6, <1>7, <1>8
    <2>3. share'[Inject] = Share(r[1], r[2], 0)
      <3>1. Inject \notin initial
        BY <1>6
      <3> QED
        BY <1>1, <1>6, <3>1
    <2> QED
      BY <1>4, <1>5, <2>1, <2>2, <2>3 DEF StartOK
  <1>15. MacroOK(op[t])'
    BY <1>4, <1>5, <1>14 DEF MacroOK
  <1>16. Position'
    BY <1>2, PositionFirst DEF Position
  <1>17. \A v \in Team : v = t
    BY DEF OneTeam
  <1>18. \A v \in Team : MacroOK(op[v])'
    BY <1>15, <1>17
  <1> QED
    BY <1>12, <1>13, <1>16, <1>18 DEF Runs

-----------------------------------------------------------------------------
(* What has settled                                                         *)

\* A step of a macro settles nothing, and touches nothing that has settled.
LEMMA SettledKeeps ==
  ASSUME Settled, settled' \subseteq settled,
         \A b \in settled' : b \notin InWork' /\ asked'[b] = asked[b] /\ due'[b] = due[b]
  PROVE  Settled'
  BY DEF Settled

\* Nor is anything settled that the macro goes on with.
LEMMA SettledGoes ==
  ASSUME TypeOK, OneTeam, NEW t \in Team, Settled, NEW o, op' = [op EXCEPT ![t] = o],
         o = Idle \/ (o.kind = op[t].kind /\ o.sub = op[t].sub), UNCHANGED <<settled, asked>>,
         \A b \in Bit \ InWork : due'[b] = due[b]
  PROVE  Settled'
  <1>1. op'[t] = o
    BY DEF TypeOK
  <1>2. InWork' = {NoSubsystem} \/ InWork' = InWork
    BY <1>1, WorkIs, WorkNext, IdleWork DEF WorkOf
  <1>3. \A b \in settled : b \in Bit /\ b # NoSubsystem /\ b \notin InWork
    BY IdleWork DEF TypeOK, Settled
  <1> QED
    BY <1>2, <1>3, SettledKeeps

\* No step of a macro disturbs what has settled.
LEMMA SettledMacro ==
  ASSUME TypeOK, Macros, OneTeam, NEW t \in Team, Settled, Macro(t)
  PROVE  Settled'
  <1>1. op[t] \in OpRecord
    BY DEF TypeOK
  <1>2. CASE WriteWord(t)
    <2>1. /\ UNCHANGED history /\ op'[t].kind = op[t].kind /\ op'[t].sub = op[t].sub
      BY <1>2, WritesFrame
    <2>2. InWork' = InWork
      BY <2>1, WorkIs, WorkNext DEF WorkOf
    <2> QED
      BY <2>1, <2>2 DEF Settled, history
  <1>3. CASE StartMerges(t)
    <2>1. PICK o : o = [op[t] EXCEPT !.step = "set"]
      OBVIOUS
    <2>2. o.kind = op[t].kind /\ o.sub = op[t].sub
      BY <1>1, <2>1, StepIs
    <2>3. op' = [op EXCEPT ![t] = o] /\ UNCHANGED history
      BY <1>3, <2>1 DEF StartMerges
    <2> QED
      BY <2>2, <2>3, SettledGoes DEF history
  <1>4. CASE StartEnds(t) \/ LeaveEnds(t)
    <2>1. op' = [op EXCEPT ![t] = Idle] /\ UNCHANGED history
      BY <1>4 DEF StartEnds, LeaveEnds
    <2> QED
      BY <2>1, SettledGoes DEF history
  <1>5. CASE JoinSets(t)
    <2>1. PICK new, o : new = JoinPlan(op[t], TRUE) /\ o = Writing(op[t], "set", new)
      OBVIOUS
    <2>2. o.kind = op[t].kind /\ o.sub = op[t].sub
      <3>1. o = [op[t] EXCEPT !.step = "set", !.target = new, !.at = 0]
        BY <2>1 DEF Writing
      <3> QED
        BY <1>1, <3>1, OpRecordIs
    <2>3. op' = [op EXCEPT ![t] = o] /\ UNCHANGED history
      BY <1>5, <2>1 DEF JoinSets
    <2> QED
      BY <2>2, <2>3, SettledGoes DEF history
  <1>6. CASE JoinEnds(t)
    <2>1. op' = [op EXCEPT ![t] = Idle] /\ UNCHANGED <<asked, due, settled>>
      BY <1>6 DEF JoinEnds
    <2> QED
      BY <2>1, SettledGoes
  <1>7. CASE ShootArms(t)
    <2>1. PICK new, o : new = ArmedPlan(op[t]) /\ o = Writing(op[t], "set", new)
      OBVIOUS
    <2>2. o.kind = op[t].kind /\ o.sub = op[t].sub
      <3>1. o = [op[t] EXCEPT !.step = "set", !.target = new, !.at = 0]
        BY <2>1 DEF Writing
      <3> QED
        BY <1>1, <3>1, OpRecordIs
    <2>3. op' = [op EXCEPT ![t] = o] /\ UNCHANGED history
      BY <1>7, <2>1 DEF ShootArms
    <2> QED
      BY <2>2, <2>3, SettledGoes DEF history
  <1>8. CASE ShootWaits(t)
    <2>1. PICK o : o = [op[t] EXCEPT !.step = "wait", !.waited = 0]
      OBVIOUS
    <2>2. o.kind = op[t].kind /\ o.sub = op[t].sub
      BY <1>1, <2>1, OpRecordIs
    <2>3. op' = [op EXCEPT ![t] = o] /\ UNCHANGED history
      BY <1>8, <2>1 DEF ShootWaits
    <2> QED
      BY <2>2, <2>3, SettledGoes DEF history
  <1>9. CASE ChunkEnds(t)
    <2>1. PICK v, w, u, o : /\ v = [op[t] EXCEPT !.remaining = @ - ChunkOf(op[t])[1]]
                            /\ w = ChunkPlan(v, NoShots) /\ u = Writing(v, "prepare", w)
                            /\ o = IF v.remaining = 0 THEN Idle ELSE u
      OBVIOUS
    <2>2. u.kind = op[t].kind /\ u.sub = op[t].sub
      <3>1. u = [v EXCEPT !.step = "prepare", !.target = w, !.at = 0]
        BY <2>1 DEF Writing
      <3>2. op[t] = [kind |-> op[t].kind, step |-> op[t].step, sub |-> op[t].sub, m |-> op[t].m, n |-> op[t].n,
                     offset |-> op[t].offset, keep |-> op[t].keep, or |-> op[t].or,
                     remaining |-> op[t].remaining, at |-> op[t].at, target |-> op[t].target,
                     waited |-> op[t].waited]
        BY <1>1, OpRecordIs
      <3> QED
        BY <2>1, <3>1, <3>2
    <2>3. op' = [op EXCEPT ![t] = o] /\ UNCHANGED history
      BY <1>9, <2>1 DEF ChunkEnds
    <2>4. o = Idle \/ (o.kind = op[t].kind /\ o.sub = op[t].sub)
      BY <2>1, <2>2
    <2> QED
      BY <2>3, <2>4, SettledGoes DEF history
  <1>10. CASE ShootTimesOut(t)
    <2>1. op' = [op EXCEPT ![t] = Idle] /\ UNCHANGED <<asked, settled>> /\ due' = [due EXCEPT ![op[t].sub] = 0]
      BY <1>10 DEF ShootTimesOut
    <2>2. op[t].sub \in InWork
      BY DEF InWork
    <2>3. \A b \in Bit \ InWork : due'[b] = due[b]
      BY <2>1, <2>2 DEF TypeOK
    <2> QED
      BY <2>1, <2>3, SettledGoes
  <1> QED
    BY <1>2, <1>3, <1>4, <1>5, <1>6, <1>7, <1>8, <1>9, <1>10 DEF Macro

-----------------------------------------------------------------------------
(* The invariant is kept                                                    *)

\* A step of a macro leaves the CFO as it is.
LEMMA MacroFrame ==
  ASSUME NEW t \in Team, Macro(t)
  PROVE  running' = running
  BY DEF Macro, WriteWord, StartMerges, StartEnds, JoinSets, JoinEnds, LeaveEnds, ShootArms, ShootWaits,
         ChunkEnds, ShootTimesOut, hardware

\* No step of a macro breaks what holds while the program runs.
LEMMA MacroRuns ==
  ASSUME TypeOK, Macros, OneTeam, Settled, NEW t \in Team, running, Runs, Macro(t)
  PROVE  Runs'
  <1>1. CASE WriteWord(t)
    BY <1>1, RunsWrites
  <1>2. CASE StartMerges(t)
    BY <1>2, StartMergesRuns
  <1>3. CASE StartEnds(t)
    BY <1>3, StartEndsRuns
  <1>4. CASE JoinSets(t)
    BY <1>4, JoinSetsRuns
  <1>5. CASE JoinEnds(t)
    BY <1>5, JoinEndsRuns
  <1>6. CASE LeaveEnds(t)
    BY <1>6, LeaveEndsRuns
  <1>7. CASE ShootArms(t)
    BY <1>7, ShootArmsRuns
  <1>8. CASE ShootWaits(t)
    BY <1>8, ShootWaitsRuns
  <1>9. CASE ChunkEnds(t)
    BY <1>9, ChunkEndsRuns
  <1>10. ~ShootTimesOut(t)
    BY DEF ShootTimesOut
  <1> QED
    BY <1>1, <1>2, <1>3, <1>4, <1>5, <1>6, <1>7, <1>8, <1>9, <1>10 DEF Macro

\* Nor does a macro that begins.
LEMMA OperatorRuns ==
  ASSUME TypeOK, Macros, OneTeam, Careful, Settled, NEW t \in Team, running => Runs, Operator(t)
  PROVE  Runs' /\ Settled'
  <1>1. CASE Start(t)
    <2>1. settled' = {}
      BY <1>1 DEF Start
    <2>2. Settled'
      BY <2>1 DEF Settled
    <2> QED
      BY <1>1, <2>2, StartRuns
  <1>2. CASE JoinStarts(t)
    <2>1. running
      BY <1>2 DEF JoinStarts, Begins
    <2> QED
      BY <1>2, <2>1, JoinStartsRuns
  <1>3. CASE LeaveStarts(t)
    <2>1. running
      BY <1>3 DEF LeaveStarts, Begins
    <2> QED
      BY <1>3, <2>1, LeaveStartsRuns
  <1>4. CASE ShootStarts(t)
    <2>1. running
      BY <1>4 DEF ShootStarts, Begins
    <2> QED
      BY <1>4, <2>1, ShootStartsRuns
  <1> QED
    BY <1>1, <1>2, <1>3, <1>4 DEF Operator

\* No step breaks the invariant, if one team at a time uses the macros that the code supports.
LEMMA RunPlanKept ==
  ASSUME Careful, OneTeam, RunPlanInv, Next
  PROVE  RunPlanInv'
  <1>1. TypeOK /\ Macros /\ Settled /\ (running => Runs)
    BY DEF RunPlanInv
  <1>2. TypeOK' /\ Macros'
    BY <1>1, TypeKept
  <1>3. CASE CFO
    <2>1. running
      BY <1>1, <1>3, CFOFrame
    <2>2. Runs'
      BY <1>1, <1>3, <2>1, RunsTurn
    <2>3. Settled'
      BY <1>1, <1>3, SettledTurns
    <2> QED
      BY <1>2, <2>2, <2>3 DEF RunPlanInv
  <1>4. CASE Stop
    <2>1. ~running' /\ UNCHANGED <<op, share, asked, due, settled, fresh>>
      BY <1>4 DEF Stop
    <2>2. InWork' = InWork
      BY <2>1 DEF InWork
    <2>3. Settled'
      BY <1>1, <2>1, <2>2 DEF Settled
    <2> QED
      BY <1>2, <2>1, <2>3 DEF RunPlanInv
  <1>5. ASSUME NEW t \in Team, Macro(t)
        PROVE  RunPlanInv'
    <2>1. running' = running
      BY <1>5, MacroFrame
    <2>2. running => Runs'
      BY <1>1, <1>5, MacroRuns
    <2>3. Settled'
      BY <1>1, <1>5, SettledMacro
    <2> QED
      BY <1>2, <2>1, <2>2, <2>3 DEF RunPlanInv
  <1>6. ASSUME NEW t \in Team, Operator(t)
        PROVE  RunPlanInv'
    <2>1. Runs' /\ Settled'
      BY <1>1, <1>6, OperatorRuns
    <2> QED
      BY <1>2, <2>1 DEF RunPlanInv
  <1> QED
    BY <1>3, <1>4, <1>5, <1>6 DEF Next

\* Nothing changes in a step that stutters.
LEMMA RunPlanStutters ==
  ASSUME RunPlanInv, UNCHANGED vars
  PROVE  RunPlanInv'
  <1>1. TypeOK /\ Macros /\ Settled /\ (running => Runs)
    BY DEF RunPlanInv
  <1>2. /\ running' = running /\ pc' = pc /\ left' = left /\ mode' = mode /\ plan' = plan /\ op' = op
        /\ number' = number /\ share' = share /\ asked' = asked /\ due' = due /\ settled' = settled /\ fresh' = fresh
    BY DEF vars, hardware, history
  <1>3. TypeOK' /\ Macros'
    BY <1>1, Stuttering
  <1>4. InWork' = InWork
    BY <1>2 DEF InWork
  <1>5. Settled'
    BY <1>1, <1>2, <1>4 DEF Settled
  <1>6. ASSUME Runs
        PROVE  Runs'
    <2>1. \A b : Untouched(b)
      BY <1>2, QuietStep DEF hardware
    <2>2. \A b \in Bit \ InWork' : Resting(b)'
      BY <1>4, <1>6, <2>1, UntouchedRests DEF Runs
    <2>3. \A b \in fresh' : b \notin InWork' /\ Fresh(b)'
      BY <1>2, <1>4, <1>6, <2>1, UntouchedFull DEF Runs
    <2>4. Position'
      BY <1>2, <1>6 DEF Runs, Position
    <2>5. ASSUME NEW t \in Team
          PROVE  MacroOK(op[t])'
      <3>1. MacroOK(op[t])
        BY <1>6 DEF Runs
      <3>2. StartOK(op[t]) => StartOK(op[t])'
        <4>1. \A b : FullShape(b) \/ SilentShape(b) => FullShape(b)' \/ SilentShape(b)'
          BY <2>1, UntouchedFull
        <4>2. NoShot(plan, Inject)' <=> NoShot(plan, Inject)
          BY <1>2
        <4>3. Copied(op[t])' <=> Copied(op[t])
          BY <1>2 DEF Copied
        <4> QED
          BY <1>2, <4>1, <4>2, <4>3 DEF StartOK
      <3>3. Merges(op[t]) => Merges(op[t])'
        BY <1>2 DEF Merges, Copied
      <3>4. JoinOK(op[t]) => JoinOK(op[t])'
        BY <1>2 DEF JoinOK, NowOK
      <3>5. LeaveOK(op[t]) => LeaveOK(op[t])'
        BY <1>2 DEF LeaveOK, NowOK, Fading
      <3>6. ShootOK(op[t]) => ShootOK(op[t])'
        <4>1. Pending(op[t])' = Pending(op[t])
          BY <1>2 DEF Pending
        <4>2. FineShot(op[t]) => FineShot(op[t])'
          BY <1>2, <4>1 DEF FineShot
        <4>3. \A l : CoarseShot(op[t], l) => CoarseShot(op[t], l)'
          BY <1>2, <4>1 DEF CoarseShot
        <4>4. PICK l : l = LevelOf(ChunkOf(op[t])[2])
          OBVIOUS
        <4>5. LevelOf(ChunkOf(op'[t])[2]) = l /\ op' = op
          BY <1>2, <4>4
        <4>6. CoarseShot(op[t], LevelOf(ChunkOf(op[t])[2])) => CoarseShot(op[t], LevelOf(ChunkOf(op[t])[2]))'
          BY <1>2, <4>3
        <4> QED
          BY <1>2, <4>2, <4>6 DEF ShootOK
      <3> QED
        BY <1>2, <3>1, <3>2, <3>3, <3>4, <3>5, <3>6 DEF MacroOK
    <2> QED
      BY <2>2, <2>3, <2>4, <2>5 DEF Runs
  <1> QED
    BY <1>1, <1>2, <1>3, <1>5, <1>6 DEF RunPlanInv

\* The shared run plan, of one team at a time that avoids what the code does not support, keeps the
\* invariant: at every operation of the program the words, the mode register and the macro under way
\* agree with what the teams have asked for.
THEOREM SharedRunPlanInvariant ==
  ASSUME Careful, OneTeam
  PROVE  Spec => []RunPlanInv
  <1>1. Init => RunPlanInv
    BY InitTypes DEF RunPlanInv, Settled, Init
  <1>2. RunPlanInv /\ [Next]_vars => RunPlanInv'
    BY RunPlanKept, RunPlanStutters
  <1> QED
    BY <1>1, <1>2, PTL DEF Spec

-----------------------------------------------------------------------------
(* What the invariant says of an event                                      *)

\* Where the program is when an event begins.
LEMMA EventIs ==
  ASSUME TypeOK, Position, pc[1] = "event"
  PROVE  /\ Slotted(pc) /\ Decided(pc) /\ ~Closing(pc) /\ SlotOf(pc) = number % Fine
         /\ number \in Nat /\ number < Period /\ \A l \in 1..Coarse : Under(pc, l)
         /\ \A l \in 1..Coarse : Passed(pc, number, l) < NValues[l + 1] /\ Passed(pc, number, l) \in Nat
  <1>1. Slotted(pc) /\ Decided(pc) /\ ~Closing(pc) /\ \A l \in 1..Coarse : Under(pc, l)
    BY DEF Slotted, Decided, Closing, Under
  <1>2. number \in Nat /\ number < Period /\ SlotOf(pc) = number % Fine
    BY <1>1 DEF TypeOK, Position, PositionOf, Located
  <1>3. ASSUME NEW l \in 1..Coarse
        PROVE  Passed(pc, number, l) < NValues[l + 1] /\ Passed(pc, number, l) \in Nat
    <2>1. PICK n, d : n = NValues[l + 1] /\ d = number % n
      OBVIOUS
    <2>2. n \in Nat /\ n > 0
      BY <2>1, Loops
    <2>3. d \in 0..(n - 1)
      BY <1>2, <2>1, <2>2, Division
    <2>4. Passed(pc, number, l) = d
      BY <1>1, <2>1, <2>2, <2>3 DEF Passed, Latest
    <2> QED
      BY <2>1, <2>2, <2>3, <2>4
  <1> QED
    BY <1>1, <1>2, <1>3

\* A bit that has settled is on in an event if and only if the event is in its share.
LEMMA SharesAtEvent ==
  ASSUME RunPlanInv
  PROVE  SharesHold
  <1>1. SUFFICES ASSUME AtEvent, NEW b \in settled
                 PROVE  b \in mode <=> number \in share[b]
    BY DEF SharesHold
  <1>2. TypeOK /\ Settled /\ Runs /\ pc[1] = "event"
    BY <1>1 DEF RunPlanInv, AtEvent
  <1>3. b \in Bit /\ b \notin InWork /\ asked[b] = {}
    BY <1>2 DEF TypeOK, Settled
  <1>4. Resting(b) /\ NowOK(b)
    BY <1>1, <1>2, <1>3 DEF Runs, Resting, Steady
  <1>5. /\ Slotted(pc) /\ Decided(pc) /\ SlotOf(pc) = number % Fine /\ \A l \in 1..Coarse : Under(pc, l)
    BY <1>2, EventIs DEF Runs
  <1>6. b \in mode => number \in share[b]
    BY <1>3, <1>4, <1>5 DEF NowOK, Now
  <1>7. ASSUME number \in share[b]
        PROVE  b \in mode
    <2>1. CASE FullShape(b)
      BY <1>5, <2>1 DEF FullShape, FullMode
    <2>2. CASE SilentShape(b)
      BY <1>7, <2>2 DEF SilentShape
    <2>3. CASE FineShape(b)
      <3>1. PICK D \in SUBSET (0..(Fine - 1)) : FineIn(b, D)
        BY <2>3 DEF FineShape
      <3>2. number % Fine \in D
        BY <1>7, <3>1 DEF FineIn, OfSlots
      <3> QED
        BY <1>1, <1>5, <3>1, <3>2 DEF FineIn, FineExact
    <2>4. CASE CoarseShape(b)
      <3>1. PICK l \in 1..Coarse : CoarseIn(b, l)
        BY <2>4 DEF CoarseShape
      <3>2. number % NValues[l + 1] = 0
        BY <1>7, <3>1 DEF CoarseIn, OfLevel
      <3> QED
        BY <1>1, <1>5, <3>1, <3>2 DEF CoarseIn, CoarseExact
    <2> QED
      BY <1>4, <2>1, <2>2, <2>3, <2>4 DEF Resting
  <1> QED
    BY <1>6, <1>7

\* A bit that shoots is on in an event only when the event still has to come.
LEMMA ShotAtEvent ==
  ASSUME TypeOK, Macros, Runs, pc[1] = "event", NEW t \in Team, op[t].kind = "shoot", op[t].sub \in mode
  PROVE  due[op[t].sub] > 0
  <1>0. PICK o, s, c, k : o = op[t] /\ s = op[t].sub /\ c = ChunkOf(op[t]) /\ k = c[2]
    OBVIOUS
  <1>1. o \in OpRecord /\ IsMacro(o) /\ ShootOK(op[t])
    BY <1>0 DEF TypeOK, Macros, Runs, MacroOK
  <1>2. o.step \in {"set", "wait"}
    BY <1>0, <1>1 DEF IsMacro, ShootOK
  <1>3. /\ k < 0 => FineShot(op[t])
        /\ k >= 0 => CoarseShot(op[t], LevelOf(k))
    BY <1>0, <1>1, <1>2 DEF ShootOK
  <1>4. /\ c[1] \in Nat /\ c[1] <= o.remaining /\ o.remaining \in Nat
        /\ \/ k \in 0..(Coarse - 1) /\ c[1] = NValues[LevelOf(k) + 1]
           \/ k = -1
    BY <1>0, <1>1, ChunkOfIs, OpRecordIs
  <1>5. CASE k = -1
    <2>1. FineShot(op[t])
      BY <1>3, <1>5
    <2>2. Cardinality(Pending(op[t])) \in Nat
      BY <2>1, FS_CardinalityType DEF FineShot
    <2>3. due[s] = (o.remaining - c[1]) + Cardinality(Pending(op[t])) + 1
      BY <1>0, <2>1 DEF FineShot
    <2> QED
      BY <1>0, <1>4, <2>2, <2>3
  <1>6. CASE k # -1
    <2>1. PICK l \in 1..Coarse : l = LevelOf(k)
      BY <1>4, <1>6, Sizes DEF LevelOf
    <2>2. CoarseShot(op[t], l) /\ c[1] = NValues[l + 1]
      BY <1>3, <1>4, <1>6, <2>1, Sizes
    <2>3. PICK n, e : n = NValues[l + 1] /\ e = Passed(pc, number, l)
      OBVIOUS
    <2>4. due[s] = (o.remaining - n) + (n - e)
      BY <1>0, <2>2, <2>3 DEF CoarseShot
    <2>5. e < n /\ e \in Nat
      BY <2>3, EventIs DEF Runs
    <2> QED
      BY <1>0, <1>4, <2>2, <2>3, <2>4, <2>5
  <1> QED
    BY <1>5, <1>6

\* A subsystem is on only in an event that its macros have asked for.
LEMMA AskedAtEvent ==
  ASSUME RunPlanInv
  PROVE  OnlyWhatWasAsked
  <1>1. SUFFICES ASSUME AtEvent, NEW s \in mode \cap Subsystem
                 PROVE  number \in share[s] \cup asked[s] \/ due[s] > 0
    BY DEF OnlyWhatWasAsked
  <1>2. TypeOK /\ Macros /\ Runs /\ pc[1] = "event" /\ Slotted(pc) /\ s \in Bit
    BY <1>1 DEF RunPlanInv, AtEvent, Slotted, Bit
  <1>3. CASE s \notin InWork
    <2>1. NowOK(s)
      BY <1>2, <1>3 DEF Runs, Resting, Steady
    <2> QED
      BY <1>2, <2>1 DEF NowOK, Now
  <1>4. CASE s \in InWork
    <2>1. PICK t \in Team : s = op[t].sub
      BY <1>4, BitAssumption DEF InWork
    <2>2. IsMacro(op[t]) /\ MacroOK(op[t]) /\ op[t].kind \in Kind
      BY <1>2, OpRecordIs DEF TypeOK, Macros, Runs
    <2>3. op[t].kind \in {"join", "leave", "shoot"}
      BY <2>1, <2>2, KindIs, BitAssumption DEF IsMacro, Idle
    <2>4. CASE op[t].kind = "shoot"
      BY <1>2, <2>1, <2>4, ShotAtEvent
    <2>5. CASE op[t].kind \in {"join", "leave"}
      <3>1. NowOK(s)
        BY <2>1, <2>2, <2>5 DEF MacroOK, JoinOK, LeaveOK
      <3> QED
        BY <1>2, <3>1 DEF NowOK, Now
    <2> QED
      BY <2>3, <2>4, <2>5
  <1> QED
    BY <1>3, <1>4

\* An event has the bit of a settled subsystem exactly when it belongs to the duty cycle that the
\* subsystem joined with, for all loops, duty cycles and offsets.
THEOREM SharesAreHeld ==
  ASSUME Careful, OneTeam
  PROVE  Spec => []SharesHold
  <1>1. RunPlanInv => SharesHold
    BY SharesAtEvent
  <1> QED
    BY <1>1, SharedRunPlanInvariant, PTL

\* A subsystem that joins, leaves or shoots is never on in an event that nobody asked for.
THEOREM NobodyElseIsOn ==
  ASSUME Careful, OneTeam
  PROVE  Spec => []OnlyWhatWasAsked
  <1>1. RunPlanInv => OnlyWhatWasAsked
    BY AskedAtEvent
  <1> QED
    BY <1>1, SharedRunPlanInvariant, PTL

\* No event of a single shot is missing when it has settled.
THEOREM ShotsAreComplete ==
  ASSUME Careful, OneTeam
  PROVE  Spec => []ShotsComplete
  <1>1. RunPlanInv => ShotsComplete
    BY DEF RunPlanInv, Settled, ShotsComplete
  <1> QED
    BY <1>1, SharedRunPlanInvariant, PTL
=============================================================================
