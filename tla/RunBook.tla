------------------------------- MODULE RunBook -------------------------------
(***************************************************************************)
(* What the run database is for, seen from outside: a book of runs.  A run *)
(* is opened under a number greater than every number used before, it      *)
(* belongs to the client that opened it, and only that client, while it    *)
(* has not opened another, writes transitions to its page.  A page starts  *)
(* with START and goes on as a run does (getTransitionTypeInfo in          *)
(* DBRunInfo_runInfo.cc tells which change of state every transition is).  *)
(***************************************************************************)
EXTENDS Integers, Sequences

CONSTANTS
  Client,     \* those who open runs
  MaxNumber   \* bound: numbers of runs

Transition == {"START", "PAUSE", "RESUME", "STOP", "STOP_COMPLETE", "HALT", "HALT_COMPLETE", "ERROR"}

VARIABLES
  owner,  \* number of a run -> the client that opened it
  page    \* number of a run -> its transitions, oldest first

Number == DOMAIN owner

Init == owner = <<>> /\ page = <<>>

\* Transitions that may follow t on a page.
MayFollow(t) ==
  {"ERROR" : x \in {t} \ {"ERROR"}} \cup
  CASE t \in {"START", "RESUME"} -> {"PAUSE", "STOP", "HALT"}
    [] t = "PAUSE"               -> {"RESUME", "STOP", "HALT"}
    [] t = "STOP"                -> {"STOP_COMPLETE"}
    [] t = "HALT"                -> {"HALT_COMPLETE"}
    [] OTHER                     -> {}

Fits(t, p) == IF p = <<>> THEN t = "START" ELSE t \in MayFollow(p[Len(p)])

Open(c) ==
  \E n \in 1..MaxNumber :
    /\ \A k \in Number : k < n
    /\ owner' = [k \in Number \cup {n} |-> IF k = n THEN c ELSE owner[k]]
    /\ page' = [k \in Number \cup {n} |-> IF k = n THEN <<>> ELSE page[k]]

Write(c) ==
  \E n \in Number, t \in Transition :
    /\ owner[n] = c
    /\ \A k \in Number : owner[k] = c => k <= n
    /\ Fits(t, page[n])
    /\ page' = [page EXCEPT ![n] = Append(@, t)]
    /\ UNCHANGED owner

Next == \E c \in Client : Open(c) \/ Write(c)

vars == <<owner, page>>

Spec == Init /\ [][Next]_vars
=============================================================================
