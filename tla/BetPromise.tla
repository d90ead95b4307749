----------------------------- MODULE BetPromise -----------------------------
(***************************************************************************)
(* What the program promises about one bet, whatever happens around it:    *)
(* the PM asks for options, at most one of those asked for becomes the     *)
(* decision, and a decided bet gets at most one grade, which stays.        *)
(* Messages, checkpoints, crashes, retries and statuses do not show.       *)
(***************************************************************************)
EXTENDS Naturals

CONSTANTS Bet, Option, Grade,
          NoOption, NoGrade     \* not decided yet, not graded yet

VARIABLES asked, decision, grade

promiseVars == <<asked, decision, grade>>

Init ==
  /\ asked = [b \in Bet |-> {}]
  /\ decision = [b \in Bet |-> NoOption]
  /\ grade = [b \in Bet |-> NoGrade]

Ask(b, o) ==
  /\ asked' = [asked EXCEPT ![b] = @ \cup {o}]
  /\ UNCHANGED <<decision, grade>>

Decide(b, o) ==
  /\ decision[b] = NoOption /\ o \in asked[b]
  /\ decision' = [decision EXCEPT ![b] = o]
  /\ UNCHANGED <<asked, grade>>

GiveGrade(b, g) ==
  /\ decision[b] # NoOption /\ grade[b] = NoGrade
  /\ grade' = [grade EXCEPT ![b] = g]
  /\ UNCHANGED <<asked, decision>>

Next ==
  \E b \in Bet :
    \/ \E o \in Option : Ask(b, o) \/ Decide(b, o)
    \/ \E g \in Grade : GiveGrade(b, g)

Spec == Init /\ [][Next]_promiseVars
=============================================================================
