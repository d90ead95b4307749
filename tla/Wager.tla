------------------------------- MODULE Wager -------------------------------
(***************************************************************************)
(* The whole program: Phase 1 workers and Phase 2 reviewers over the same  *)
(* Postgres tables, while the days pass.                                   *)
(*                                                                         *)
(* The properties below hold under every interleaving, with overlapping    *)
(* clicks, crashes and concurrent checks.  Those that need a calmer world  *)
(* are in Calm; what the documentation says and the code does not do is    *)
(* in Claims.                                                              *)
(***************************************************************************)
EXTENDS Phase1, Phase2

vars == <<tables, phase1Vars, phase2Vars>>

Init == StoreInit /\ Phase1Init /\ Phase2Init

\* CURRENT_DATE reaches the review date of a bet.
DayPasses(b) ==
  /\ bets[b].review = "future"
  /\ bets' = [bets EXCEPT ![b].review = "arrived"]
  /\ UNCHANGED <<graph, decisions, outcomes, grading, phase1Vars, phase2Vars>>

Next ==
  \/ Phase1Next /\ UNCHANGED phase2Vars
  \/ Phase2Next /\ UNCHANGED phase1Vars
  \/ \E b \in Bet : DayPasses(b)

Spec == Init /\ [][Next]_vars

-----------------------------------------------------------------------------
TypeOK == StoreTypeOK /\ Phase1TypeOK /\ Phase2TypeOK

\* The option indices the PM has asked for on a bet, by button or by CLI.
Asked(b) == {click[p] : p \in {q \in Worker : on[q] = b /\ via[q] # "run"}}

\* A DECISION node records an option that the PM asked for and the bet offers:
\* no path through confirm_decision, a checkpoint and a resumed write_decision
\* turns the LLM's proposal, or an index out of range, into a decision.
HumanAttested ==
  \A b \in Bet : \A d \in decisions[b] :
    d.option \in Asked(b) /\ d.option < graph[b].options

\* A status from CONFIRMED on is backed by a DECISION node, and RESOLVED by an
\* outcomes row: whatever workers and reviewers overwrite each other's status,
\* it never claims more than the graph holds.
StatusIsBacked ==
  \A b \in Bet :
    /\ bets[b].status \in {"CONFIRMED", "SCHEDULED", "RESOLVED"}
         => decisions[b] # {}
    /\ bets[b].status = "RESOLVED" => outcomes[b] # "none"

\* The outcomes row, the grading edges and the status of the hypothesis agree:
\* two reviewers of one bet leave one grade behind, never an edge of the loser.
OneGrade ==
  \A b \in Bet :
    /\ grading[b].supports = IF outcomes[b] = "hit" THEN 1 ELSE 0
    /\ grading[b].contradicts = IF outcomes[b] = "miss" THEN 1 ELSE 0
    /\ (graph[b].hypothesis = "RESOLVED") <=> (outcomes[b] # "none")

\* Only a bet the PM decided on is ever graded.
GradedAfterDecision ==
  \A b \in Bet : outcomes[b] # "none" => decisions[b] # {}

\* Postgres first: an issue or an event exists only for a bet whose DECISION is
\* committed, and a grade is reported only for a bet whose outcome is committed,
\* although each of them is made by a call outside the transaction.
PostgresFirst ==
  \A b \in Bet :
    /\ issues[b] \cup events[b] # {} => decisions[b] # {}
    /\ reports[b] # {} => outcomes[b] # "none"

\* What the bets row says of the outside world is true of it.
RecordsAreReal ==
  \A b \in Bet :
    /\ bets[b].issueUrl => issues[b] # {}
    /\ bets[b].eventId => events[b] # {}
    /\ bets[b].status = "PENDING_CONFIRMATION"
         => b \in posted \/ "slack_confirm_failed" \in bets[b].flags

\* A review never stumbles over a half-built bet: whatever is due when the
\* snapshot is taken still has its hypothesis and its review date when the
\* review comes to it, so load_bet and report_outcome do not raise.
ReviewFindsBet ==
  \A r \in Reviewer : \A b \in queue[r] \cup ({reviewing[r]} \cap Bet) :
    graph[b].hypothesis # "absent" /\ bets[b].review # "null"

\* run-sync lets its caller choose the bet id: an id that is used again never
\* extracts a second time into the same bet, whatever the first run is doing.
OneFirstRun ==
  \A p, q \in Worker :
    (on[p] \in Bet /\ on[q] = on[p] /\ via[p] = "run" /\ via[q] = "run")
      => p = q

\* A grade is never taken back or replaced, nor a DECISION: rerunning a check,
\* or a review that another one overtook, changes neither.
GradeAndDecisionsAreFinal ==
  [][\A b \in Bet : /\ outcomes[b] # "none" => outcomes'[b] = outcomes[b]
                    /\ decisions[b] \subseteq decisions'[b]]_vars
=============================================================================
