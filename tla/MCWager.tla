------------------------------ MODULE MCWager ------------------------------
(***************************************************************************)
(* Wager for TLC: interchangeable workers and reviewers, and, beside the   *)
(* empty database, the states in which every bet has been put to the PM by *)
(* a first run that is over, so that all the workers are left for resumes. *)
(***************************************************************************)
EXTENDS Calm, Claims, TLC

Symmetry == Permutations(Worker) \cup Permutations(Reviewer)

PendingInit ==
  /\ \E d \in {"future", "arrived"} :
       bets = [b \in Bet |-> [status |-> "PENDING_CONFIRMATION", review |-> d,
                              flags |-> {}, issueUrl |-> FALSE,
                              eventId |-> FALSE]]
  /\ graph = [b \in Bet |-> [facts |-> TRUE, hypothesis |-> "ACTIVE",
                             options |-> MaxOptions]]
  /\ decisions = [b \in Bet |-> {}]
  /\ outcomes = [b \in Bet |-> "none"]
  /\ grading = [b \in Bet |-> [supports |-> 0, contradicts |-> 0]]
  /\ pc = [p \in Worker |-> "idle"]
  /\ on = [p \in Worker |-> NoBet]
  /\ via = [p \in Worker |-> "none"]
  /\ click = [p \in Worker |-> None]
  /\ chosen = [p \in Worker |-> None]
  /\ ckpt = [b \in Bet |-> [next |-> "confirm_decision", chosen |-> None]]
  /\ posted = Bet
  /\ issues = [b \in Bet |-> {}]
  /\ events = [b \in Bet |-> {}]
  /\ Phase2Init

PendingSpec == PendingInit /\ [][Next]_vars

\* Bets are started by POST /phase1/run only, which looks for a pending bet.
RequestsNext ==
  Next /\ \A p \in Worker : pc[p] = "idle" => pc'[p] # "docs_intake"

RequestsSpec == Init /\ [][RequestsNext]_vars
=============================================================================
