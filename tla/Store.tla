------------------------------- MODULE Store -------------------------------
(***************************************************************************)
(* The Postgres tables of pm_agent (graph/store.py and 0001_init.sql) and  *)
(* the writes the pipelines make to them.                                  *)
(*                                                                         *)
(* get_conn opens one READ COMMITTED transaction, commits it on a clean    *)
(* exit and rolls it back on an exception.  A transaction is modelled as   *)
(* the step of its commit, where all its writes appear together; a         *)
(* transaction that first SELECTs and then acts on what it saw has the     *)
(* SELECT as a step of its own, so that another transaction may commit in  *)
(* between.                                                                *)
(*                                                                         *)
(* Text columns are abstracted: a flag is its kind, a review date is its   *)
(* position relative to CURRENT_DATE, the lift that PostHog measured is    *)
(* whether it lies within the tolerance of the prediction.                 *)
(***************************************************************************)
EXTENDS Integers, FiniteSets

CONSTANTS Bet,          \* bet ids
          Worker,       \* invocations of the Phase 1 graph, each used once
          MaxOptions,   \* most options one bet offers
          Flaky,        \* the external services that may fail
          Crashes       \* may a process die between two steps

\* The modules of integrations/, and the LLM gateway.
Service == {"gdocs", "llm", "slack", "github", "gcal", "posthog"}

ASSUME MaxOptionsAssumption == MaxOptions \in Nat
ASSUME FailureAssumption == Flaky \subseteq Service /\ Crashes \in BOOLEAN

VARIABLES bets,         \* table bets
          graph,        \* graph_nodes of the reasoning: FACT, HYPOTHESIS, OPTION
          decisions,    \* DECISION nodes with their incoming leads_to edge
          outcomes,     \* table outcomes (primary key bet_id)
          grading       \* supports / contradicts edges into the hypothesis

tables == <<bets, graph, decisions, outcomes, grading>>

None == -1                        \* the Python None, where an index may stand
Index == 0 .. MaxOptions          \* option indices; MaxOptions is out of range

\* The CHECK constraint of bets.status, with "absent" for "no such row".  The
\* schema also admits FLAGGED, which nothing ever writes.
Status == {"absent", "EXTRACTING", "PENDING_CONFIRMATION", "CONFIRMED",
           "SCHEDULED", "RESOLVED"}

\* bets.review_date against CURRENT_DATE.
ReviewDate == {"null", "future", "arrived"}

FlagKind == {"extract_facts_empty", "slack_confirm_failed",
             "slack_resume_failed", "github_write_failed",
             "calendar_write_failed", "posthog_failed"}

Grade == {"hit", "miss"}

BetRow == [status: Status, review: ReviewDate, flags: SUBSET FlagKind,
           issueUrl: BOOLEAN, eventId: BOOLEAN]

Reasoning == [facts: BOOLEAN, hypothesis: {"absent", "ACTIVE", "RESOLVED"},
              options: 0 .. MaxOptions]

Decision == [by: Worker, option: Index]

Edges == [supports: Nat, contradicts: Nat]

StoreTypeOK ==
  /\ bets \in [Bet -> BetRow]
  /\ graph \in [Bet -> Reasoning]
  /\ decisions \in [Bet -> SUBSET Decision]
  /\ outcomes \in [Bet -> Grade \cup {"none"}]
  /\ grading \in [Bet -> Edges]

StoreInit ==
  /\ bets = [b \in Bet |-> [status |-> "absent", review |-> "null",
                            flags |-> {}, issueUrl |-> FALSE,
                            eventId |-> FALSE]]
  /\ graph = [b \in Bet |-> [facts |-> FALSE, hypothesis |-> "absent",
                             options |-> 0]]
  /\ decisions = [b \in Bet |-> {}]
  /\ outcomes = [b \in Bet |-> "none"]
  /\ grading = [b \in Bet |-> [supports |-> 0, contradicts |-> 0]]

-----------------------------------------------------------------------------
(* update_bet_status and append_flag as functions from a bets table to the *)
(* next one, so that a transaction can make several updates of one row.    *)
(* update_bet_status looks at no earlier status: any overwrite goes.       *)

UpdateBetStatus(table, b, status) == [table EXCEPT ![b].status = status]

AppendFlag(table, b, flag) == [table EXCEPT ![b].flags = @ \cup {flag}]

-----------------------------------------------------------------------------
(* Whole transactions.                                                     *)

\* Mutant: inserts a status the CHECK constraint does not know.
StoreCreateBet_UnknownStatus(b) ==
  /\ bets[b].status = "absent"
  /\ bets' = UpdateBetStatus(bets, b, "NEW")
  /\ UNCHANGED <<graph, decisions, outcomes, grading>>

\* Mutant: bets without its primary key (ON CONFLICT DO UPDATE).
StoreCreateBet_NoKey(b) ==
  /\ bets' = UpdateBetStatus(bets, b, "EXTRACTING")
  /\ UNCHANGED <<graph, decisions, outcomes, grading>>

\* create_bet: the primary key refuses a second row with the same id.
StoreCreateBet(b) ==
  /\ bets[b].status = "absent"
  /\ bets' = UpdateBetStatus(bets, b, "EXTRACTING")
  /\ UNCHANGED <<graph, decisions, outcomes, grading>>

\* Mutant: no SELECT for a leads_to edge.
DecisionAllowed_NoLeadsToCheck(b, i) == i < graph[b].options

\* The SELECTs of write_decision: no leads_to edge yet, and the option exists.
DecisionAllowed(b, i) == decisions[b] = {} /\ i < graph[b].options

\* The INSERTs of write_decision and the status update of the same
\* transaction.  No lock and no unique index covers the check above.
StoreWriteDecision(p, b, i) ==
  /\ decisions' = [decisions EXCEPT ![b] = @ \cup {[by |-> p, option |-> i]}]
  /\ bets' = UpdateBetStatus(bets, b, "CONFIRMED")
  /\ UNCHANGED <<graph, outcomes, grading>>

\* Mutant: outcomes without its primary key (ON CONFLICT DO UPDATE).
StoreWriteOutcome_NoKey(b, g) ==
  /\ outcomes' = [outcomes EXCEPT ![b] = g]
  /\ grading' = IF g = "hit" THEN [grading EXCEPT ![b].supports = @ + 1]
                             ELSE [grading EXCEPT ![b].contradicts = @ + 1]
  /\ graph' = [graph EXCEPT ![b].hypothesis = "RESOLVED"]
  /\ bets' = UpdateBetStatus(bets, b, "RESOLVED")
  /\ UNCHANGED decisions

\* The INSERTs and UPDATEs of write_outcome.  The primary key of outcomes makes
\* the transaction fail as a whole if another one committed a row meanwhile.
StoreWriteOutcome(b, g) ==
  /\ outcomes[b] = "none"
  /\ outcomes' = [outcomes EXCEPT ![b] = g]
  /\ grading' = IF g = "hit" THEN [grading EXCEPT ![b].supports = @ + 1]
                             ELSE [grading EXCEPT ![b].contradicts = @ + 1]
  /\ graph' = [graph EXCEPT ![b].hypothesis = "RESOLVED"]
  /\ bets' = UpdateBetStatus(bets, b, "RESOLVED")
  /\ UNCHANGED decisions

\* Mutant: PENDING_CONFIRMATION counts as awaiting review.
DueBets_Pending(demo) ==
  {b \in Bet : /\ bets[b].status \in {"PENDING_CONFIRMATION", "CONFIRMED",
                                      "SCHEDULED"}
               /\ demo \/ bets[b].review = "arrived"}

\* Mutant: every row whose review date does not lie in the future.
DueBets_NotInFuture(demo) ==
  {b \in Bet : /\ bets[b].status \notin {"absent", "RESOLVED"}
               /\ demo \/ bets[b].review # "future"}

\* due_bets: demo mode ignores the review date.
DueBets(demo) ==
  {b \in Bet : /\ bets[b].status \in {"CONFIRMED", "SCHEDULED"}
               /\ demo \/ bets[b].review = "arrived"}
=============================================================================
