------------------------------- MODULE Claims -------------------------------
(***************************************************************************)
(* What the documentation and the comments say of the program and the code *)
(* does not do.  TLC refutes each of these, in the run of the same name.   *)
(***************************************************************************)
EXTENDS Wager

\* store.write_decision "refuses if the bet already has a leads_to edge", in
\* one transaction (store.py:270-273).  Two clicks that overlap both pass its
\* SELECT before either INSERT is committed.
NeverTwoDecisions == \A b \in Bet : Cardinality(decisions[b]) <= 1

\* "every external failure surfaces as a typed, persisted DataFlag rather than
\* a crash or a silent skip" (README.md:61-63).  A first run that fails in
\* docs_intake or in an LLM call leaves a bet in EXTRACTING with no flag.
FailureLeavesFlag ==
  \A p \in Worker : pc[p] = "failed" => bets[on[p]].flags # {}

\* "resumable LangGraph checkpoints" (README.md:117) with side effects that are
\* "idempotent or skip-tolerant" (README.md:126).  A thread that died between
\* the commit of write_decision and its checkpoint refuses every later resume.
DecidedThreadResumes ==
  \A p \in Worker : ~ (/\ pc[p] = "raised"
                       /\ ckpt[on[p]].next = "write_decision"
                       /\ chosen[p] \in {d.option : d \in decisions[on[p]]})

\* write_outcome "sets the hypothesis node and the bet to RESOLVED"
\* (store.py:343) and due_bets are "bets awaiting review" (store.py:407).  A
\* schedule_review that ends after the review sets SCHEDULED over RESOLVED, and
\* the graded bet is due, reviewed and reported again for ever.
GradedIsNotDue ==
  \A b \in Bet : outcomes[b] # "none" => b \notin DueBets(DemoMode)

\* "a bet is already pending confirmation for this doc" (routes.py:85) refuses a
\* second bet of a document while the first one waits for its PM.  Two requests,
\* or one that comes while the first bet is still EXTRACTING, both pass the check.
OnePendingBet ==
  \A b, c \in Bet :
    bets[b].status = "PENDING_CONFIRMATION"
      /\ bets[c].status = "PENDING_CONFIRMATION" => b = c
=============================================================================
