-------------------------------- MODULE Calm --------------------------------
(***************************************************************************)
(* What the program achieves when the PM waits for one resume of a bet to  *)
(* end before starting the next (Overlap = FALSE), and what it achieves    *)
(* eventually when its processes keep running (Crashes = FALSE).           *)
(***************************************************************************)
EXTENDS Wager

-----------------------------------------------------------------------------
(* One resume at a time, with crashes and concurrent checks.               *)

\* write_decision refuses a second leads_to edge: also the resume that runs the
\* node again because the first one died after its commit and before its
\* checkpoint.
AtMostOneDecision == \A b \in Bet : Cardinality(decisions[b]) <= 1

\* The marker makes link_github find the issue of an earlier, interrupted try,
\* as long as that issue is among the first 100 (BusyTracker = FALSE).
OneIssuePerBet == \A b \in Bet : Cardinality(issues[b]) <= 1

Rank(status) ==
  CASE status = "absent" -> 0
    [] status = "EXTRACTING" -> 1
    [] status = "PENDING_CONFIRMATION" -> 2
    [] status = "CONFIRMED" -> 3
    [] status = "SCHEDULED" -> 4
    [] status = "RESOLVED" -> 5

\* No node that runs again takes an ungraded bet back to an earlier status,
\* although confirm_decision writes PENDING_CONFIRMATION on every resume and
\* nothing compares it with the status that is there.
StatusAdvances ==
  [][\A b \in Bet : outcomes[b] = "none"
                      => Rank(bets'[b].status) >= Rank(bets[b].status)]_vars

\* Unless the process itself died, a bet the PM decided on ends up with its
\* review scheduled or graded, or carries a flag that says why not.
DecidedIsScheduledOrFlagged ==
  \A b \in Bet :
    decisions[b] # {} /\ (\A p \in Worker : on[p] = b => pc[p] \in Ended \ {"crashed"})
      => bets[b].status \in {"SCHEDULED", "RESOLVED"} \/ bets[b].flags # {}

\* The refinement mapping: the decision is the option of the one DECISION node, so
\* a second node would take it back; the PM asks by starting a resume.
Promise ==
  INSTANCE BetPromise WITH
    Option <- Index,
    NoOption <- None,
    NoGrade <- "none",
    asked <- [b \in Bet |-> Asked(b)],
    decision <- [b \in Bet |-> IF Cardinality(decisions[b]) = 1
                               THEN (CHOOSE d \in decisions[b] : TRUE).option
                               ELSE None],
    grade <- outcomes

\* Workers and reviewers together keep the promise: the option the PM asked
\* for becomes the decision once, and is graded once.
KeepsPromise == Promise!Spec

-----------------------------------------------------------------------------
(* Progress, when no process dies.  A process that runs keeps running, the *)
(* review check is called again and again (by whoever runs the CLI or      *)
(* calls the API), and PostHog, asked again and again, answers at last.    *)

PostHogAnswers(r) == FetchMetric(r) /\ actual'[r] # "none"

Fairness ==
  /\ \A p \in Worker : WF_vars(Work(p) /\ UNCHANGED phase2Vars)
  /\ \A r \in Reviewer :
       /\ WF_vars((StartCheck(r) \/ Review(r)) /\ UNCHANGED phase1Vars)
       /\ SF_vars(PostHogAnswers(r) /\ UNCHANGED phase1Vars)

FairSpec == Spec /\ Fairness

\* Every click is answered: the thread has run to its end, or the flag on the
\* bet says that the resume failed, also for clicks that race each other.
ClickIsAnswered ==
  \A p \in Worker :
    (via[p] = "slack")
      ~> \/ pc[p] = "finished"
         \/ pc[p] = "failed" /\ "slack_resume_failed" \in bets[on[p]].flags

\* A committed decision gets its calendar event or a flag that it has none;
\* a GitHub failure on the way does not stop it.
DecisionIsScheduled ==
  \A b \in Bet :
    (decisions[b] # {})
      ~> (bets[b].eventId \/ "calendar_write_failed" \in bets[b].flags)

\* "Will retry on next review check": a due bet is graded at last, however
\* often PostHog fails before it answers and whoever else reviews the bet.
DueBetIsGraded ==
  \A b \in Bet : (b \in DueBets(DemoMode)) ~> (outcomes[b] # "none")
=============================================================================
