------------------------------- MODULE Phase2 -------------------------------
(***************************************************************************)
(* The Phase 2 graph (pipeline/phase2.py and nodes/phase2.py) run by       *)
(* reviewers.  A reviewer is one caller of run_due_reviews (the CLI) or of *)
(* reviews_check (the API), which can call again as often as it likes.     *)
(* A check takes one snapshot of the due bets and then reviews them one    *)
(* after another; an exception in one review is counted and the check goes *)
(* on with the next bet.  The graph runs on a MemorySaver: a crash forgets *)
(* the whole check.                                                        *)
(*                                                                         *)
(* update_calibration only reads the outcomes table into the state, and    *)
(* has no step of its own.                                                 *)
(***************************************************************************)
EXTENDS Store

CONSTANTS Reviewer,     \* callers of the review check
          NoReview,     \* what a reviewer between two bets works on
          DemoMode      \* settings.demo_mode

ASSUME NoReviewAssumption == NoReview \notin Bet
ASSUME DemoModeAssumption == DemoMode \in BOOLEAN

VARIABLES rpc,          \* where each reviewer is
          queue,        \* the rest of its snapshot of due bets
          reviewing,    \* the bet under review
          actual,       \* actual_lift of the BetState: a grade or "none"
          url,          \* github_issue_url of the BetState is set
          reports       \* graded reports sent so far, by bet

phase2Vars == <<rpc, queue, reviewing, actual, url, reports>>

\* A report without a measurement ("will retry") is not recorded.
Report == [to: {"slack", "github"}, grade: Grade]

Phase2TypeOK ==
  /\ rpc \in [Reviewer -> {"idle", "next", "fetch_metric", "flag_metric",
                           "compare_outcome", "commit_outcome",
                           "report_outcome"}]
  /\ queue \in [Reviewer -> SUBSET Bet]
  /\ reviewing \in [Reviewer -> Bet \cup {NoReview}]
  /\ actual \in [Reviewer -> Grade \cup {"none"}]
  /\ url \in [Reviewer -> BOOLEAN]
  /\ reports \in [Bet -> SUBSET Report]

Phase2Init ==
  /\ rpc = [r \in Reviewer |-> "idle"]
  /\ queue = [r \in Reviewer |-> {}]
  /\ reviewing = [r \in Reviewer |-> NoReview]
  /\ actual = [r \in Reviewer |-> "none"]
  /\ url = [r \in Reviewer |-> FALSE]
  /\ reports = [b \in Bet |-> {}]

-----------------------------------------------------------------------------
RAt(r, label) == rpc[r] = label /\ reviewing[r] \in Bet

RGoto(r, label) == rpc' = [rpc EXCEPT ![r] = label]

\* The review of this bet is over and its BetState is dropped.
EndReview(r, label) ==
  /\ RGoto(r, label)
  /\ reviewing' = [reviewing EXCEPT ![r] = NoReview]
  /\ actual' = [actual EXCEPT ![r] = "none"]
  /\ url' = [url EXCEPT ![r] = FALSE]

-----------------------------------------------------------------------------
(* One call of run_due_reviews or reviews_check.                           *)

StartCheck(r) ==
  /\ rpc[r] = "idle"
  /\ queue' = [queue EXCEPT ![r] = DueBets(DemoMode)]
  /\ RGoto(r, "next")
  /\ UNCHANGED <<tables, reviewing, actual, url, reports>>

EndCheck(r) ==
  /\ rpc[r] = "next" /\ queue[r] = {}
  /\ RGoto(r, "idle")
  /\ UNCHANGED <<tables, queue, reviewing, actual, url, reports>>

-----------------------------------------------------------------------------
(* The nodes.                                                              *)

\* The next bet of the snapshot, whatever has become of it.  create_initial_state
\* leaves every key unset; load_bet raises for a bet without a hypothesis, fills
\* in the metric and the dates, and leaves github_issue_url as it is.
LoadBet(r, b) ==
  /\ rpc[r] = "next" /\ b \in queue[r]
  /\ queue' = [queue EXCEPT ![r] = @ \ {b}]
  /\ IF graph[b].hypothesis = "absent"
     THEN EndReview(r, "next")
     ELSE /\ reviewing' = [reviewing EXCEPT ![r] = b]
          /\ RGoto(r, "fetch_metric")
          /\ UNCHANGED <<actual, url>>
  /\ UNCHANGED <<tables, reports>>

\* PostHog answers with whatever the metric is by now, or it fails.
FetchMetric(r) ==
  /\ RAt(r, "fetch_metric")
  /\ \/ /\ \E g \in Grade : actual' = [actual EXCEPT ![r] = g]
        /\ RGoto(r, "compare_outcome")
     \/ "posthog" \in Flaky /\ RGoto(r, "flag_metric") /\ UNCHANGED actual
  /\ UNCHANGED <<tables, queue, reviewing, url, reports>>

\* Mutant: a failed fetch also takes the bet out of the due ones.
FlagMetric_SetsFlagged(r) ==
  /\ RAt(r, "flag_metric")
  /\ bets' = AppendFlag(UpdateBetStatus(bets, reviewing[r], "FLAGGED"),
                        reviewing[r], "posthog_failed")
  /\ RGoto(r, "compare_outcome")
  /\ UNCHANGED <<graph, decisions, outcomes, grading, queue, reviewing, actual,
                 url, reports>>

FlagMetric(r) ==
  /\ RAt(r, "flag_metric")
  /\ bets' = AppendFlag(bets, reviewing[r], "posthog_failed")
  /\ RGoto(r, "compare_outcome")
  /\ UNCHANGED <<graph, decisions, outcomes, grading, queue, reviewing, actual,
                 url, reports>>

\* Mutant: the grade is reported without write_outcome.
CompareOutcome_NoWrite(r) ==
  /\ RAt(r, "compare_outcome")
  /\ RGoto(r, "report_outcome")
  /\ UNCHANGED <<tables, queue, reviewing, actual, url, reports>>

\* Mutant: the bet is set RESOLVED in a transaction of its own, first.
CompareOutcome_ResolvesFirst(r) ==
  /\ RAt(r, "compare_outcome")
  /\ IF actual[r] = "none" \/ outcomes[reviewing[r]] # "none"
     THEN RGoto(r, "report_outcome") /\ UNCHANGED bets
     ELSE /\ bets' = UpdateBetStatus(bets, reviewing[r], "RESOLVED")
          /\ RGoto(r, "commit_outcome")
  /\ UNCHANGED <<graph, decisions, outcomes, grading, queue, reviewing, actual,
                 url, reports>>

\* Without a measurement nothing is graded.  The SELECT of write_outcome: a
\* bet that has an outcome keeps it, and the node goes on with its own delta.
CompareOutcome(r) ==
  /\ RAt(r, "compare_outcome")
  /\ RGoto(r, IF actual[r] = "none" \/ outcomes[reviewing[r]] # "none"
              THEN "report_outcome" ELSE "commit_outcome")
  /\ UNCHANGED <<tables, queue, reviewing, actual, url, reports>>

\* The INSERTs of write_outcome, which a row committed meanwhile makes fail.
CommitOutcome(r) ==
  /\ RAt(r, "commit_outcome")
  /\ \/ /\ StoreWriteOutcome(reviewing[r], actual[r])
        /\ RGoto(r, "report_outcome")
        /\ UNCHANGED <<reviewing, actual, url>>
     \/ /\ outcomes[reviewing[r]] # "none"
        /\ EndReview(r, "next")
        /\ UNCHANGED tables
  /\ UNCHANGED <<queue, reports>>

\* Where a report can go: the channel, and the issue the BetState knows of.
Audience(r) == {"slack"} \cup (IF url[r] THEN {"github"} ELSE {})

\* _BetView raises without a review date.  A message that fails only leaves a
\* flag in the state, which is dropped with it.
ReportOutcome(r) ==
  /\ RAt(r, "report_outcome")
  /\ IF actual[r] = "none" \/ bets[reviewing[r]].review = "null"
     THEN UNCHANGED reports
     ELSE \E to \in IF "slack" \in Flaky THEN SUBSET Audience(r)
                                         ELSE {Audience(r)} :
            reports' = [reports EXCEPT ![reviewing[r]] =
                          @ \cup [to: to, grade: {actual[r]}]]
  /\ EndReview(r, "next")
  /\ UNCHANGED <<tables, queue>>

-----------------------------------------------------------------------------
Review(r) ==
  \/ \E b \in Bet : LoadBet(r, b)
  \/ FetchMetric(r) \/ FlagMetric(r) \/ CompareOutcome(r) \/ CommitOutcome(r)
  \/ ReportOutcome(r) \/ EndCheck(r)

\* The process dies in the middle of a check.
ReviewCrash(r) ==
  /\ Crashes /\ rpc[r] # "idle"
  /\ queue' = [queue EXCEPT ![r] = {}]
  /\ EndReview(r, "idle")
  /\ UNCHANGED <<tables, reports>>

Phase2Next == \E r \in Reviewer : StartCheck(r) \/ Review(r) \/ ReviewCrash(r)
=============================================================================
