------------------------------- MODULE Grading -------------------------------
(***************************************************************************)
(* The numbers of Phase 2: the delta of a bet, its verdict, and the        *)
(* calibration of the PM over all outcomes (phase2.py, calibration.py,     *)
(* render.py).  Phase2 has the measured lift as a hit or a miss; here it is *)
(* a number of percentage points, and each reviewer computes its own.      *)
(*                                                                         *)
(* A reviewer is the review of one bet by one caller.  A snapshot of due   *)
(* bets may be old when a bet's turn comes, and a graded bet may be due    *)
(* again, so any bet may be reviewed at any time.  Lifts are integers; the *)
(* averages of the report are kept as sums beside their count.             *)
(***************************************************************************)
EXTENDS Integers, FiniteSets, Functions

CONSTANTS Bet, Reviewer,
          Lift,         \* what PostHog may measure
          Predicted,    \* bets.predicted_lift
          Tolerance,    \* settings.bet_tolerance_pp
          NoLift,       \* None: not measured
          NoBet, NoRow

ASSUME LiftAssumption == Lift \subseteq Int /\ Predicted \in Int /\ NoLift \notin Int
ASSUME ToleranceAssumption == Tolerance \in Nat
ASSUME BetAssumption == IsFiniteSet(Bet)

VARIABLES outcomes,     \* table outcomes (primary key bet_id)
          reports,      \* what was posted
          pc,           \* per reviewer: its place,
          bet, actual,  \*   the bet and its measured lift,
          early         \*   the calibration that update_calibration read

vars == <<outcomes, reports, pc, bet, actual, early>>

Row == [by: Reviewer, actual: Lift, delta: Int, within: BOOLEAN]

ASSUME RowAssumption == NoRow \notin Row

\* avg(abs(delta)) and avg(within_tolerance) over n rows, as sums.
Calibration == [n: 0 .. Cardinality(Bet), deltas: Nat, hits: Nat]

Report == [by: Reviewer, bet: Bet, actual: Lift, delta: Int,
           supports: BOOLEAN, calibration: Calibration]

NoOutcomes == [n |-> 0, deltas |-> 0, hits |-> 0]

TypeOK ==
  /\ outcomes \in [Bet -> Row \cup {NoRow}]
  /\ reports \subseteq Report
  /\ pc \in [Reviewer -> {"idle", "fetch_metric", "compare_outcome",
                          "commit_outcome", "update_calibration",
                          "report_outcome", "ended"}]
  /\ bet \in [Reviewer -> Bet \cup {NoBet}]
  /\ actual \in [Reviewer -> Lift \cup {NoLift}]
  /\ early \in [Reviewer -> Calibration]

Init ==
  /\ outcomes = [b \in Bet |-> NoRow]
  /\ reports = {}
  /\ pc = [r \in Reviewer |-> "idle"]
  /\ bet = [r \in Reviewer |-> NoBet]
  /\ actual = [r \in Reviewer |-> NoLift]
  /\ early = [r \in Reviewer |-> NoOutcomes]

Goto(r, label) == pc' = [pc EXCEPT ![r] = label]

-----------------------------------------------------------------------------
(* The arithmetic.                                                         *)

Abs(n) == IF n < 0 THEN -n ELSE n

Delta(lift) == lift - Predicted

\* compare_outcome: the verdict that is stored.
Within(delta) == Abs(delta) <= Tolerance

\* Mutant: the report takes the tolerance as exclusive.
Supports_Strict(lift) == Abs(lift - Predicted) < Tolerance

\* _OutcomeView: the verdict that is reported, computed again.
Supports(lift) == Abs(lift - Predicted) <= Tolerance

Graded == {b \in Bet : outcomes[b] # NoRow}

CalibrationOf(S) ==
  [n      |-> Cardinality(S),
   deltas |-> SumFunction([b \in S |-> Abs(outcomes[b].delta)]),
   hits   |-> Cardinality({b \in S : outcomes[b].within})]

\* compute_calibration: one query over the whole table.
ComputeCalibration == CalibrationOf(Graded)

-----------------------------------------------------------------------------
(* The nodes.                                                              *)

LoadBet(r, b) ==
  /\ pc[r] = "idle"
  /\ bet' = [bet EXCEPT ![r] = b]
  /\ Goto(r, "fetch_metric")
  /\ UNCHANGED <<outcomes, reports, actual, early>>

\* Mutant: a metric that could not be fetched counts as a lift of zero.
FetchMetric_Zero(r) ==
  /\ pc[r] = "fetch_metric"
  /\ \E lift \in Lift \cup {0} : actual' = [actual EXCEPT ![r] = lift]
  /\ Goto(r, "compare_outcome")
  /\ UNCHANGED <<outcomes, reports, bet, early>>

\* A lift, or a failure that leaves actual_lift None.
FetchMetric(r) ==
  /\ pc[r] = "fetch_metric"
  /\ \E lift \in Lift \cup {NoLift} : actual' = [actual EXCEPT ![r] = lift]
  /\ Goto(r, "compare_outcome")
  /\ UNCHANGED <<outcomes, reports, bet, early>>

\* The SELECT of write_outcome; an outcome that is there is kept.
CompareOutcome(r) ==
  /\ pc[r] = "compare_outcome"
  /\ Goto(r, IF actual[r] = NoLift \/ bet[r] \in Graded
             THEN "update_calibration" ELSE "commit_outcome")
  /\ UNCHANGED <<outcomes, reports, bet, actual, early>>

NewRow(r) ==
  [by |-> r, actual |-> actual[r], delta |-> Delta(actual[r]),
   within |-> Within(Delta(actual[r]))]

\* Mutant: the later of two outcomes replaces the earlier one.
CommitOutcome_Replaces(r) ==
  /\ pc[r] = "commit_outcome"
  /\ outcomes' = [outcomes EXCEPT ![bet[r]] = NewRow(r)]
  /\ Goto(r, "update_calibration")
  /\ UNCHANGED <<reports, bet, actual, early>>

\* The INSERT, which the primary key refuses if another review was faster; the
\* exception ends this one.
CommitOutcome(r) ==
  /\ pc[r] = "commit_outcome"
  /\ \/ /\ bet[r] \notin Graded
        /\ outcomes' = [outcomes EXCEPT ![bet[r]] = NewRow(r)]
        /\ Goto(r, "update_calibration")
     \/ /\ bet[r] \in Graded
        /\ Goto(r, "ended")
        /\ UNCHANGED outcomes
  /\ UNCHANGED <<reports, bet, actual, early>>

\* Into the state, where nothing reads it.
UpdateCalibration(r) ==
  /\ pc[r] = "update_calibration"
  /\ early' = [early EXCEPT ![r] = ComputeCalibration]
  /\ Goto(r, "report_outcome")
  /\ UNCHANGED <<outcomes, reports, bet, actual>>

\* Mutant: the count, which is not in the state, is read again beside the
\* averages of the state.
CalibrationView_Mixed(r) == [early[r] EXCEPT !.n = Cardinality(Graded)]

\* _CalibrationView reads everything again.
CalibrationView(r) == ComputeCalibration

\* The text for the channel: of a measured lift, its delta, the verdict and the
\* calibration.  A report without a lift has no verdict and is not kept here,
\* nor is one that Slack refuses.
ReportOutcome(r) ==
  /\ pc[r] = "report_outcome"
  /\ \/ UNCHANGED reports
     \/ /\ actual[r] # NoLift
        /\ reports' = reports \cup
             {[by |-> r, bet |-> bet[r], actual |-> actual[r],
               delta |-> Delta(actual[r]), supports |-> Supports(actual[r]),
               calibration |-> CalibrationView(r)]}
  /\ Goto(r, "ended")
  /\ UNCHANGED <<outcomes, bet, actual, early>>

\* The process dies.
Crash(r) ==
  /\ pc[r] \notin {"idle", "ended"}
  /\ Goto(r, "ended")
  /\ UNCHANGED <<outcomes, reports, bet, actual, early>>

Next ==
  \E r \in Reviewer :
    \/ \E b \in Bet : LoadBet(r, b)
    \/ FetchMetric(r) \/ CompareOutcome(r) \/ CommitOutcome(r)
    \/ UpdateCalibration(r) \/ ReportOutcome(r) \/ Crash(r)

Spec == Init /\ [][Next]_vars

-----------------------------------------------------------------------------
\* The channel reads the verdict that the table holds: the review that stored an
\* outcome reports its lift, and any report of that lift has its delta and its
\* verdict, although the report computes both anew.  A review that found another
\* outcome reports its own lift beside it.
ReportTellsTheGrade ==
  \A x \in reports :
    LET row == outcomes[x.bet]
    IN  /\ row # NoRow
        /\ row.by = x.by => x.actual = row.actual
        /\ row.actual = x.actual => x.delta = row.delta /\ x.supports = row.within

\* The calibration of a report is that of one set of outcomes, which includes the
\* reported bet: its mean, its hit rate and its count belong together, although
\* other reviews commit between the two times that the table is read.
CalibrationIsOneSnapshot ==
  \A x \in reports :
    \E S \in SUBSET Graded : x.bet \in S /\ x.calibration = CalibrationOf(S)

\* Two reports never contradict each other on the PM's record: with the same
\* number of bets they give the same averages, and with more bets no fewer hits.
ReportsAgree ==
  \A x, y \in reports :
    LET c == x.calibration
        d == y.calibration
    IN  /\ c.n = d.n => c = d
        /\ c.n < d.n => c.hits <= d.hits /\ c.deltas <= d.deltas
=============================================================================
