----------------------------- MODULE GradingProofs -----------------------------
(***************************************************************************)
(* The properties of Grading for any finite number of bets, any number of  *)
(* reviewers, any lifts and any tolerance.  Inv follows a reviewer: before *)
(* it commits no outcome is its own, after it the bet it reports on has an *)
(* outcome, and one of its own has the lift that it measured.  Snapshots   *)
(* says which outcomes the reports have counted.                           *)
(***************************************************************************)
EXTENDS Grading, SumTheorems

Waiting == {"idle", "fetch_metric", "compare_outcome", "commit_outcome"}

Types ==
  /\ outcomes \in [Bet -> Row \cup {NoRow}]
  /\ pc \in [Reviewer -> Waiting \cup {"update_calibration", "report_outcome", "ended"}]
  /\ bet \in [Reviewer -> Bet \cup {NoBet}]
  /\ actual \in [Reviewer -> Lift \cup {NoLift}]

\* A stored outcome is the comparison of the lift it holds.
RowsAreCompared ==
  \A b \in Graded :
    /\ outcomes[b].delta = Delta(outcomes[b].actual)
    /\ outcomes[b].within = Supports(outcomes[b].actual)

\* Where each reviewer stands.
Follows(r) ==
  /\ pc[r] \in Waiting => \A b \in Graded : outcomes[b].by # r
  /\ pc[r] \in {"fetch_metric", "compare_outcome", "commit_outcome",
                "update_calibration", "report_outcome"} => bet[r] \in Bet
  /\ pc[r] = "commit_outcome" => actual[r] \in Lift
  /\ pc[r] \in {"update_calibration", "report_outcome"} /\ actual[r] # NoLift =>
       /\ bet[r] \in Graded
       /\ outcomes[bet[r]].by = r => outcomes[bet[r]].actual = actual[r]

\* A report is made of a lift by a reviewer that has ended.
ReportIsMade(x) ==
  /\ x.by \in Reviewer /\ pc[x.by] = "ended" /\ x.bet \in Graded
  /\ x.delta = Delta(x.actual) /\ x.supports = Supports(x.actual)
  /\ outcomes[x.bet].by = x.by => outcomes[x.bet].actual = x.actual

Inv ==
  /\ Types /\ RowsAreCompared
  /\ \A r \in Reviewer : Follows(r)
  /\ \A x \in reports : ReportIsMade(x)

-----------------------------------------------------------------------------
LEMMA DeltaIsInt ==
  ASSUME NEW lift \in Lift
  PROVE  Delta(lift) \in Int
<1>1. lift \in Int /\ Predicted \in Int
  BY LiftAssumption
<1>2. \A i, j \in Int : i - j \in Int
  OBVIOUS
<1> QED BY <1>1, <1>2, Zenon DEF Delta

LEMMA InitInv == Init => Inv
BY DEF Init, Inv, Types, RowsAreCompared, Follows, Graded, Waiting

LEMMA LoadBetInv ==
  ASSUME NEW r \in Reviewer, NEW b \in Bet, Inv, LoadBet(r, b)
  PROVE  Inv'
<1> USE DEF LoadBet, Goto
<1>1. Types'
  BY DEF Inv, Types, Waiting
<1>2. RowsAreCompared'
  BY DEF Inv, RowsAreCompared, Graded
<1>3. \A q \in Reviewer : Follows(q)'
  BY DEF Inv, Types, Follows, Graded, Waiting
<1>4. \A x \in reports' : ReportIsMade(x)'
  BY DEF Inv, Types, ReportIsMade, Graded
<1> QED BY <1>1, <1>2, <1>3, <1>4 DEF Inv

LEMMA QuietInv ==
  ASSUME NEW r \in Reviewer, Inv,
         FetchMetric(r) \/ CompareOutcome(r) \/ UpdateCalibration(r) \/ Crash(r)
  PROVE  Inv'
<1> USE DEF FetchMetric, CompareOutcome, UpdateCalibration, Crash, Goto
<1>1. Types'
  BY DEF Inv, Types, Waiting
<1>2. RowsAreCompared'
  BY DEF Inv, RowsAreCompared, Graded
<1>3. \A q \in Reviewer : Follows(q)'
  BY DEF Inv, Types, Follows, Graded, Waiting
<1>4. \A x \in reports' : ReportIsMade(x)'
  BY DEF Inv, Types, ReportIsMade, Graded
<1> QED BY <1>1, <1>2, <1>3, <1>4 DEF Inv

LEMMA CommitOutcomeInv ==
  ASSUME NEW r \in Reviewer, Inv, CommitOutcome(r)
  PROVE  Inv'
<1> USE DEF CommitOutcome, Goto
<1>1. CASE bet[r] \in Graded
  <2>1. Types'
    BY <1>1 DEF Inv, Types, Waiting
  <2>2. RowsAreCompared'
    BY <1>1 DEF Inv, RowsAreCompared, Graded
  <2>3. \A q \in Reviewer : Follows(q)'
    BY <1>1 DEF Inv, Types, Follows, Graded, Waiting
  <2>4. \A x \in reports' : ReportIsMade(x)'
    BY <1>1 DEF Inv, Types, ReportIsMade, Graded
  <2> QED BY <2>1, <2>2, <2>3, <2>4 DEF Inv
<1>2. CASE bet[r] \notin Graded
  <2> DEFINE row == NewRow(r)
  <2>1. actual[r] \in Lift /\ bet[r] \in Bet /\ pc[r] = "commit_outcome"
    BY DEF Inv, Follows
  <2>2. /\ row \in Row /\ row # NoRow /\ row.by = r /\ row.actual = actual[r]
        /\ row.delta = Delta(row.actual) /\ row.within = Supports(row.actual)
    <3>1. Delta(actual[r]) \in Int
      BY <2>1, DeltaIsInt
    <3>2. Within(Delta(actual[r])) = Supports(actual[r])
      BY DEF Within, Delta, Supports
    <3>3. Within(Delta(actual[r])) \in BOOLEAN
      BY DEF Within
    <3>4. row = [by |-> r, actual |-> actual[r], delta |-> Delta(actual[r]),
                 within |-> Within(Delta(actual[r]))]
      BY DEF NewRow
    <3>5. row \in Row
      BY <2>1, <3>1, <3>3, <3>4 DEF Row
    <3> QED BY <3>2, <3>4, <3>5, RowAssumption
  <2>3. /\ outcomes' = [outcomes EXCEPT ![bet[r]] = row]
        /\ pc' = [pc EXCEPT ![r] = "update_calibration"]
        /\ UNCHANGED <<reports, bet, actual, early>>
    BY <1>2
  <2> HIDE DEF row
  <2>4. /\ outcomes'[bet[r]] = row
        /\ \A b \in Bet \ {bet[r]} : outcomes'[b] = outcomes[b]
        /\ Graded' = Graded \cup {bet[r]}
    BY <2>1, <2>2, <2>3 DEF Inv, Types, Graded
  <2>5. Types'
    BY <2>1, <2>2, <2>3 DEF Inv, Types
  <2>6. RowsAreCompared'
    BY <2>2, <2>4 DEF Inv, RowsAreCompared, Graded
  <2>7. \A q \in Reviewer : Follows(q)'
    BY <1>2, <2>1, <2>2, <2>3, <2>4 DEF Inv, Types, Follows, Graded, Waiting
  <2>8. \A x \in reports' : ReportIsMade(x)'
    BY <1>2, <2>1, <2>3, <2>4 DEF Inv, Types, ReportIsMade, Graded
  <2> QED BY <2>5, <2>6, <2>7, <2>8 DEF Inv
<1> QED BY <1>1, <1>2

LEMMA ReportOutcomeInv ==
  ASSUME NEW r \in Reviewer, Inv, ReportOutcome(r)
  PROVE  Inv'
<1> USE DEF ReportOutcome, Goto
<1>1. Types'
  BY DEF Inv, Types, Waiting
<1>2. RowsAreCompared'
  BY DEF Inv, RowsAreCompared, Graded
<1>3. \A q \in Reviewer : Follows(q)'
  BY DEF Inv, Types, Follows, Graded, Waiting
<1>4. \A x \in reports : ReportIsMade(x)'
  BY DEF Inv, Types, ReportIsMade, Graded
<1>5. CASE UNCHANGED reports
  BY <1>1, <1>2, <1>3, <1>4, <1>5 DEF Inv
<1>6. ASSUME NEW x, actual[r] # NoLift, reports' = reports \cup {x},
             x = [by |-> r, bet |-> bet[r], actual |-> actual[r],
                  delta |-> Delta(actual[r]), supports |-> Supports(actual[r]),
                  calibration |-> CalibrationView(r)]
      PROVE  Inv'
  <2>1. /\ x.by = r /\ x.bet = bet[r] /\ x.actual = actual[r]
        /\ x.delta = Delta(x.actual) /\ x.supports = Supports(x.actual)
    BY <1>6
  <2>2. bet[r] \in Graded /\ (outcomes[bet[r]].by = r => outcomes[bet[r]].actual = actual[r])
    BY <1>6 DEF Inv, Follows
  <2>3. pc'[r] = "ended" /\ UNCHANGED outcomes
    BY DEF Inv, Types
  <2>4. ReportIsMade(x)'
    BY <2>1, <2>2, <2>3 DEF ReportIsMade, Graded
  <2> QED BY <1>1, <1>2, <1>3, <1>4, <1>6, <2>4 DEF Inv
<1> QED BY <1>5, <1>6

LEMMA Invariance == Spec => []Inv
<1>1. ASSUME Inv, [Next]_vars
      PROVE  Inv'
  <2>1. CASE UNCHANGED vars
    <3>1. UNCHANGED <<outcomes, reports, pc, bet, actual>>
      BY <2>1 DEF vars
    <3> QED BY <1>1, <3>1 DEF Inv, Types, RowsAreCompared, Follows, ReportIsMade, Graded
  <2> QED BY <1>1, <2>1, LoadBetInv, QuietInv, CommitOutcomeInv, ReportOutcomeInv
          DEF Next
<1> QED BY <1>1, InitInv, PTL DEF Spec

-----------------------------------------------------------------------------
\* What the channel reads is what the table holds: the review that stored an
\* outcome reports its lift, and a report of the stored lift has the stored
\* delta and verdict, whatever the tolerance and however many reviews race.
THEOREM ReportsTellTheGrade == Spec => []ReportTellsTheGrade
<1>1. Inv => ReportTellsTheGrade
  <2> SUFFICES ASSUME Inv, NEW x \in reports
               PROVE  LET row == outcomes[x.bet]
                      IN  /\ row # NoRow
                          /\ row.by = x.by => x.actual = row.actual
                          /\ row.actual = x.actual =>
                               x.delta = row.delta /\ x.supports = row.within
    BY DEF ReportTellsTheGrade
  <2>1. ReportIsMade(x)
    BY DEF Inv
  <2>2. /\ outcomes[x.bet].delta = Delta(outcomes[x.bet].actual)
        /\ outcomes[x.bet].within = Supports(outcomes[x.bet].actual)
    BY <2>1 DEF Inv, RowsAreCompared, ReportIsMade
  <2> QED BY <2>1, <2>2 DEF ReportIsMade, Graded
<1> QED BY <1>1, Invariance, PTL

-----------------------------------------------------------------------------
(* The calibrations.                                                       *)

\* The absolute deltas of a set of graded bets.
Deltas(S) == [b \in S |-> Abs(outcomes[b].delta)]

\* Reports show the table at different times, at each of which it holds what it
\* held before: the sets of bets they average over are a chain.
Snapshots ==
  \E C \in SUBSET SUBSET Graded :
    /\ \A S, T \in C : S \subseteq T \/ T \subseteq S
    /\ \A x \in reports : \E S \in C : x.bet \in S /\ x.calibration = CalibrationOf(S)

Records == reports \subseteq Report /\ early \in [Reviewer -> Calibration]

LEMMA RowFacts ==
  ASSUME Types, NEW b \in Graded
  PROVE  /\ b \in Bet /\ outcomes[b] \in Row
         /\ outcomes[b].delta \in Int /\ Abs(outcomes[b].delta) \in Nat
         /\ outcomes[b].within \in BOOLEAN
<1>1. b \in Bet /\ outcomes[b] \in Row
  BY DEF Types, Graded
<1>2. outcomes[b].delta \in Int /\ outcomes[b].within \in BOOLEAN
  BY <1>1 DEF Row
<1> QED BY <1>1, <1>2 DEF Abs

LEMMA GradedFinite == \A S \in SUBSET Graded : IsFiniteSet(S) /\ S \subseteq Bet
BY BetAssumption, FS_Subset DEF Graded

LEMMA DeltasFacts ==
  ASSUME Types, NEW S \in SUBSET Graded
  PROVE  /\ DOMAIN Deltas(S) = S
         /\ \A b \in S : Deltas(S)[b] = Abs(outcomes[b].delta) /\ Deltas(S)[b] \in Nat
BY RowFacts DEF Deltas

LEMMA CalibrationIsSum ==
  ASSUME Types, NEW S \in SUBSET Graded
  PROVE  CalibrationOf(S) = [n      |-> Cardinality(S),
                             deltas |-> SumFunctionOnSet(Deltas(S), S),
                             hits   |-> Cardinality({b \in S : outcomes[b].within})]
BY DeltasFacts, Zenon DEF CalibrationOf, SumFunction, Deltas

LEMMA CalibrationType ==
  ASSUME Types, NEW S \in SUBSET Graded
  PROVE  CalibrationOf(S) \in Calibration
<1>1. IsFiniteSet(S) /\ S \subseteq Bet
  BY GradedFinite
<1>2. Cardinality(S) \in 0 .. Cardinality(Bet)
  BY <1>1, BetAssumption, FS_Subset, FS_CardinalityType
<1>3. SumFunctionOnSet(Deltas(S), S) \in Nat
  BY <1>1, DeltasFacts, SumType
<1>4. Cardinality({b \in S : outcomes[b].within}) \in Nat
  BY <1>1, FS_Subset, FS_CardinalityType
<1> QED BY <1>2, <1>3, <1>4, CalibrationIsSum DEF Calibration

\* More outcomes have no fewer hits and no smaller sum of deltas; as many
\* outcomes of a chain are the same ones.
LEMMA CalibrationGrows ==
  ASSUME Types, NEW T \in SUBSET Graded, NEW S \in SUBSET T
  PROVE  LET c == CalibrationOf(S)
             d == CalibrationOf(T)
         IN  /\ c.n \in Nat /\ d.n \in Nat
             /\ c.n <= d.n /\ c.hits <= d.hits /\ c.deltas <= d.deltas
             /\ c.n = d.n => c = d
<1> DEFINE Hits(U) == {b \in U : outcomes[b].within}
<1>1. IsFiniteSet(T) /\ IsFiniteSet(S) /\ S \in SUBSET Graded
  BY GradedFinite
<1>2. /\ CalibrationOf(S).n = Cardinality(S) /\ CalibrationOf(T).n = Cardinality(T)
      /\ CalibrationOf(S).hits = Cardinality(Hits(S))
      /\ CalibrationOf(T).hits = Cardinality(Hits(T))
      /\ CalibrationOf(S).deltas = SumFunctionOnSet(Deltas(S), S)
      /\ CalibrationOf(T).deltas = SumFunctionOnSet(Deltas(T), T)
  BY <1>1, CalibrationIsSum
<1>3. /\ Cardinality(S) \in Nat /\ Cardinality(T) \in Nat
      /\ Cardinality(S) <= Cardinality(T)
      /\ Cardinality(S) = Cardinality(T) => S = T
  BY <1>1, FS_Subset, FS_CardinalityType
<1>4. Cardinality(Hits(S)) <= Cardinality(Hits(T))
  <2>1. IsFiniteSet(Hits(T))
    BY <1>1, FS_Subset
  <2>2. Hits(S) \in SUBSET Hits(T)
    OBVIOUS
  <2> QED BY <2>1, <2>2, FS_Subset
<1>5. SumFunctionOnSet(Deltas(S), S) <= SumFunctionOnSet(Deltas(T), T)
  <2>1. SumFunctionOnSet(Deltas(T), S) <= SumFunctionOnSet(Deltas(T), T)
    BY <1>1, DeltasFacts, SumGrows
  <2>2. \A b \in S : Deltas(S)[b] = Deltas(T)[b]
    BY <1>1, DeltasFacts
  <2>3. SumFunctionOnSet(Deltas(S), S) = SumFunctionOnSet(Deltas(T), S)
    BY <2>2, SumOfSame
  <2> QED BY <2>1, <2>3
<1> HIDE DEF Hits
<1> QED BY <1>2, <1>3, <1>4, <1>5

\* A set of graded bets keeps its calibration: no outcome is replaced.
LEMMA CalibrationStays ==
  ASSUME NEW S \in SUBSET Graded, \A b \in Graded : outcomes'[b] = outcomes[b]
  PROVE  CalibrationOf(S)' = CalibrationOf(S)
<1>1. [b \in S |-> Abs(outcomes'[b].delta)] = [b \in S |-> Abs(outcomes[b].delta)]
  OBVIOUS
<1>2. {b \in S : outcomes'[b].within} = {b \in S : outcomes[b].within}
  OBVIOUS
<1> QED BY <1>1, <1>2 DEF CalibrationOf

LEMMA RecordsInvariant == Spec => [](Inv /\ Records /\ Snapshots)
<1>1. Init => Records /\ Snapshots
  <2> SUFFICES ASSUME Init
               PROVE  Records /\ Snapshots
    OBVIOUS
  <2>1. NoOutcomes \in Calibration
    BY BetAssumption, FS_CardinalityType DEF NoOutcomes, Calibration
  <2>2. Records
    BY <2>1 DEF Init, Records
  <2>3. Snapshots
    BY DEF Init, Snapshots
  <2> QED BY <2>2, <2>3
<1>2. ASSUME Inv, Records, Snapshots, [Next]_vars
      PROVE  Records' /\ Snapshots'
  <2>1. Types
    BY <1>2 DEF Inv
  <2>2. \A b \in Graded : outcomes'[b] = outcomes[b] /\ b \in Graded'
    BY <1>2 DEF Inv, Types, Next, LoadBet, FetchMetric, CompareOutcome, CommitOutcome,
                UpdateCalibration, ReportOutcome, Crash, Graded, vars
  <2>3. early' \in [Reviewer -> Calibration]
    <3>1. ASSUME NEW r \in Reviewer, UpdateCalibration(r)
          PROVE  early' \in [Reviewer -> Calibration]
      BY <1>2, <2>1, <3>1, CalibrationType DEF UpdateCalibration, ComputeCalibration, Records
    <3>2. CASE UNCHANGED early
      BY <1>2, <3>2 DEF Records
    <3> QED BY <1>2, <3>1, <3>2 DEF Next, LoadBet, FetchMetric, CompareOutcome,
                CommitOutcome, ReportOutcome, Crash, vars
  <2>4. PICK C \in SUBSET SUBSET Graded :
          /\ \A S, T \in C : S \subseteq T \/ T \subseteq S
          /\ \A x \in reports : \E S \in C : x.bet \in S /\ x.calibration = CalibrationOf(S)
    BY <1>2 DEF Snapshots
  <2>5. C \in SUBSET SUBSET Graded' /\ \A S \in C : CalibrationOf(S)' = CalibrationOf(S)
    BY <2>2, CalibrationStays
  <2>6. CASE reports' = reports
    <3>1. Snapshots'
      BY <2>4, <2>5, <2>6 DEF Snapshots
    <3> QED BY <1>2, <2>3, <2>6, <3>1 DEF Records
  <2>7. ASSUME NEW r \in Reviewer, ReportOutcome(r), actual[r] # NoLift,
               NEW x, reports' = reports \cup {x},
               x = [by |-> r, bet |-> bet[r], actual |-> actual[r],
                    delta |-> Delta(actual[r]), supports |-> Supports(actual[r]),
                    calibration |-> CalibrationView(r)]
        PROVE  Records' /\ Snapshots'
    <3>1. bet[r] \in Graded /\ pc[r] = "report_outcome"
      BY <1>2, <2>7 DEF Inv, Follows, ReportOutcome
    <3>2. x.bet \in Graded /\ x.calibration = CalibrationOf(Graded)
      BY <2>7, <3>1 DEF CalibrationView, ComputeCalibration
    <3>3. UNCHANGED outcomes /\ Graded' = Graded
      BY <2>7 DEF ReportOutcome, Graded
    <3>4. CalibrationOf(Graded)' = CalibrationOf(Graded)
      BY <2>2, <3>3, CalibrationStays
    <3>5. x \in Report
      <4>1. actual[r] \in Lift /\ bet[r] \in Bet
        BY <2>1, <2>7, <3>1 DEF Types, Graded
      <4>2. Delta(actual[r]) \in Int
        BY <4>1, DeltaIsInt
      <4>3. Supports(actual[r]) \in BOOLEAN
        BY DEF Supports
      <4>4. CalibrationView(r) \in Calibration
        BY <2>1, CalibrationType DEF CalibrationView, ComputeCalibration
      <4> QED BY <2>7, <4>1, <4>2, <4>3, <4>4 DEF Report
    <3>6. Snapshots'
      <4> DEFINE D == C \cup {Graded}
      <4>1. D \in SUBSET SUBSET Graded'
        BY <3>3
      <4>2. \A S, T \in D : S \subseteq T \/ T \subseteq S
        BY <2>4
      <4>3. \A y \in reports' : \E S \in D :
              y.bet \in S /\ y.calibration = CalibrationOf(S)'
        BY <2>4, <2>5, <2>7, <3>2, <3>3, <3>4
      <4> QED BY <4>1, <4>2, <4>3 DEF Snapshots
    <3> QED BY <1>2, <2>3, <2>7, <3>5, <3>6 DEF Records
  <2> QED BY <1>2, <2>6, <2>7 DEF Next, LoadBet, FetchMetric, CompareOutcome,
              CommitOutcome, UpdateCalibration, ReportOutcome, Crash, vars
<1> QED BY <1>1, <1>2, Invariance, PTL DEF Spec

\* The outcomes, the reports and the reviewers keep their types: the sums of a
\* calibration are natural numbers, also of an empty table.
THEOREM TypeCorrect == Spec => []TypeOK
<1>1. Inv /\ Records => TypeOK
  BY DEF Inv, Types, Records, TypeOK, Waiting
<1> QED BY <1>1, RecordsInvariant, PTL

\* Mean, hit rate and count of a report are those of one set of outcomes that
\* includes the reported bet, whatever is committed while it is written.
THEOREM CalibrationsAreSnapshots == Spec => []CalibrationIsOneSnapshot
<1>1. Snapshots => CalibrationIsOneSnapshot
  BY DEF Snapshots, CalibrationIsOneSnapshot
<1> QED BY <1>1, RecordsInvariant, PTL

\* Two reports of whatever reviewers never contradict each other on the PM's
\* record, for any number of bets.
THEOREM ReportsDoAgree == Spec => []ReportsAgree
<1>1. Inv /\ Snapshots => ReportsAgree
  <2> SUFFICES ASSUME Inv, Snapshots, NEW x \in reports, NEW y \in reports
               PROVE  LET c == x.calibration
                          d == y.calibration
                      IN  /\ c.n = d.n => c = d
                          /\ c.n < d.n => c.hits <= d.hits /\ c.deltas <= d.deltas
    BY DEF ReportsAgree
  <2>1. PICK S \in SUBSET Graded, T \in SUBSET Graded :
          /\ x.calibration = CalibrationOf(S) /\ y.calibration = CalibrationOf(T)
          /\ S \subseteq T \/ T \subseteq S
    BY DEF Snapshots
  <2>2. CASE S \subseteq T
    BY <2>1, <2>2, CalibrationGrows DEF Inv
  <2>3. CASE T \subseteq S
    BY <2>1, <2>3, CalibrationGrows DEF Inv
  <2> QED BY <2>1, <2>2, <2>3
<1> QED BY <1>1, RecordsInvariant, PTL
=============================================================================
