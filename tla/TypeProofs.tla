----------------------------- MODULE TypeProofs -----------------------------
(***************************************************************************)
(* Spec => []TypeOK, for every set of bets, workers and reviewers and every *)
(* choice of failing services.  TypeOK is not inductive alone: a worker    *)
(* about to commit a decision must hold an index, not None.                *)
(***************************************************************************)
EXTENDS Wager, TLAPS

\* What CheckDecision establishes for CommitDecision.
ChoiceMade ==
  \A p \in Worker : pc[p] = "commit_decision" => chosen[p] \in Index

TypeInv == TypeOK /\ ChoiceMade

-----------------------------------------------------------------------------
(* The tables keep their types under the updates the actions are made of.  *)

LEMMA Labels ==
  /\ {"absent", "EXTRACTING", "PENDING_CONFIRMATION", "CONFIRMED",
      "SCHEDULED", "RESOLVED"} \subseteq Status
  /\ {"extract_facts_empty", "slack_confirm_failed", "slack_resume_failed",
      "github_write_failed", "calendar_write_failed", "posthog_failed"}
       \subseteq FlagKind
  /\ {"null", "future", "arrived"} \subseteq ReviewDate
  BY DEF Status, FlagKind, ReviewDate

LEMMA StatusType ==
  ASSUME NEW table \in [Bet -> BetRow], NEW b \in Bet, NEW s \in Status
  PROVE  UpdateBetStatus(table, b, s) \in [Bet -> BetRow]
  BY DEF UpdateBetStatus, BetRow

LEMMA FlagType ==
  ASSUME NEW table \in [Bet -> BetRow], NEW b \in Bet, NEW f \in FlagKind
  PROVE  AppendFlag(table, b, f) \in [Bet -> BetRow]
  BY DEF AppendFlag, BetRow

LEMMA ColumnType ==
  ASSUME NEW table \in [Bet -> BetRow], NEW b \in Bet
  PROVE  /\ [table EXCEPT ![b].issueUrl = TRUE] \in [Bet -> BetRow]
         /\ [table EXCEPT ![b].eventId = TRUE] \in [Bet -> BetRow]
         /\ \A d \in ReviewDate :
              [table EXCEPT ![b].review = d] \in [Bet -> BetRow]
  BY DEF BetRow

LEMMA ReasoningType ==
  ASSUME NEW table \in [Bet -> Reasoning], NEW b \in Bet
  PROVE  [table EXCEPT ![b].hypothesis = "RESOLVED"] \in [Bet -> Reasoning]
  BY DEF Reasoning

-----------------------------------------------------------------------------
(* Phase 1.                                                                *)

WorkerTypes == StoreTypeOK /\ Phase1TypeOK /\ ChoiceMade

LEMMA WorkTypes ==
  ASSUME NEW p \in Worker, WorkerTypes, Work(p)
  PROVE  WorkerTypes'
<1>1. StoreTypeOK /\ Phase1TypeOK /\ ChoiceMade
  BY DEF WorkerTypes
<1>2. CASE DocsIntake(p)
  <2>1. StoreTypeOK'
    BY <1>2, <1>1, StatusType, Labels DEF StoreTypeOK, DocsIntake, At
  <2>2. Phase1TypeOK'
    BY <1>2, <1>1 DEF Phase1TypeOK, DocsIntake, At, Goto, outside, Busy, Ended
  <2>3. ChoiceMade'
    BY <1>2, <1>1 DEF ChoiceMade, DocsIntake, Goto, Phase1TypeOK
  <2> QED BY <2>1, <2>2, <2>3 DEF WorkerTypes
<1>3. CASE ExtractFacts(p)
  <2>1. on[p] \in Bet
    BY <1>3 DEF ExtractFacts, At
  <2>2. bets' \in [Bet -> BetRow]
    BY <1>3, <1>1, <2>1, FlagType, Labels DEF StoreTypeOK, ExtractFacts
  <2>3. [graph EXCEPT ![on[p]].facts = TRUE] \in [Bet -> Reasoning]
    BY <1>1, <2>1 DEF StoreTypeOK, Reasoning
  <2>4. graph' \in {graph, [graph EXCEPT ![on[p]].facts = TRUE]}
    BY <1>3 DEF ExtractFacts
  <2>5. StoreTypeOK'
    BY <1>3, <1>1, <2>2, <2>3, <2>4 DEF StoreTypeOK, ExtractFacts
  <2>6. Phase1TypeOK' /\ ChoiceMade'
    BY <1>3, <1>1 DEF Phase1TypeOK, ChoiceMade, ExtractFacts, Goto, outside,
       Busy
  <2> QED BY <2>5, <2>6 DEF WorkerTypes
<1>4. CASE DeriveReasoning(p)
  <2>1. on[p] \in Bet
    BY <1>4 DEF DeriveReasoning, At
  <2>2. CASE UNCHANGED <<bets, graph, ckpt>>
    BY <1>4, <1>1, <2>2 DEF WorkerTypes, StoreTypeOK, Phase1TypeOK, ChoiceMade,
       DeriveReasoning, Goto, outside, Busy
  <2>3. ASSUME NEW n \in 0 .. MaxOptions, NEW d \in {"future", "arrived"},
               graph' = [graph EXCEPT ![on[p]].hypothesis = "ACTIVE",
                                      ![on[p]].options = n],
               bets' = [bets EXCEPT ![on[p]].review = d],
               ckpt' = [ckpt EXCEPT ![on[p]].next = "confirm_decision"]
        PROVE  WorkerTypes'
    <3>1. graph' \in [Bet -> Reasoning]
      BY <1>1, <2>1, <2>3 DEF StoreTypeOK, Reasoning
    <3>2. bets' \in [Bet -> BetRow]
      BY <1>1, <2>1, <2>3 DEF StoreTypeOK, BetRow, ReviewDate
    <3>3. ckpt' \in [Bet -> [next: NextNode, chosen: Index \cup {None}]]
      BY <1>1, <2>1, <2>3 DEF Phase1TypeOK, NextNode
    <3> QED
      BY <1>4, <1>1, <3>1, <3>2, <3>3 DEF WorkerTypes, StoreTypeOK,
         Phase1TypeOK, ChoiceMade, DeriveReasoning, Goto, outside, Busy
  <2> QED BY <1>4, <2>2, <2>3 DEF DeriveReasoning
<1>5. CASE PostConfirm(p)
  BY <1>5, <1>1 DEF WorkerTypes, StoreTypeOK, Phase1TypeOK, ChoiceMade,
     PostConfirm, At, Goto, tables, outside, Busy, Ended
<1>6. CASE FlagPending(p)
  BY <1>6, <1>1, StatusType, FlagType, Labels DEF WorkerTypes, StoreTypeOK,
     Phase1TypeOK, ChoiceMade, FlagPending, At, Goto, tables, outside, Busy,
     Ended
<1>7. CASE MarkPending(p)
  <2>1. StoreTypeOK'
    BY <1>7, <1>1, StatusType, Labels DEF StoreTypeOK, MarkPending, At
  <2>2. Phase1TypeOK'
    BY <1>7, <1>1 DEF Phase1TypeOK, MarkPending, At, Goto, outside, Busy,
       Ended
  <2>3. ChoiceMade'
    BY <1>7, <1>1 DEF ChoiceMade, MarkPending, Goto, Phase1TypeOK
  <2> QED BY <2>1, <2>2, <2>3 DEF WorkerTypes
<1>8. CASE SaveChoice(p)
  BY <1>8, <1>1 DEF WorkerTypes, StoreTypeOK, Phase1TypeOK, ChoiceMade,
     SaveChoice, At, Goto, tables, outside, Busy, Ended, Save, NextNode
<1>9. CASE CheckDecision(p)
  BY <1>9, <1>1 DEF WorkerTypes, StoreTypeOK, Phase1TypeOK, ChoiceMade,
     CheckDecision, At, Goto, tables, outside, Busy, Ended
<1>10. CASE CommitDecision(p)
  <2>1. on[p] \in Bet /\ chosen[p] \in Index
    BY <1>10, <1>1 DEF CommitDecision, At, ChoiceMade
  <2>2. bets' \in [Bet -> BetRow]
    BY <1>10, <1>1, <2>1, StatusType, Labels
       DEF StoreTypeOK, CommitDecision, StoreWriteDecision
  <2>3. decisions' \in [Bet -> SUBSET Decision]
    BY <1>10, <1>1, <2>1
       DEF StoreTypeOK, CommitDecision, StoreWriteDecision, Decision
  <2>4. StoreTypeOK'
    BY <1>10, <1>1, <2>2, <2>3
       DEF StoreTypeOK, CommitDecision, StoreWriteDecision
  <2>5. Phase1TypeOK' /\ ChoiceMade'
    BY <1>10, <1>1 DEF Phase1TypeOK, ChoiceMade, CommitDecision, Goto, outside,
       Busy
  <2> QED BY <2>4, <2>5 DEF WorkerTypes
<1>11. CASE SaveDecision(p)
  BY <1>11, <1>1 DEF WorkerTypes, StoreTypeOK, Phase1TypeOK, ChoiceMade,
     SaveDecision, At, Goto, tables, outside, Busy, Ended, Save, NextNode
<1>12. CASE ListIssues(p)
  BY <1>12, <1>1 DEF WorkerTypes, StoreTypeOK, Phase1TypeOK, ChoiceMade,
     ListIssues, At, Goto, tables, outside, Busy, Ended
<1>13. CASE CreateIssue(p)
  <2>1. on[p] \in Bet
    BY <1>13 DEF CreateIssue, At
  <2>2. [issues EXCEPT ![on[p]] = @ \cup {p}] \in [Bet -> SUBSET Worker]
    BY <1>1, <2>1 DEF Phase1TypeOK
  <2>3. issues' \in {issues, [issues EXCEPT ![on[p]] = @ \cup {p}]}
    BY <1>13 DEF CreateIssue
  <2>4. issues' \in [Bet -> SUBSET Worker]
    BY <1>1, <2>2, <2>3 DEF Phase1TypeOK
  <2>5. StoreTypeOK'
    BY <1>13, <1>1 DEF StoreTypeOK, CreateIssue, tables
  <2>6. Phase1TypeOK' /\ ChoiceMade'
    BY <1>13, <1>1, <2>4 DEF Phase1TypeOK, ChoiceMade, CreateIssue, Goto, Busy
  <2> QED BY <2>5, <2>6 DEF WorkerTypes
<1>14. CASE RecordIssue(p)
  <2>1. StoreTypeOK'
    BY <1>14, <1>1, ColumnType, Labels DEF StoreTypeOK, RecordIssue, At
  <2>2. Phase1TypeOK'
    BY <1>14, <1>1 DEF Phase1TypeOK, RecordIssue, At, Goto, outside, Busy,
       Ended
  <2>3. ChoiceMade'
    BY <1>14, <1>1 DEF ChoiceMade, RecordIssue, Goto, Phase1TypeOK
  <2> QED BY <2>1, <2>2, <2>3 DEF WorkerTypes
<1>15. CASE FlagIssue(p)
  BY <1>15, <1>1, FlagType, Labels DEF WorkerTypes, StoreTypeOK, Phase1TypeOK,
     ChoiceMade, FlagIssue, At, Goto, tables, outside, Busy, Ended
<1>16. CASE SaveLink(p)
  BY <1>16, <1>1 DEF WorkerTypes, StoreTypeOK, Phase1TypeOK, ChoiceMade,
     SaveLink, At, Goto, tables, outside, Busy, Ended, Save, NextNode
<1>17. CASE CreateEvent(p)
  <2>1. on[p] \in Bet
    BY <1>17 DEF CreateEvent, At
  <2>2. [events EXCEPT ![on[p]] = @ \cup {p}] \in [Bet -> SUBSET Worker]
    BY <1>1, <2>1 DEF Phase1TypeOK
  <2>3. events' \in {events, [events EXCEPT ![on[p]] = @ \cup {p}]}
    BY <1>17 DEF CreateEvent
  <2>4. events' \in [Bet -> SUBSET Worker]
    BY <1>1, <2>2, <2>3 DEF Phase1TypeOK
  <2>5. StoreTypeOK'
    BY <1>17, <1>1 DEF StoreTypeOK, CreateEvent, tables
  <2>6. Phase1TypeOK' /\ ChoiceMade'
    BY <1>17, <1>1, <2>4 DEF Phase1TypeOK, ChoiceMade, CreateEvent, Goto, Busy
  <2> QED BY <2>5, <2>6 DEF WorkerTypes
<1>18. CASE RecordEvent(p)
  <2>1. StoreTypeOK'
    BY <1>18, <1>1, StatusType, ColumnType, Labels DEF StoreTypeOK,
       RecordEvent, At
  <2>2. Phase1TypeOK'
    BY <1>18, <1>1 DEF Phase1TypeOK, RecordEvent, At, Goto, outside, Busy,
       Ended
  <2>3. ChoiceMade'
    BY <1>18, <1>1 DEF ChoiceMade, RecordEvent, Goto, Phase1TypeOK
  <2> QED BY <2>1, <2>2, <2>3 DEF WorkerTypes
<1>19. CASE FlagEvent(p)
  BY <1>19, <1>1, FlagType, Labels DEF WorkerTypes, StoreTypeOK, Phase1TypeOK,
     ChoiceMade, FlagEvent, At, Goto, tables, outside, Busy, Ended
<1>20. CASE SaveSchedule(p)
  BY <1>20, <1>1 DEF WorkerTypes, StoreTypeOK, Phase1TypeOK, ChoiceMade,
     SaveSchedule, At, Goto, tables, outside, Busy, Ended, Save, NextNode
<1>21. CASE HandleException(p)
  BY <1>21, <1>1, FlagType, Labels DEF WorkerTypes, StoreTypeOK, Phase1TypeOK,
     ChoiceMade, HandleException, At, Goto, tables, outside, Busy, Ended
<1> QED
  BY <1>2, <1>3, <1>4, <1>5, <1>6, <1>7, <1>8, <1>9, <1>10, <1>11, <1>12,
     <1>13, <1>14, <1>15, <1>16, <1>17, <1>18, <1>19, <1>20, <1>21 DEF Work

LEMMA StartTypes ==
  ASSUME NEW p \in Worker, WorkerTypes, Start(p)
  PROVE  WorkerTypes'
<1>1. StoreTypeOK /\ Phase1TypeOK /\ ChoiceMade
  BY DEF WorkerTypes
<1>2. ASSUME NEW b \in Bet, CreateBet(p, b)
      PROVE  WorkerTypes'
  <2>1. StoreTypeOK'
    BY <1>2, <1>1, StatusType, Labels DEF StoreTypeOK, CreateBet, StoreCreateBet
  <2>2. Phase1TypeOK' /\ ChoiceMade'
    BY <1>2, <1>1 DEF Phase1TypeOK, ChoiceMade, CreateBet, outside, Busy
  <2> QED BY <2>1, <2>2 DEF WorkerTypes
<1>3. ASSUME NEW b \in Bet, NEW i \in Index, NEW how \in {"slack", "cli"},
             Resume(p, b, i, how)
      PROVE  WorkerTypes'
  <2>1. StoreTypeOK'
    BY <1>3, <1>1 DEF StoreTypeOK, Resume, tables
  <2>2. Phase1TypeOK'
    BY <1>3, <1>1 DEF Phase1TypeOK, Resume, outside, Busy, Ended, NextNode
  <2>3. ChoiceMade'
    BY <1>3, <1>1 DEF Phase1TypeOK, ChoiceMade, Resume, NextNode
  <2> QED BY <2>1, <2>2, <2>3 DEF WorkerTypes
<1>4. CASE CheckPending(p)
  BY <1>4, <1>1 DEF WorkerTypes, StoreTypeOK, Phase1TypeOK, ChoiceMade,
     CheckPending, Goto, tables, outside, Busy
<1> QED BY <1>2, <1>3, <1>4 DEF Start, SlackClick, CliConfirm

LEMMA CrashTypes ==
  ASSUME NEW p \in Worker, WorkerTypes, Crash(p)
  PROVE  WorkerTypes'
  BY DEF WorkerTypes, StoreTypeOK, Phase1TypeOK, ChoiceMade, Crash, Goto,
     tables, outside, Busy, Ended

-----------------------------------------------------------------------------
(* Phase 2.                                                                *)

LEMMA ReviewTypes ==
  ASSUME NEW r \in Reviewer, StoreTypeOK, Phase2TypeOK,
         StartCheck(r) \/ Review(r) \/ ReviewCrash(r)
  PROVE  StoreTypeOK' /\ Phase2TypeOK'
<1>1. CASE StartCheck(r)
  BY <1>1 DEF StartCheck, StoreTypeOK, Phase2TypeOK, DueBets, RGoto, tables
<1>2. ASSUME NEW b \in Bet, LoadBet(r, b)
      PROVE  StoreTypeOK' /\ Phase2TypeOK'
  BY <1>2 DEF LoadBet, StoreTypeOK, Phase2TypeOK, RGoto, EndReview, tables
<1>3. CASE FetchMetric(r)
  BY <1>3 DEF FetchMetric, StoreTypeOK, Phase2TypeOK, RGoto, RAt, tables
<1>4. CASE FlagMetric(r)
  BY <1>4, FlagType, Labels
     DEF FlagMetric, StoreTypeOK, Phase2TypeOK, RGoto, RAt
<1>5. CASE CompareOutcome(r)
  BY <1>5 DEF CompareOutcome, StoreTypeOK, Phase2TypeOK, RGoto, RAt, tables
<1>6. CASE CommitOutcome(r)
  <2>1. Phase2TypeOK'
    BY <1>6 DEF CommitOutcome, Phase2TypeOK, RGoto, EndReview
  <2>2. CASE UNCHANGED tables
    BY <2>1, <2>2 DEF StoreTypeOK, tables
  <2>3. CASE StoreWriteOutcome(reviewing[r], actual[r])
    <3>1. reviewing[r] \in Bet /\ actual[r] \in Grade \cup {"none"}
      BY <1>6 DEF CommitOutcome, RAt, Phase2TypeOK
    <3>2. bets' \in [Bet -> BetRow] /\ graph' \in [Bet -> Reasoning]
      BY <2>3, <3>1, StatusType, ReasoningType, Labels
         DEF StoreWriteOutcome, StoreTypeOK
    <3>3. grading' \in [Bet -> Edges]
      BY <2>3, <3>1 DEF StoreWriteOutcome, StoreTypeOK, Edges
    <3> QED
      BY <2>1, <2>3, <3>1, <3>2, <3>3 DEF StoreWriteOutcome, StoreTypeOK
  <2> QED BY <1>6, <2>2, <2>3 DEF CommitOutcome
<1>7. CASE ReportOutcome(r)
  <2>1. reviewing[r] \in Bet /\ actual[r] \in Grade \cup {"none"}
    BY <1>7 DEF ReportOutcome, RAt, Phase2TypeOK
  <2>2. reports' \in [Bet -> SUBSET Report]
    <3>1. ASSUME NEW to \in SUBSET Audience(r), actual[r] # "none"
          PROVE  [to: to, grade: {actual[r]}] \subseteq Report
      BY <2>1, <3>1 DEF Audience, Report
    <3> QED
      BY <1>7, <2>1, <3>1 DEF ReportOutcome, Phase2TypeOK
  <2> QED
    BY <1>7, <2>1, <2>2
       DEF ReportOutcome, EndReview, RGoto, StoreTypeOK, Phase2TypeOK, tables
<1>8. CASE EndCheck(r)
  BY <1>8 DEF EndCheck, StoreTypeOK, Phase2TypeOK, RGoto, tables
<1>9. CASE ReviewCrash(r)
  BY <1>9 DEF ReviewCrash, StoreTypeOK, Phase2TypeOK, EndReview, RGoto, tables
<1> QED
  BY <1>1, <1>2, <1>3, <1>4, <1>5, <1>6, <1>7, <1>8, <1>9 DEF Review

-----------------------------------------------------------------------------
LEMMA InitTypes == Init => TypeInv
  BY MaxOptionsAssumption
     DEF Init, StoreInit, Phase1Init, Phase2Init, TypeInv, TypeOK, StoreTypeOK,
         Phase1TypeOK, Phase2TypeOK, ChoiceMade, BetRow, Reasoning, Edges,
         Status, ReviewDate, NextNode

LEMMA NextTypes == TypeInv /\ [Next]_vars => TypeInv'
<1> SUFFICES ASSUME TypeInv, [Next]_vars
             PROVE  TypeInv'
  OBVIOUS
<1>1. WorkerTypes /\ Phase2TypeOK
  BY DEF TypeInv, TypeOK, WorkerTypes
<1>2. ASSUME NEW p \in Worker, Start(p) \/ Work(p) \/ Crash(p),
             UNCHANGED phase2Vars
      PROVE  TypeInv'
  <2>1. WorkerTypes'
    BY <1>1, <1>2, StartTypes, WorkTypes, CrashTypes
  <2>2. Phase2TypeOK'
    BY <1>1, <1>2 DEF Phase2TypeOK, phase2Vars
  <2> QED BY <2>1, <2>2 DEF TypeInv, TypeOK, WorkerTypes
<1>3. ASSUME NEW r \in Reviewer, StartCheck(r) \/ Review(r) \/ ReviewCrash(r),
             UNCHANGED phase1Vars
      PROVE  TypeInv'
  <2>1. StoreTypeOK' /\ Phase2TypeOK'
    BY <1>1, <1>3, ReviewTypes DEF WorkerTypes
  <2>2. Phase1TypeOK' /\ ChoiceMade'
    BY <1>1, <1>3 DEF WorkerTypes, Phase1TypeOK, ChoiceMade, phase1Vars
  <2> QED BY <2>1, <2>2 DEF TypeInv, TypeOK
<1>4. ASSUME NEW b \in Bet, DayPasses(b)
      PROVE  TypeInv'
  <2>1. StoreTypeOK'
    BY <1>1, <1>4, ColumnType, Labels DEF WorkerTypes, StoreTypeOK, DayPasses
  <2>2. Phase1TypeOK' /\ Phase2TypeOK' /\ ChoiceMade'
    BY <1>1, <1>4 DEF WorkerTypes, Phase1TypeOK, Phase2TypeOK, ChoiceMade,
       DayPasses, phase1Vars, phase2Vars
  <2> QED BY <2>1, <2>2 DEF TypeInv, TypeOK
<1>5. CASE UNCHANGED vars
  BY <1>1, <1>5 DEF TypeInv, TypeOK, WorkerTypes, StoreTypeOK, Phase1TypeOK,
     Phase2TypeOK, ChoiceMade, vars, tables, phase1Vars, phase2Vars
<1> QED
  BY <1>2, <1>3, <1>4, <1>5 DEF Next, Phase1Next, Phase2Next

LEMMA TypeInvariant == Spec => []TypeInv
  BY InitTypes, NextTypes, PTL DEF Spec

\* In every reachable state, whatever fails, crashes or overlaps, the tables,
\* the workers and the reviewers have their types.
THEOREM TypeCorrect == Spec => []TypeOK
<1>1. TypeInv => TypeOK
  BY DEF TypeInv
<1> QED BY <1>1, TypeInvariant, PTL
=============================================================================
