---------------------------- MODULE SerialProofs ----------------------------
(***************************************************************************)
(* The properties of Calm for every set of bets, workers and reviewers,    *)
(* when resumes of a bet wait for each other (Overlap = FALSE): at most    *)
(* one decision, one issue, a status that advances, a decision that is     *)
(* pursued, and that the program implements BetPromise.  Processes may     *)
(* die and services fail as they like, and reviews overlap with anything.  *)
(* It also proves how far three of the Claims reach, one of them with      *)
(* overlapping resumes too.                                                *)
(***************************************************************************)
EXTENDS Calm, Claims, SafetyProofs, FiniteSetTheorems

\* A worker's places before its thread has a choice.
Before == Early \cup {"confirm_decision", "mark_pending", "flag_pending",
                      "save_choice"}

\* Its places between the decision and the outcome of schedule_review.
Pursuing == Late \ {"save_schedule"}

\* One worker at a time is in the middle of a bet.
OneAtATime ==
  \A p, q \in Worker :
    (on[p] \in Bet /\ on[q] = on[p] /\ pc[p] \in Busy /\ pc[q] \in Busy) => p = q

\* Who has still to choose or to insert works on an undecided bet, and so does
\* who resumes at confirm_decision; a choice is in the checkpoint first.
Undecided ==
  /\ \A p \in Worker :
       on[p] \in Bet /\ pc[p] \in Before \cup {"commit_decision"}
         => decisions[on[p]] = {}
  /\ \A p \in Worker :
       on[p] \in Bet /\ pc[p] \in {"write_decision", "commit_decision"}
         => ckpt[on[p]].next = "write_decision"
  /\ \A b \in Bet : ckpt[b].next \in {"none", "confirm_decision"}
                      => decisions[b] = {}

\* The first node finds the status that create_bet has set.
Fresh ==
  \A p \in Worker : on[p] \in Bet /\ pc[p] = "docs_intake"
                      => bets[on[p]].status = "EXTRACTING"

UniqueDecision == \A b \in Bet : \A d, e \in decisions[b] : d = e

Settled(b) ==
  bets[b].status \in {"SCHEDULED", "RESOLVED"} \/ bets[b].flags # {}

\* A decided bet is settled, or a worker is on the way to settle it or died.
Pursued ==
  \A b \in Bet : decisions[b] # {} =>
    \/ Settled(b)
    \/ \E p \in Worker : on[p] = b /\ pc[p] \in Pursuing \cup {"crashed"}

SerialInv == OneAtATime /\ Undecided /\ Fresh /\ UniqueDecision /\ Pursued

\* Who is about to create an issue found none.
UniqueIssue ==
  /\ \A p \in Worker : on[p] \in Bet /\ pc[p] = "create_issue"
                         => issues[on[p]] = {}
  /\ \A b \in Bet : \A p, q \in issues[b] : p = q

-----------------------------------------------------------------------------
(* What the steps of each process do to what these speak of.               *)

\* Whoever starts had no bet; only create_bet writes a table.
LEMMA StartStep ==
  ASSUME NEW p \in Worker, TypeInv, Located, Start(p)
  PROVE  /\ on[p] = NoBet /\ pc[p] \notin Busy
         /\ UNCHANGED <<decisions, outcomes, ckpt, issues>>
         /\ \/ on' = on /\ UNCHANGED <<bets, via, click>>
               /\ pc' = [pc EXCEPT ![p] = "create_bet"]
            \/ \E b \in Bet : CreateBet(p, b)
            \/ \E b \in Bet, i \in Index, how \in {"slack", "cli"} :
                 Resume(p, b, i, how)
BY DEF Start, CheckPending, CreateBet, StoreCreateBet, SlackClick, CliConfirm,
       Resume, Goto, Located, Busy, tables, outside

\* A busy worker stays on its bet.
LEMMA WorkerStep ==
  ASSUME NEW p \in Worker, TypeInv, Work(p) \/ Crash(p)
  PROVE  /\ pc[p] \in Busy
         /\ UNCHANGED <<on, via, click>>
         /\ \E l \in Busy \cup Ended : pc' = [pc EXCEPT ![p] = l]
<1> USE DEF At, Goto, Busy, Ended
<1>1. CASE DocsIntake(p) \/ ExtractFacts(p) \/ DeriveReasoning(p)
  BY <1>1 DEF DocsIntake, ExtractFacts, DeriveReasoning
<1>2. CASE PostConfirm(p) \/ FlagPending(p) \/ MarkPending(p)
  BY <1>2 DEF PostConfirm, FlagPending, MarkPending
<1>3. CASE SaveChoice(p) \/ CheckDecision(p) \/ CommitDecision(p) \/ SaveDecision(p)
  BY <1>3 DEF SaveChoice, CheckDecision, CommitDecision, SaveDecision
<1>4. CASE ListIssues(p) \/ CreateIssue(p) \/ RecordIssue(p) \/ FlagIssue(p)
             \/ SaveLink(p)
  BY <1>4 DEF ListIssues, CreateIssue, RecordIssue, FlagIssue, SaveLink
<1>5. CASE CreateEvent(p) \/ RecordEvent(p) \/ FlagEvent(p) \/ SaveSchedule(p)
  BY <1>5 DEF CreateEvent, RecordEvent, FlagEvent, SaveSchedule
<1>6. CASE HandleException(p) \/ Crash(p)
  BY <1>6 DEF HandleException, Crash
<1> QED BY <1>1, <1>2, <1>3, <1>4, <1>5, <1>6 DEF Work

\* Where it may come to, and from where.
LEMMA PlaceStep ==
  ASSUME NEW p \in Worker, TypeInv, Work(p) \/ Crash(p)
  PROVE  /\ pc'[p] # "docs_intake"
         /\ pc'[p] \in Before => pc[p] \in Before
         /\ pc'[p] = "commit_decision" => decisions[on[p]] = {}
         /\ on[p] \in Bet /\ pc'[p] \in {"write_decision", "commit_decision"}
              => \/ ckpt'[on[p]].next = "write_decision"
                 \/ pc[p] = "write_decision" /\ ckpt' = ckpt
         /\ pc'[p] = "create_issue" => issues[on[p]] = {} \/ BusyTracker
         /\ pc[p] \in Pursuing
              => \/ pc'[p] \in Pursuing \cup {"crashed"}
                 \/ RecordEvent(p) \/ FlagEvent(p)
<1> USE DEF At, Goto, Busy, Ended, TypeInv, TypeOK, Phase1TypeOK, Before, Early,
            Pursuing, Late
<1>1. CASE DocsIntake(p) \/ ExtractFacts(p) \/ DeriveReasoning(p)
  BY <1>1 DEF DocsIntake, ExtractFacts, DeriveReasoning
<1>2. CASE PostConfirm(p) \/ FlagPending(p) \/ MarkPending(p)
  BY <1>2 DEF PostConfirm, FlagPending, MarkPending
<1>3. CASE SaveChoice(p) \/ CheckDecision(p) \/ CommitDecision(p) \/ SaveDecision(p)
  BY <1>3 DEF SaveChoice, CheckDecision, CommitDecision, SaveDecision,
              DecisionAllowed, Save
<1>4. CASE ListIssues(p) \/ CreateIssue(p) \/ RecordIssue(p) \/ FlagIssue(p)
             \/ SaveLink(p)
  BY <1>4 DEF ListIssues, CreateIssue, RecordIssue, FlagIssue, SaveLink
<1>5. CASE CreateEvent(p) \/ RecordEvent(p) \/ FlagEvent(p) \/ SaveSchedule(p)
  BY <1>5 DEF CreateEvent, RecordEvent, FlagEvent, SaveSchedule
<1>6. CASE HandleException(p) \/ Crash(p)
  BY <1>6 DEF HandleException, Crash
<1> QED BY <1>1, <1>2, <1>3, <1>4, <1>5, <1>6 DEF Work

\* Work kills nobody.
LEMMA PlaceAlive ==
  ASSUME NEW p \in Worker, TypeInv, Work(p)
  PROVE  pc'[p] # "crashed" /\ \A q \in Worker \ {p} : pc'[q] = pc[q]
<1> USE DEF At, Goto, TypeInv, TypeOK, Phase1TypeOK
<1>1. CASE DocsIntake(p) \/ ExtractFacts(p) \/ DeriveReasoning(p)
  BY <1>1 DEF DocsIntake, ExtractFacts, DeriveReasoning
<1>2. CASE PostConfirm(p) \/ FlagPending(p) \/ MarkPending(p)
  BY <1>2 DEF PostConfirm, FlagPending, MarkPending
<1>3. CASE SaveChoice(p) \/ CheckDecision(p) \/ CommitDecision(p) \/ SaveDecision(p)
  BY <1>3 DEF SaveChoice, CheckDecision, CommitDecision, SaveDecision
<1>4. CASE ListIssues(p) \/ CreateIssue(p) \/ RecordIssue(p) \/ FlagIssue(p)
             \/ SaveLink(p)
  BY <1>4 DEF ListIssues, CreateIssue, RecordIssue, FlagIssue, SaveLink
<1>5. CASE CreateEvent(p) \/ RecordEvent(p) \/ FlagEvent(p) \/ SaveSchedule(p)
  BY <1>5 DEF CreateEvent, RecordEvent, FlagEvent, SaveSchedule
<1>6. CASE HandleException(p)
  BY <1>6 DEF HandleException
<1> QED BY <1>1, <1>2, <1>3, <1>4, <1>5, <1>6 DEF Work

\* Decisions come from commit_decision, issues from create_issue, outcomes from
\* nowhere in Phase 1; a checkpoint before the choice comes from derive_reasoning.
LEMMA TableStep ==
  ASSUME NEW p \in Worker, TypeInv, Work(p) \/ Crash(p)
  PROVE  /\ CommitDecision(p) \/ decisions' = decisions
         /\ CreateIssue(p) \/ issues' = issues
         /\ outcomes' = outcomes
         /\ \A b \in Bet :
              ckpt'[b].next \in {"none", "confirm_decision"}
                => ckpt'[b] = ckpt[b] \/ (b = on[p] /\ pc[p] \in Before)
         /\ \A b \in Bet : b # on[p] => ckpt'[b] = ckpt[b]
<1> USE DEF At, Save, tables, outside, TypeInv, TypeOK, Phase1TypeOK, Before, Early
<1>1. CASE DocsIntake(p) \/ ExtractFacts(p) \/ DeriveReasoning(p)
  BY <1>1 DEF DocsIntake, ExtractFacts, DeriveReasoning
<1>2. CASE PostConfirm(p) \/ FlagPending(p) \/ MarkPending(p)
  BY <1>2 DEF PostConfirm, FlagPending, MarkPending
<1>3. CASE SaveChoice(p) \/ CheckDecision(p) \/ CommitDecision(p) \/ SaveDecision(p)
  BY <1>3 DEF SaveChoice, CheckDecision, CommitDecision, SaveDecision,
              StoreWriteDecision
<1>4. CASE ListIssues(p) \/ CreateIssue(p) \/ RecordIssue(p) \/ FlagIssue(p)
             \/ SaveLink(p)
  BY <1>4 DEF ListIssues, CreateIssue, RecordIssue, FlagIssue, SaveLink
<1>5. CASE CreateEvent(p) \/ RecordEvent(p) \/ FlagEvent(p) \/ SaveSchedule(p)
  BY <1>5 DEF CreateEvent, RecordEvent, FlagEvent, SaveSchedule
<1>6. CASE HandleException(p) \/ Crash(p)
  BY <1>6 DEF HandleException, Crash
<1> QED BY <1>1, <1>2, <1>3, <1>4, <1>5, <1>6 DEF Work

\* Which status a step of a worker writes; flags are only added.
LEMMA StatusStep ==
  ASSUME NEW p \in Worker, TypeInv, Work(p) \/ Crash(p), NEW b \in Bet
  PROVE  /\ bets[b].flags \subseteq bets'[b].flags
         /\ bets'[b].status = bets[b].status
              \/ /\ b = on[p]
                 /\ \/ pc[p] = "docs_intake" /\ bets'[b].status = "EXTRACTING"
                    \/ /\ pc[p] \in {"mark_pending", "flag_pending"}
                       /\ bets'[b].status = "PENDING_CONFIRMATION"
                    \/ pc[p] = "commit_decision" /\ bets'[b].status = "CONFIRMED"
                    \/ pc[p] = "record_event" /\ bets'[b].status = "SCHEDULED"
<1> USE DEF At, Save, tables, TypeInv, TypeOK, StoreTypeOK, BetRow,
            UpdateBetStatus, AppendFlag
<1>1. CASE DocsIntake(p) \/ ExtractFacts(p) \/ DeriveReasoning(p)
  <2>1. CASE DocsIntake(p)
    BY <2>1 DEF DocsIntake
  <2>2. CASE ExtractFacts(p)
    <3>1. bets' = bets \/ bets' = AppendFlag(bets, on[p], "extract_facts_empty")
      BY <2>2 DEF ExtractFacts
    <3> QED BY <2>2, <3>1 DEF ExtractFacts
  <2>3. CASE DeriveReasoning(p)
    <3>1. bets' = bets \/ \E d \in ReviewDate : bets' = [bets EXCEPT ![on[p]].review = d]
      BY <2>3 DEF DeriveReasoning, ReviewDate
    <3>2. on[p] \in Bet
      BY <2>3 DEF DeriveReasoning
    <3>3. ASSUME NEW d \in ReviewDate, bets' = [bets EXCEPT ![on[p]].review = d]
          PROVE  bets'[b].flags = bets[b].flags /\ bets'[b].status = bets[b].status
      BY <3>2, <3>3
    <3> HIDE DEF TypeInv, TypeOK, StoreTypeOK, BetRow
    <3> QED BY <3>1, <3>3
  <2> QED BY <1>1, <2>1, <2>2, <2>3
<1>2. CASE PostConfirm(p) \/ FlagPending(p) \/ MarkPending(p)
  BY <1>2 DEF PostConfirm, FlagPending, MarkPending
<1>3. CASE SaveChoice(p) \/ CheckDecision(p) \/ CommitDecision(p) \/ SaveDecision(p)
  <2>1. CASE CommitDecision(p)
    BY <2>1 DEF CommitDecision, StoreWriteDecision
  <2>2. CASE SaveChoice(p) \/ CheckDecision(p) \/ SaveDecision(p)
    BY <2>2 DEF SaveChoice, CheckDecision, SaveDecision
  <2> QED BY <1>3, <2>1, <2>2
<1>4. CASE ListIssues(p) \/ CreateIssue(p) \/ RecordIssue(p) \/ FlagIssue(p)
             \/ SaveLink(p)
  BY <1>4 DEF ListIssues, CreateIssue, RecordIssue, FlagIssue, SaveLink
<1>5. CASE CreateEvent(p) \/ RecordEvent(p) \/ FlagEvent(p) \/ SaveSchedule(p)
  BY <1>5 DEF CreateEvent, RecordEvent, FlagEvent, SaveSchedule
<1>6. CASE HandleException(p) \/ Crash(p)
  BY <1>6 DEF HandleException, Crash
<1> QED BY <1>1, <1>2, <1>3, <1>4, <1>5, <1>6 DEF Work

\* The two ends of schedule_review settle the bet.
LEMMA SettleStep ==
  ASSUME NEW p \in Worker, TypeInv, RecordEvent(p) \/ FlagEvent(p)
  PROVE  Settled(on[p])'
<1>1. on[p] \in Bet /\ bets[on[p]] \in BetRow /\ on' = on
  BY DEF RecordEvent, FlagEvent, At, Goto, TypeInv, TypeOK, StoreTypeOK
<1>2. CASE RecordEvent(p)
  BY <1>1, <1>2
     DEF RecordEvent, Settled, UpdateBetStatus, TypeInv, TypeOK, StoreTypeOK, BetRow
<1>3. CASE FlagEvent(p)
  BY <1>1, <1>3
     DEF FlagEvent, Settled, AppendFlag, TypeInv, TypeOK, StoreTypeOK, BetRow
<1> QED BY <1>2, <1>3

\* A reviewer only ever resolves a bet, together with its first outcome.
LEMMA ReviewStep ==
  ASSUME NEW r \in Reviewer, TypeInv, Reported,
         StartCheck(r) \/ Review(r) \/ ReviewCrash(r)
  PROVE  /\ decisions' = decisions
         /\ \A b \in Bet :
              /\ bets[b].flags \subseteq bets'[b].flags
              /\ bets'[b].status \in {bets[b].status, "RESOLVED"}
         /\ \/ outcomes' = outcomes
            \/ \E b \in Bet, g \in Grade :
                 outcomes[b] = "none" /\ outcomes' = [outcomes EXCEPT ![b] = g]
<1> USE DEF RAt, tables, TypeInv, TypeOK, StoreTypeOK, BetRow
<1>1. CASE StartCheck(r) \/ ReviewCrash(r) \/ EndCheck(r)
  BY <1>1 DEF StartCheck, ReviewCrash, EndCheck
<1>2. ASSUME NEW b \in Bet, LoadBet(r, b)
      PROVE  UNCHANGED tables
  BY <1>2 DEF LoadBet
<1>3. CASE FetchMetric(r) \/ CompareOutcome(r) \/ ReportOutcome(r)
  BY <1>3 DEF FetchMetric, CompareOutcome, ReportOutcome
<1>4. CASE FlagMetric(r)
  BY <1>4 DEF FlagMetric, AppendFlag
<1>5. CASE CommitOutcome(r)
  <2>1. actual[r] \in Grade /\ reviewing[r] \in Bet
    BY <1>5 DEF CommitOutcome, Reported
  <2>2. CASE UNCHANGED tables
    BY <2>2
  <2>3. CASE StoreWriteOutcome(reviewing[r], actual[r])
    BY <2>1, <2>3 DEF StoreWriteOutcome, UpdateBetStatus
  <2> QED BY <1>5, <2>2, <2>3 DEF CommitOutcome
<1> QED BY <1>1, <1>2, <1>3, <1>4, <1>5 DEF Review
-----------------------------------------------------------------------------
(* A click that fails, also when resumes overlap.                          *)

\* The safe half of ClickIsAnswered: a resume from Slack that has failed has left
\* its flag on the bet, which no step takes off.
ClickFailureIsFlagged ==
  \A p \in Worker : pc[p] = "failed" /\ via[p] = "slack"
    => on[p] \in Bet /\ "slack_resume_failed" \in bets[on[p]].flags

\* Only the exception handler ends a worker in failure.
LEMMA FailStep ==
  ASSUME NEW p \in Worker, TypeInv, Work(p) \/ Crash(p), pc'[p] = "failed"
  PROVE  HandleException(p)
<1> USE DEF At, Goto, TypeInv, TypeOK, Phase1TypeOK
<1>1. CASE DocsIntake(p) \/ ExtractFacts(p) \/ DeriveReasoning(p)
  BY <1>1 DEF DocsIntake, ExtractFacts, DeriveReasoning
<1>2. CASE PostConfirm(p) \/ FlagPending(p) \/ MarkPending(p)
  BY <1>2 DEF PostConfirm, FlagPending, MarkPending
<1>3. CASE SaveChoice(p) \/ CheckDecision(p) \/ CommitDecision(p) \/ SaveDecision(p)
  BY <1>3 DEF SaveChoice, CheckDecision, CommitDecision, SaveDecision
<1>4. CASE ListIssues(p) \/ CreateIssue(p) \/ RecordIssue(p) \/ FlagIssue(p)
             \/ SaveLink(p)
  BY <1>4 DEF ListIssues, CreateIssue, RecordIssue, FlagIssue, SaveLink
<1>5. CASE CreateEvent(p) \/ RecordEvent(p) \/ FlagEvent(p) \/ SaveSchedule(p)
  BY <1>5 DEF CreateEvent, RecordEvent, FlagEvent, SaveSchedule
<1>6. CASE Crash(p)
  BY <1>6 DEF Crash
<1> QED BY <1>1, <1>2, <1>3, <1>4, <1>5, <1>6 DEF Work

LEMMA StayFlagged ==
  ASSUME ClickFailureIsFlagged,
         \A b \in Bet : bets[b].flags \subseteq bets'[b].flags,
         NEW p \in Worker, pc'[p] = "failed", via'[p] = "slack",
         pc'[p] = pc[p], via'[p] = via[p], on'[p] = on[p]
  PROVE  on'[p] \in Bet /\ "slack_resume_failed" \in bets'[on'[p]].flags
BY DEF ClickFailureIsFlagged

LEMMA NextFlagged ==
  ASSUME TypeInv, Inv, ClickFailureIsFlagged, [Next]_vars
  PROVE  ClickFailureIsFlagged'
<1> SUFFICES ASSUME NEW q \in Worker, pc'[q] = "failed", via'[q] = "slack"
             PROVE  on'[q] \in Bet /\ "slack_resume_failed" \in bets'[on'[q]].flags
  BY DEF ClickFailureIsFlagged
<1>1. ASSUME NEW p \in Worker, Start(p)
      PROVE  on'[q] \in Bet /\ "slack_resume_failed" \in bets'[on'[q]].flags
  <2> DEFINE Added == \A b \in Bet : bets[b].flags \subseteq bets'[b].flags
             Others == pc'[p] # "failed" /\ \A r \in Worker \ {p} :
                         pc'[r] = pc[r] /\ via'[r] = via[r] /\ on'[r] = on[r]
  <2>1. ASSUME NEW b \in Bet, CreateBet(p, b)
        PROVE  Added /\ Others
    <3>1. bets' = [bets EXCEPT ![b].status = "EXTRACTING"]
      BY <2>1 DEF CreateBet, StoreCreateBet, UpdateBetStatus
    <3>2. Added
      BY <3>1 DEF TypeInv, TypeOK, StoreTypeOK, BetRow
    <3> QED BY <2>1, <3>2 DEF CreateBet, TypeInv, TypeOK, Phase1TypeOK
  <2>2. ASSUME NEW b \in Bet, NEW i \in Index, NEW how \in {"slack", "cli"},
               Resume(p, b, i, how)
        PROVE  Added /\ Others
    <3>1. ckpt[b].next \in NextNode
      BY DEF TypeInv, TypeOK, Phase1TypeOK
    <3> QED BY <2>2, <3>1
            DEF Resume, NextNode, tables, TypeInv, TypeOK, Phase1TypeOK
  <2>3. ASSUME on' = on, UNCHANGED <<bets, via>>,
               pc' = [pc EXCEPT ![p] = "create_bet"]
        PROVE  Added /\ Others
    BY <2>3 DEF TypeInv, TypeOK, Phase1TypeOK
  <2> HIDE DEF Added, Others
  <2>4. Added /\ Others
    BY <1>1, <2>1, <2>2, <2>3, StartStep DEF Inv
  <2>5. q # p /\ pc'[q] = pc[q] /\ via'[q] = via[q] /\ on'[q] = on[q]
    BY <2>4 DEF Others
  <2> QED BY <2>4, <2>5, StayFlagged DEF Added
<1>2. ASSUME NEW p \in Worker, Work(p) \/ Crash(p)
      PROVE  on'[q] \in Bet /\ "slack_resume_failed" \in bets'[on'[q]].flags
  <2>1. /\ UNCHANGED <<on, via>> /\ pc[p] \in Busy
        /\ \A r \in Worker \ {p} : pc'[r] = pc[r]
    BY <1>2, WorkerStep DEF TypeInv, TypeOK, Phase1TypeOK
  <2>2. \A b \in Bet : bets[b].flags \subseteq bets'[b].flags
    BY <1>2, StatusStep
  <2>3. CASE q = p
    <3>1. HandleException(p)
      BY <1>2, <2>3, FailStep
    <3> QED BY <2>1, <2>3, <3>1
            DEF HandleException, At, AppendFlag, TypeInv, TypeOK, StoreTypeOK, BetRow
  <2> QED BY <2>1, <2>2, <2>3, StayFlagged
<1>3. ASSUME NEW r \in Reviewer, StartCheck(r) \/ Review(r) \/ ReviewCrash(r),
             UNCHANGED phase1Vars
      PROVE  on'[q] \in Bet /\ "slack_resume_failed" \in bets'[on'[q]].flags
  BY <1>3, ReviewStep, StayFlagged DEF Inv, phase1Vars
<1>4. ASSUME NEW b \in Bet, DayPasses(b)
      PROVE  on'[q] \in Bet /\ "slack_resume_failed" \in bets'[on'[q]].flags
  BY <1>4, StayFlagged
     DEF DayPasses, phase1Vars, TypeInv, TypeOK, StoreTypeOK, BetRow
<1>5. CASE UNCHANGED vars
  BY <1>5, StayFlagged DEF vars, tables, phase1Vars
<1> QED BY <1>1, <1>2, <1>3, <1>4, <1>5 DEF Next, Phase1Next, Phase2Next

\* README.md:61-63 holds of the Slack route: a resume that fails is never silent,
\* whoever else clicks, dies or reviews.  FailureLeavesFlag, which TLC refutes,
\* is about the runs that nobody clicked for.
THEOREM FailedClicksAreFlagged == Spec => []ClickFailureIsFlagged
<1>1. Init => ClickFailureIsFlagged
  BY DEF Init, Phase1Init, ClickFailureIsFlagged
<1>2. TypeInv /\ Inv /\ ClickFailureIsFlagged /\ [Next]_vars
        => ClickFailureIsFlagged'
  BY NextFlagged
<1> QED BY <1>1, <1>2, SafetyInvariant, PTL DEF Spec

-----------------------------------------------------------------------------
(* One worker at a time.                                                   *)

\* Nothing happens to the decided bets and to those who work on them.
LEMMA PursuedStays ==
  ASSUME Pursued, decisions' = decisions,
         \A b \in Bet : decisions[b] # {} /\ Settled(b) => Settled(b)',
         \A q \in Worker : on[q] \in Bet => on'[q] = on[q] /\ pc'[q] = pc[q]
  PROVE  Pursued'
<1> SUFFICES ASSUME NEW b \in Bet, decisions[b] # {}, ~ Settled(b)'
             PROVE  \E q \in Worker :
                      on'[q] = b /\ pc'[q] \in Pursuing \cup {"crashed"}
  BY DEF Pursued
<1>1. PICK q \in Worker : on[q] = b /\ pc[q] \in Pursuing \cup {"crashed"}
  BY DEF Pursued
<1> QED BY <1>1

LEMMA StartSerial ==
  ASSUME Overlap = FALSE, NEW p \in Worker, TypeInv, Inv, SerialInv, Start(p)
  PROVE  SerialInv'
<1> USE DEF Inv, TypeInv, TypeOK, StoreTypeOK, Phase1TypeOK, BetRow, SerialInv,
            Before, Early, Pursuing, Late, Busy, Ended, Settled
<1>1. /\ on[p] = NoBet /\ pc[p] \notin Busy
      /\ UNCHANGED <<decisions, outcomes, ckpt, issues>>
  BY StartStep
<1>2. UniqueDecision'
  BY <1>1 DEF UniqueDecision
<1>3. CASE on' = on /\ UNCHANGED bets /\ pc' = [pc EXCEPT ![p] = "create_bet"]
  <2>1. OneAtATime' /\ Undecided' /\ Fresh'
    BY <1>1, <1>3 DEF OneAtATime, Undecided, Fresh
  <2>2. Pursued'
    <3>1. \A q \in Worker : on[q] \in Bet => on'[q] = on[q] /\ pc'[q] = pc[q]
      BY <1>1, <1>3, NoBetAssumption
    <3> QED BY <1>1, <1>3, <3>1, PursuedStays
  <2> QED BY <1>2, <2>1, <2>2
<1>4. ASSUME NEW b \in Bet, CreateBet(p, b)
      PROVE  SerialInv'
  <2>1. \A q \in Worker : on[q] # b
    BY <1>4 DEF CreateBet, StoreCreateBet, Located
  <2>2. decisions[b] = {}
    BY <1>4 DEF CreateBet, StoreCreateBet, FirstRun, Checkpointed
  <2>3. /\ on' = [on EXCEPT ![p] = b]
        /\ pc' = [pc EXCEPT ![p] = "docs_intake"]
        /\ bets' = [bets EXCEPT ![b].status = "EXTRACTING"]
    BY <1>4 DEF CreateBet, StoreCreateBet, UpdateBetStatus
  <2>4. OneAtATime'
    BY <1>1, <2>1, <2>3 DEF OneAtATime
  <2>5. Undecided' /\ Fresh'
    BY <1>1, <2>1, <2>2, <2>3 DEF Undecided, Fresh
  <2>6. Pursued'
    <3>1. \A q \in Worker : on[q] \in Bet => on'[q] = on[q] /\ pc'[q] = pc[q]
      BY <1>1, <2>3, NoBetAssumption
    <3>2. \A c \in Bet : decisions[c] # {} /\ Settled(c) => Settled(c)'
      BY <2>2, <2>3
    <3> QED BY <1>1, <3>1, <3>2, PursuedStays
  <2> QED BY <1>2, <2>4, <2>5, <2>6
<1>5. ASSUME NEW b \in Bet, NEW i \in Index, NEW how \in {"slack", "cli"},
             Resume(p, b, i, how)
      PROVE  SerialInv'
  <2>1. \A q \in Worker : on[q] = b => pc[q] \notin Busy
    BY <1>5 DEF Resume, Quiet
  <2>2. /\ on' = [on EXCEPT ![p] = b]
        /\ \/ pc' = [pc EXCEPT ![p] = "finished"]
           \/ /\ pc' = [pc EXCEPT ![p] = ckpt[b].next]
              /\ ckpt[b].next \in {"confirm_decision", "write_decision",
                                   "link_github", "schedule_review"}
        /\ bets' = bets
    BY <1>5 DEF Resume, NextNode, tables
  <2>3. OneAtATime'
    BY <1>1, <2>1, <2>2 DEF OneAtATime
  <2>4. Undecided' /\ Fresh'
    BY <1>1, <2>1, <2>2 DEF Undecided, Fresh
  <2>5. Pursued'
    <3>1. \A q \in Worker : on[q] \in Bet => on'[q] = on[q] /\ pc'[q] = pc[q]
      BY <1>1, <2>2, NoBetAssumption
    <3> QED BY <1>1, <2>2, <3>1, PursuedStays
  <2> QED BY <1>2, <2>3, <2>4, <2>5
<1> QED BY <1>3, <1>4, <1>5, StartStep

LEMMA WorkSerial ==
  ASSUME NEW p \in Worker, TypeInv, Inv, SerialInv, Work(p) \/ Crash(p)
  PROVE  SerialInv'
<1>1. /\ pc[p] \in Busy /\ on' = on
      /\ \E l \in Busy \cup Ended : pc' = [pc EXCEPT ![p] = l]
  BY WorkerStep
<1> DEFINE b == on[p]
<1>2. \A q \in Worker \ {p} : pc'[q] = pc[q]
  BY <1>1 DEF TypeInv, TypeOK, Phase1TypeOK
<1>3. OneAtATime'
  BY <1>1, <1>2 DEF SerialInv, OneAtATime
<1>4. \A q \in Worker \ {p} : on[q] = b /\ b \in Bet => pc[q] \notin Busy
  BY <1>1 DEF SerialInv, OneAtATime
<1>5. ASSUME NEW c \in Bet
      PROVE  decisions'[c] = decisions[c] \/ (c = b /\ CommitDecision(p))
  BY TableStep
     DEF CommitDecision, StoreWriteDecision, TypeInv, TypeOK, StoreTypeOK
<1>6. CommitDecision(p) => /\ decisions[b] = {} /\ b \in Bet
                           /\ pc'[p] = "save_decision"
                           /\ decisions'[b] = {[by |-> p, option |-> chosen[p]]}
  BY <1>1 DEF CommitDecision, At, Goto, StoreWriteDecision, SerialInv,
              Undecided, TypeInv, TypeOK, StoreTypeOK, Phase1TypeOK
<1>7. UniqueDecision'
  BY <1>5, <1>6 DEF SerialInv, UniqueDecision
<1>8. Undecided'
  <2>1. ASSUME NEW q \in Worker, on[q] \in Bet,
               pc'[q] \in Before \cup {"commit_decision"}
        PROVE  decisions'[on[q]] = {}
    <3>1. decisions[on[q]] = {}
      BY <1>2, <2>1, PlaceStep DEF SerialInv, Undecided
    <3>2. CASE on[q] = b /\ CommitDecision(p)
      <4>1. q # p
        BY <1>6, <2>1, <3>2 DEF Before, Early
      <4>2. pc[q] \in Busy
        BY <1>2, <2>1, <4>1 DEF Before, Early, Busy
      <4> QED BY <1>4, <2>1, <3>2, <4>1, <4>2
    <3> QED BY <1>5, <2>1, <3>1, <3>2
  <2>2. ASSUME NEW q \in Worker, on[q] \in Bet,
               pc'[q] \in {"write_decision", "commit_decision"}
        PROVE  ckpt'[on[q]].next = "write_decision"
    <3>1. CASE q = p
      BY <2>2, <3>1, PlaceStep DEF SerialInv, Undecided
    <3>2. CASE q # p
      <4>1. on[q] # b
        BY <1>2, <1>4, <2>2, <3>2 DEF Busy
      <4>2. ckpt'[on[q]] = ckpt[on[q]]
        BY <2>2, <4>1, TableStep
      <4> QED BY <1>2, <2>2, <3>2, <4>2 DEF SerialInv, Undecided
    <3> QED BY <3>1, <3>2
  <2>3. ASSUME NEW c \in Bet, ckpt'[c].next \in {"none", "confirm_decision"}
        PROVE  decisions'[c] = {}
    <3>1. decisions[c] = {}
      BY <2>3, TableStep DEF SerialInv, Undecided
    <3>2. c = b /\ CommitDecision(p) => FALSE
      BY <2>3 DEF CommitDecision, At, SerialInv, Undecided
    <3> QED BY <1>5, <3>1, <3>2
  <2> QED BY <1>1, <2>1, <2>2, <2>3 DEF Undecided
<1>9. Fresh'
  BY <1>1, <1>2, <1>4, PlaceStep, StatusStep DEF SerialInv, Fresh, Busy
<1>10. Pursued'
  <2> SUFFICES ASSUME NEW c \in Bet, decisions'[c] # {}, ~ Settled(c)'
               PROVE  \E q \in Worker :
                        on'[q] = c /\ pc'[q] \in Pursuing \cup {"crashed"}
    BY DEF Pursued
  <2>1. CASE c = b /\ CommitDecision(p)
    BY <1>1, <1>6, <2>1 DEF Pursuing, Late
  <2>2. CASE ~ (c = b /\ CommitDecision(p))
    <3>1. decisions[c] # {}
      BY <1>5, <2>2
    <3>2. ~ Settled(c)
      <4>1. c = b => pc[p] \notin {"docs_intake", "mark_pending", "flag_pending",
                                 "commit_decision"}
        BY <3>1 DEF SerialInv, Undecided, Before, Early
      <4> QED BY <4>1, StatusStep DEF Settled
    <3>3. PICK q \in Worker : on[q] = c /\ pc[q] \in Pursuing \cup {"crashed"}
      BY <3>1, <3>2 DEF SerialInv, Pursued
    <3>4. CASE q # p
      BY <1>1, <1>2, <3>3, <3>4
    <3>5. CASE q = p
      <4>1. pc[p] \in Pursuing
        BY <1>1, <3>3, <3>5 DEF Busy
      <4>2. ~ (RecordEvent(p) \/ FlagEvent(p))
        BY <1>1, <3>3, <3>5, SettleStep
      <4> QED BY <1>1, <3>3, <3>5, <4>1, <4>2, PlaceStep
    <3> QED BY <3>4, <3>5
  <2> QED BY <2>1, <2>2
<1> QED BY <1>3, <1>7, <1>8, <1>9, <1>10 DEF SerialInv

LEMMA ReviewSerial ==
  ASSUME NEW r \in Reviewer, TypeInv, Inv, SerialInv,
         StartCheck(r) \/ Review(r) \/ ReviewCrash(r), UNCHANGED phase1Vars
  PROVE  SerialInv'
<1>1. /\ decisions' = decisions
      /\ \A b \in Bet : /\ bets[b].flags \subseteq bets'[b].flags
                        /\ bets'[b].status \in {bets[b].status, "RESOLVED"}
  BY ReviewStep DEF Inv
<1>2. OneAtATime' /\ Undecided' /\ UniqueDecision'
  BY <1>1 DEF SerialInv, OneAtATime, Undecided, UniqueDecision, phase1Vars
<1>3. Fresh'
  <2> SUFFICES ASSUME NEW p \in Worker, on[p] \in Bet, pc[p] = "docs_intake"
               PROVE  bets'[on[p]].status = "EXTRACTING"
    BY DEF Fresh, phase1Vars
  <2>1. decisions[on[p]] = {}
    BY DEF SerialInv, Undecided, Before, Early
  <2>2. ASSUME bets'[on[p]].status = "RESOLVED"
        PROVE  FALSE
    <3>1. Inv'
      BY Reviews
    <3> QED BY <1>1, <2>1, <2>2, <3>1 DEF Inv, Decided
  <2> QED BY <1>1, <2>2 DEF SerialInv, Fresh
<1>4. Pursued'
  BY <1>1, PursuedStays DEF SerialInv, phase1Vars, Settled
<1> QED BY <1>2, <1>3, <1>4 DEF SerialInv

LEMMA InitSerial == Init => SerialInv
<1> SUFFICES ASSUME Init
             PROVE  SerialInv
  OBVIOUS
<1> USE NoBetAssumption DEF Init, StoreInit, Phase1Init
<1>1. OneAtATime /\ Undecided /\ Fresh
  BY DEF OneAtATime, Undecided, Fresh
<1>2. UniqueDecision /\ Pursued
  BY DEF UniqueDecision, Pursued
<1> QED BY <1>1, <1>2 DEF SerialInv

LEMMA NextSerial ==
  ASSUME Overlap = FALSE, TypeInv, Inv, SerialInv, [Next]_vars
  PROVE  SerialInv'
<1>1. ASSUME NEW b \in Bet, DayPasses(b)
      PROVE  SerialInv'
  <2>1. /\ UNCHANGED <<decisions, phase1Vars>>
        /\ \A c \in Bet : /\ bets'[c].status = bets[c].status
                          /\ bets'[c].flags = bets[c].flags
    BY <1>1 DEF DayPasses, TypeInv, TypeOK, StoreTypeOK, BetRow
  <2>2. OneAtATime' /\ Undecided' /\ Fresh' /\ UniqueDecision'
    BY <2>1 DEF SerialInv, OneAtATime, Undecided, Fresh, UniqueDecision, phase1Vars
  <2>3. Pursued'
    BY <2>1, PursuedStays DEF SerialInv, phase1Vars, Settled
  <2> QED BY <2>2, <2>3 DEF SerialInv
<1>2. CASE UNCHANGED vars
  <2>1. OneAtATime' /\ Undecided' /\ Fresh' /\ UniqueDecision'
    BY <1>2 DEF SerialInv, OneAtATime, Undecided, Fresh, UniqueDecision, vars,
                tables, phase1Vars
  <2>2. Pursued'
    BY <1>2, PursuedStays DEF SerialInv, phase1Vars, Settled, vars, tables
  <2> QED BY <2>1, <2>2 DEF SerialInv
<1> QED
  BY <1>1, <1>2, StartSerial, WorkSerial, ReviewSerial
     DEF Next, Phase1Next, Phase2Next

LEMMA SerialInvariant ==
  ASSUME Overlap = FALSE
  PROVE  Spec => [](TypeInv /\ Inv /\ SerialInv)
<1>1. Init => SerialInv
  BY InitSerial
<1>2. TypeInv /\ Inv /\ SerialInv /\ [Next]_vars => SerialInv'
  BY NextSerial
<1> QED BY <1>1, <1>2, SafetyInvariant, PTL DEF Spec

-----------------------------------------------------------------------------
\* Resumes that wait for each other leave at most one DECISION node, also when
\* write_decision runs again after a crash between its commit and its checkpoint.
THEOREM DecisionsAreUnique ==
  ASSUME Overlap = FALSE
  PROVE  Spec => []AtMostOneDecision
<1>1. SerialInv => AtMostOneDecision
  <2> SUFFICES ASSUME SerialInv, NEW b \in Bet
               PROVE  Cardinality(decisions[b]) <= 1
    BY DEF AtMostOneDecision
  <2>1. CASE decisions[b] = {}
    BY <2>1, FS_EmptySet
  <2>2. ASSUME NEW d \in decisions[b]
        PROVE  Cardinality(decisions[b]) <= 1
    <3>1. decisions[b] = {d}
      BY DEF SerialInv, UniqueDecision
    <3>2. Cardinality({d}) = 1
      BY FS_Singleton
    <3> QED BY <3>1, <3>2
  <2> QED BY <2>1, <2>2
<1> QED BY <1>1, SerialInvariant, PTL

\* A decided bet is scheduled, graded or flagged unless its worker died.
THEOREM DecisionsAreSettled ==
  ASSUME Overlap = FALSE
  PROVE  Spec => []DecidedIsScheduledOrFlagged
<1>1. SerialInv => DecidedIsScheduledOrFlagged
  BY DEF SerialInv, Pursued, Settled, DecidedIsScheduledOrFlagged, Pursuing, Late,
         Ended
<1> QED BY <1>1, SerialInvariant, PTL

-----------------------------------------------------------------------------
(* One issue per bet.                                                      *)

LEMMA NextIssue ==
  ASSUME BusyTracker = FALSE, TypeInv, Inv, SerialInv, UniqueIssue, [Next]_vars
  PROVE  UniqueIssue'
<1>1. ASSUME UNCHANGED <<pc, on, issues>>
      PROVE  UniqueIssue'
  BY <1>1 DEF UniqueIssue
<1>2. ASSUME NEW p \in Worker, Start(p)
      PROVE  UniqueIssue'
  <2>1. issues' = issues
    BY <1>2, StartStep DEF Inv
  <2>2. \A q \in Worker : pc'[q] = "create_issue" => pc[q] = "create_issue" /\ q # p
    BY <1>2
       DEF Start, CheckPending, CreateBet, SlackClick, CliConfirm, Resume, Goto,
           NextNode, TypeInv, TypeOK, Phase1TypeOK
  <2>3. \A q \in Worker : q # p => on'[q] = on[q]
    BY <1>2
       DEF Start, CheckPending, CreateBet, SlackClick, CliConfirm, Resume, Goto,
           TypeInv, TypeOK, Phase1TypeOK
  <2> QED BY <2>1, <2>2, <2>3 DEF UniqueIssue
<1>3. ASSUME NEW p \in Worker, Work(p) \/ Crash(p)
      PROVE  UniqueIssue'
  <2>1. /\ pc[p] \in Busy /\ on' = on
        /\ \A q \in Worker \ {p} : pc'[q] = pc[q]
    BY <1>3, WorkerStep DEF TypeInv, TypeOK, Phase1TypeOK
  <2>2. CASE issues' = issues
    <3>1. pc'[p] = "create_issue" => issues[on[p]] = {}
      BY <1>3, PlaceStep
    <3> QED BY <2>1, <2>2, <3>1 DEF UniqueIssue
  <2>3. CASE CreateIssue(p)
    <3>1. /\ issues[on[p]] = {} /\ on[p] \in Bet /\ pc'[p] # "create_issue"
          /\ \A b \in Bet : b # on[p] => issues'[b] = issues[b]
          /\ issues'[on[p]] \subseteq {p}
      BY <2>3 DEF CreateIssue, At, Goto, UniqueIssue, TypeInv, TypeOK, Phase1TypeOK
    <3>2. \A q \in Worker \ {p} : on[q] = on[p] => pc[q] # "create_issue"
      BY <2>1, <3>1 DEF SerialInv, OneAtATime, Busy
    <3> QED BY <2>1, <3>1, <3>2 DEF UniqueIssue
  <2> QED BY <1>3, <2>2, <2>3, TableStep
<1> QED
  BY <1>1, <1>2, <1>3
     DEF Next, Phase1Next, Phase2Next, DayPasses, vars, phase1Vars

\* Every retry of link_github finds the issue of the try before it.
THEOREM IssuesAreUnique ==
  ASSUME Overlap = FALSE, BusyTracker = FALSE
  PROVE  Spec => []OneIssuePerBet
<1>1. Init => UniqueIssue
  BY NoBetAssumption DEF Init, Phase1Init, UniqueIssue
<1>2. TypeInv /\ Inv /\ SerialInv /\ UniqueIssue /\ [Next]_vars => UniqueIssue'
  BY NextIssue
<1>3. UniqueIssue => OneIssuePerBet
  <2> SUFFICES ASSUME UniqueIssue, NEW b \in Bet
               PROVE  Cardinality(issues[b]) <= 1
    BY DEF OneIssuePerBet
  <2>1. CASE issues[b] = {}
    BY <2>1, FS_EmptySet
  <2>2. ASSUME NEW p \in issues[b]
        PROVE  Cardinality(issues[b]) <= 1
    <3>1. issues[b] = {p}
      BY DEF UniqueIssue
    <3>2. Cardinality({p}) = 1
      BY FS_Singleton
    <3> QED BY <3>1, <3>2
  <2> QED BY <2>1, <2>2
<1> QED BY <1>1, <1>2, <1>3, SerialInvariant, PTL DEF Spec

-----------------------------------------------------------------------------
(* The status only advances.                                               *)

LEMMA Ranks ==
  /\ Rank("absent") = 0 /\ Rank("EXTRACTING") = 1
  /\ Rank("PENDING_CONFIRMATION") = 2 /\ Rank("CONFIRMED") = 3
  /\ Rank("SCHEDULED") = 4 /\ Rank("RESOLVED") = 5
BY DEF Rank

LEMMA NextAdvances ==
  ASSUME TypeInv, Inv, SerialInv, Next, NEW b \in Bet, outcomes[b] = "none"
  PROVE  Rank(bets'[b].status) >= Rank(bets[b].status)
<1>1. /\ bets[b].status \in Status
      /\ bets[b].status # "RESOLVED"
      /\ decisions[b] = {} => bets[b].status \notin {"CONFIRMED", "SCHEDULED"}
  BY DEF TypeInv, TypeOK, StoreTypeOK, BetRow, Inv, Reported, Decided
<1>2. CASE bets'[b].status = bets[b].status
  BY <1>1, <1>2, Ranks DEF Status
<1>3. ASSUME NEW p \in Worker, Start(p)
      PROVE  \/ bets'[b].status = bets[b].status
             \/ bets[b].status = "absent" /\ bets'[b].status = "EXTRACTING"
  <2>1. ASSUME NEW c \in Bet, CreateBet(p, c)
        PROVE  \/ bets'[b].status = bets[b].status
               \/ bets[b].status = "absent" /\ bets'[b].status = "EXTRACTING"
    BY <2>1 DEF CreateBet, StoreCreateBet, UpdateBetStatus, TypeInv, TypeOK,
                StoreTypeOK, BetRow
  <2>2. CASE bets' = bets
    BY <2>2
  <2> QED BY <1>3, <2>1, <2>2, StartStep DEF Resume, tables, Inv
<1>4. ASSUME NEW p \in Worker, Work(p) \/ Crash(p)
      PROVE  \/ bets'[b].status = bets[b].status
             \/ decisions[b] = {} /\ bets'[b].status \in {"PENDING_CONFIRMATION",
                                                          "CONFIRMED"}
             \/ bets'[b].status = "SCHEDULED"
  BY <1>4, StatusStep DEF SerialInv, Fresh, Undecided, Before, Early
<1>5. ASSUME NEW r \in Reviewer, StartCheck(r) \/ Review(r) \/ ReviewCrash(r)
      PROVE  bets'[b].status \in {bets[b].status, "RESOLVED"}
  BY <1>5, ReviewStep DEF Inv
<1>6. ASSUME NEW c \in Bet, DayPasses(c)
      PROVE  bets'[b].status = bets[b].status
  BY <1>6 DEF DayPasses, TypeInv, TypeOK, StoreTypeOK, BetRow
<1>7. \/ bets'[b].status = bets[b].status
      \/ bets[b].status = "absent" /\ bets'[b].status = "EXTRACTING"
      \/ decisions[b] = {} /\ bets'[b].status \in {"PENDING_CONFIRMATION",
                                                   "CONFIRMED"}
      \/ bets'[b].status \in {"SCHEDULED", "RESOLVED"}
  BY <1>3, <1>4, <1>5, <1>6 DEF Next, Phase1Next, Phase2Next
<1> QED BY <1>1, <1>2, <1>7, Ranks DEF Status

\* No node that runs again takes an ungraded bet back to an earlier status.
THEOREM StatusesAdvance ==
  ASSUME Overlap = FALSE
  PROVE  Spec => StatusAdvances
<1>1. TypeInv /\ Inv /\ SerialInv /\ [Next]_vars
        => [\A b \in Bet : outcomes[b] = "none"
              => Rank(bets'[b].status) >= Rank(bets[b].status)]_vars
  BY NextAdvances
<1> QED BY <1>1, SerialInvariant, PTL DEF Spec, StatusAdvances

-----------------------------------------------------------------------------
(* A thread that refuses every resume.                                     *)

\* A decision whose checkpoint still has to come: its worker is about to write
\* it, or died.
Committed ==
  \A b \in Bet : decisions[b] # {} /\ ckpt[b].next = "write_decision" =>
    \E p \in Worker : on[p] = b /\ pc[p] \in {"save_decision", "crashed"}

\* The one way to a checkpoint at write_decision, and the one away from the
\* commit of the decision, but for death.
LEMMA CheckpointStep ==
  ASSUME NEW p \in Worker, TypeInv, Work(p) \/ Crash(p)
  PROVE  /\ \A b \in Bet : ckpt'[b].next = "write_decision"
                             => ckpt'[b] = ckpt[b] \/ pc[p] = "save_choice"
         /\ pc[p] = "save_decision"
              => \/ pc'[p] = "crashed"
                 \/ ckpt'[on[p]].next = "link_github"
<1> USE DEF At, Goto, Save, TypeInv, TypeOK, Phase1TypeOK
<1>1. CASE DocsIntake(p) \/ ExtractFacts(p) \/ DeriveReasoning(p)
  BY <1>1 DEF DocsIntake, ExtractFacts, DeriveReasoning
<1>2. CASE PostConfirm(p) \/ FlagPending(p) \/ MarkPending(p)
  BY <1>2 DEF PostConfirm, FlagPending, MarkPending
<1>3. CASE SaveChoice(p) \/ CheckDecision(p) \/ CommitDecision(p) \/ SaveDecision(p)
  BY <1>3 DEF SaveChoice, CheckDecision, CommitDecision, SaveDecision
<1>4. CASE ListIssues(p) \/ CreateIssue(p) \/ RecordIssue(p) \/ FlagIssue(p)
             \/ SaveLink(p)
  BY <1>4 DEF ListIssues, CreateIssue, RecordIssue, FlagIssue, SaveLink
<1>5. CASE CreateEvent(p) \/ RecordEvent(p) \/ FlagEvent(p) \/ SaveSchedule(p)
  BY <1>5 DEF CreateEvent, RecordEvent, FlagEvent, SaveSchedule
<1>6. CASE HandleException(p) \/ Crash(p)
  BY <1>6 DEF HandleException, Crash
<1> QED BY <1>1, <1>2, <1>3, <1>4, <1>5, <1>6 DEF Work

\* Whoever starts takes nobody off a bet.
LEMMA OthersStay ==
  ASSUME NEW p \in Worker, TypeInv, Located, Start(p),
         NEW q \in Worker, on[q] \in Bet
  PROVE  on'[q] = on[q] /\ pc'[q] = pc[q]
<1>1. q # p
  BY StartStep, NoBetAssumption
<1> QED BY <1>1, StartStep
           DEF CreateBet, Resume, TypeInv, TypeOK, Phase1TypeOK

LEMMA NextCommitted ==
  ASSUME TypeInv, Inv, SerialInv, Committed, [Next]_vars
  PROVE  Committed'
<1>1. CASE UNCHANGED <<decisions, ckpt, on, pc>>
  BY <1>1 DEF Committed
<1>2. ASSUME NEW p \in Worker, Start(p)
      PROVE  Committed'
  <2>1. UNCHANGED <<decisions, ckpt>>
    BY <1>2, StartStep DEF Inv
  <2>2. \A q \in Worker : on[q] \in Bet => on'[q] = on[q] /\ pc'[q] = pc[q]
    BY <1>2, OthersStay DEF Inv
  <2> QED BY <2>1, <2>2 DEF Committed
<1>3. ASSUME NEW p \in Worker, Work(p) \/ Crash(p)
      PROVE  Committed'
  <2> SUFFICES ASSUME NEW b \in Bet, decisions'[b] # {},
                      ckpt'[b].next = "write_decision"
               PROVE  \E q \in Worker :
                        on'[q] = b /\ pc'[q] \in {"save_decision", "crashed"}
    BY DEF Committed
  <2>1. /\ pc[p] \in Busy /\ on' = on
        /\ \A q \in Worker \ {p} : pc'[q] = pc[q]
    BY <1>3, WorkerStep DEF TypeInv, TypeOK, Phase1TypeOK
  <2>2. CASE CommitDecision(p) /\ b = on[p]
    BY <2>1, <2>2 DEF CommitDecision, Goto, TypeInv, TypeOK, Phase1TypeOK
  <2>3. CASE ~ (CommitDecision(p) /\ b = on[p])
    <3>1. decisions[b] # {}
      BY <1>3, <2>3, TableStep
         DEF CommitDecision, StoreWriteDecision, TypeInv, TypeOK, StoreTypeOK
    <3>2. ckpt[b].next = "write_decision"
      <4>1. pc[p] = "save_choice" => b # on[p]
        BY <3>1 DEF SerialInv, Undecided, Before
      <4> QED BY <1>3, <4>1, CheckpointStep, TableStep
    <3>3. PICK q \in Worker : on[q] = b /\ pc[q] \in {"save_decision", "crashed"}
      BY <3>1, <3>2 DEF Committed
    <3>4. q = p => pc'[p] = "crashed"
      BY <1>3, <2>1, <3>3, CheckpointStep DEF Busy
    <3> QED BY <2>1, <3>3, <3>4
  <2> QED BY <2>2, <2>3
<1>4. ASSUME NEW r \in Reviewer, StartCheck(r) \/ Review(r) \/ ReviewCrash(r),
             UNCHANGED phase1Vars
      PROVE  UNCHANGED <<decisions, ckpt, on, pc>>
  BY <1>4, ReviewStep DEF Inv, phase1Vars
<1> QED
  BY <1>1, <1>2, <1>3, <1>4
     DEF Next, Phase1Next, Phase2Next, DayPasses, vars, tables, phase1Vars

LEMMA CommittedInvariant ==
  ASSUME Overlap = FALSE
  PROVE  Spec => []Committed
<1>1. Init => Committed
  BY DEF Init, StoreInit, Committed
<1>2. TypeInv /\ Inv /\ SerialInv /\ Committed /\ [Next]_vars => Committed'
  BY NextCommitted
<1> QED BY <1>1, <1>2, SerialInvariant, PTL DEF Spec

\* A resume that write_decision refuses although the option is the one that was
\* decided on: its thread gets no further (store.py:282).
Stranded(p) ==
  /\ pc[p] = "raised" /\ on[p] \in Bet
  /\ ckpt[on[p]].next = "write_decision"
  /\ decisions[on[p]] # {}

\* With resumes that wait for each other a thread is only stranded by the death of
\* a worker on its bet, whatever services fail: no other failure comes between
\* the commit of write_decision and its checkpoint.
THEOREM OnlyDeathStrands ==
  ASSUME Overlap = FALSE
  PROVE  Spec => [](\A p \in Worker : Stranded(p) =>
                      \E q \in Worker : on[q] = on[p] /\ pc[q] = "crashed")
<1>1. TypeInv /\ SerialInv /\ Committed
        => \A p \in Worker : Stranded(p) =>
             \E q \in Worker : on[q] = on[p] /\ pc[q] = "crashed"
  BY DEF SerialInv, OneAtATime, Committed, Stranded, Busy
<1> QED BY <1>1, SerialInvariant, CommittedInvariant, PTL

\* Without crashes nobody dies; and who is busy has a bet.
Alive ==
  \A p \in Worker : pc[p] # "crashed" /\ (pc[p] \in Busy => on[p] \in Bet)

LEMMA NobodyDies ==
  ASSUME Crashes = FALSE
  PROVE  Spec => []Alive
<1> USE DEF Alive
<1>1. Init => Alive
  BY DEF Init, Phase1Init, Busy
<1>2. ASSUME TypeInv, Inv, Alive, [Next]_vars
      PROVE  Alive'
  <2>1. CASE UNCHANGED <<pc, on>>
    BY <1>2, <2>1
  <2>2. ASSUME NEW p \in Worker, Start(p), NEW q \in Worker
        PROVE  pc'[q] # "crashed" /\ (pc'[q] \in Busy => on'[q] \in Bet)
    <3>1. \/ on' = on /\ pc' = [pc EXCEPT ![p] = "create_bet"]
          \/ \E b \in Bet, l \in NextNode \cup {"docs_intake", "finished"} :
               on' = [on EXCEPT ![p] = b] /\ pc' = [pc EXCEPT ![p] = l]
      <4>1. ASSUME NEW b \in Bet, CreateBet(p, b)
            PROVE  on' = [on EXCEPT ![p] = b] /\ pc' = [pc EXCEPT ![p] = "docs_intake"]
        BY <4>1 DEF CreateBet
      <4>2. ASSUME NEW b \in Bet, NEW i \in Index, NEW how, Resume(p, b, i, how)
            PROVE  \E l \in NextNode \cup {"finished"} :
                     on' = [on EXCEPT ![p] = b] /\ pc' = [pc EXCEPT ![p] = l]
        <5>1. ckpt[b].next \in NextNode
          BY <1>2 DEF TypeInv, TypeOK, Phase1TypeOK
        <5> QED BY <4>2, <5>1 DEF Resume
      <4>3. \/ on' = on /\ pc' = [pc EXCEPT ![p] = "create_bet"]
            \/ \E b \in Bet : CreateBet(p, b)
            \/ \E b \in Bet, i \in Index, how \in {"slack", "cli"} :
                 Resume(p, b, i, how)
        BY <1>2, <2>2, StartStep DEF Inv
      <4> QED BY <4>1, <4>2, <4>3
    <3> QED BY <1>2, <3>1 DEF TypeInv, TypeOK, Phase1TypeOK, NextNode, Busy
  <2>3. ASSUME NEW p \in Worker, Work(p), NEW q \in Worker
        PROVE  pc'[q] # "crashed" /\ (pc'[q] \in Busy => on'[q] \in Bet)
    BY <1>2, <2>3, PlaceAlive, WorkerStep
  <2> QED
    BY <1>2, <2>1, <2>2, <2>3
       DEF Next, Phase1Next, Phase2Next, DayPasses, Crash, vars, phase1Vars
<1> HIDE DEF Alive
<1> QED BY <1>1, <1>2, SafetyInvariant, PTL DEF Spec

\* "Resumable checkpoints" and "skip-tolerant" effects are what the program has as
\* long as no process dies and resumes wait for each other; the run resumable
\* shows that it loses them with a single crash.
THEOREM DecidedThreadsResume ==
  ASSUME Overlap = FALSE, Crashes = FALSE
  PROVE  Spec => []DecidedThreadResumes
<1>1. ASSUME SerialInv, Committed, Alive
      PROVE  DecidedThreadResumes
  <2> SUFFICES ASSUME NEW p \in Worker, pc[p] = "raised",
                      ckpt[on[p]].next = "write_decision",
                      chosen[p] \in {d.option : d \in decisions[on[p]]}
               PROVE  FALSE
    BY DEF DecidedThreadResumes
  <2>1. on[p] \in Bet
    BY <1>1 DEF Alive, Busy
  <2>2. PICK q \in Worker : on[q] = on[p] /\ pc[q] = "save_decision"
    BY <1>1, <2>1 DEF Alive, Committed
  <2> QED BY <1>1, <2>1, <2>2 DEF SerialInv, OneAtATime, Busy
<1> QED BY <1>1, SerialInvariant, CommittedInvariant, NobodyDies, PTL

-----------------------------------------------------------------------------
(* A graded bet that is due again.                                         *)

\* A graded bet is RESOLVED, or SCHEDULED with its calendar event in the row.
GradedStays ==
  \A b \in Bet : outcomes[b] # "none" =>
    \/ bets[b].status = "RESOLVED"
    \/ bets[b].status = "SCHEDULED" /\ bets[b].eventId

\* An event stays recorded, and record_event sets its status with it.
LEMMA EventStep ==
  ASSUME NEW p \in Worker, TypeInv, Work(p) \/ Crash(p), NEW b \in Bet
  PROVE  /\ bets[b].eventId => bets'[b].eventId
         /\ pc[p] = "record_event" /\ b = on[p] /\ bets'[b] # bets[b]
              => bets'[b].eventId
<1> USE DEF At, Save, tables, TypeInv, TypeOK, StoreTypeOK, BetRow,
            UpdateBetStatus, AppendFlag
<1>1. CASE DocsIntake(p)
  BY <1>1 DEF DocsIntake
<1>2. CASE ExtractFacts(p)
  <2>1. bets' = bets \/ bets' = AppendFlag(bets, on[p], "extract_facts_empty")
    BY <1>2 DEF ExtractFacts
  <2> QED BY <1>2, <2>1 DEF ExtractFacts
<1>3. CASE DeriveReasoning(p)
  <2>1. /\ pc[p] # "record_event" /\ on[p] \in Bet
        /\ bets' = bets \/ \E d \in ReviewDate : bets' = [bets EXCEPT ![on[p]].review = d]
    BY <1>3 DEF DeriveReasoning, ReviewDate
  <2>2. ASSUME NEW d \in ReviewDate, bets' = [bets EXCEPT ![on[p]].review = d]
        PROVE  bets'[b].eventId = bets[b].eventId
    BY <2>1, <2>2
  <2> HIDE DEF TypeInv, TypeOK, StoreTypeOK, BetRow
  <2> QED BY <2>1, <2>2
<1>4. CASE PostConfirm(p) \/ FlagPending(p) \/ MarkPending(p)
  BY <1>4 DEF PostConfirm, FlagPending, MarkPending
<1>5. CASE CommitDecision(p)
  BY <1>5 DEF CommitDecision, StoreWriteDecision
<1>6. CASE SaveChoice(p) \/ CheckDecision(p) \/ SaveDecision(p)
  BY <1>6 DEF SaveChoice, CheckDecision, SaveDecision
<1>7. CASE ListIssues(p) \/ CreateIssue(p) \/ RecordIssue(p) \/ FlagIssue(p)
             \/ SaveLink(p)
  BY <1>7 DEF ListIssues, CreateIssue, RecordIssue, FlagIssue, SaveLink
<1>8. CASE RecordEvent(p)
  BY <1>8 DEF RecordEvent
<1>9. CASE CreateEvent(p) \/ FlagEvent(p) \/ SaveSchedule(p)
  BY <1>9 DEF CreateEvent, FlagEvent, SaveSchedule
<1>10. CASE HandleException(p) \/ Crash(p)
  BY <1>10 DEF HandleException, Crash
<1> QED
  BY <1>1, <1>2, <1>3, <1>4, <1>5, <1>6, <1>7, <1>8, <1>9, <1>10 DEF Work

\* A review leaves the event alone, and sets RESOLVED with the outcome.
LEMMA ResolveStep ==
  ASSUME NEW r \in Reviewer, TypeInv, Reported,
         StartCheck(r) \/ Review(r) \/ ReviewCrash(r), NEW b \in Bet
  PROVE  /\ bets'[b].eventId = bets[b].eventId
         /\ outcomes'[b] # outcomes[b] => bets'[b].status = "RESOLVED"
<1> USE DEF RAt, tables, TypeInv, TypeOK, StoreTypeOK, BetRow
<1>1. CASE StartCheck(r) \/ ReviewCrash(r) \/ EndCheck(r)
  BY <1>1 DEF StartCheck, ReviewCrash, EndCheck
<1>2. ASSUME NEW c \in Bet, LoadBet(r, c)
      PROVE  UNCHANGED tables
  BY <1>2 DEF LoadBet
<1>3. CASE FetchMetric(r) \/ CompareOutcome(r) \/ ReportOutcome(r)
  BY <1>3 DEF FetchMetric, CompareOutcome, ReportOutcome
<1>4. CASE FlagMetric(r)
  BY <1>4 DEF FlagMetric, AppendFlag
<1>5. CASE CommitOutcome(r)
  <2>1. reviewing[r] \in Bet
    BY <1>5 DEF CommitOutcome, Reported
  <2>2. CASE UNCHANGED tables
    BY <2>2
  <2>3. CASE StoreWriteOutcome(reviewing[r], actual[r])
    BY <2>1, <2>3 DEF StoreWriteOutcome, UpdateBetStatus
  <2> QED BY <1>5, <2>2, <2>3 DEF CommitOutcome
<1> QED BY <1>1, <1>2, <1>3, <1>4, <1>5 DEF Review

LEMMA NextGraded ==
  ASSUME TypeInv, Inv, SerialInv, GradedStays, [Next]_vars
  PROVE  GradedStays'
<1> SUFFICES ASSUME NEW b \in Bet, outcomes'[b] # "none"
             PROVE  \/ bets'[b].status = "RESOLVED"
                    \/ bets'[b].status = "SCHEDULED" /\ bets'[b].eventId
  BY DEF GradedStays
<1> DEFINE Kept == /\ outcomes'[b] = outcomes[b]
                   /\ bets'[b].status = bets[b].status
                   /\ bets[b].eventId => bets'[b].eventId
<1>1. Kept => \/ bets'[b].status = "RESOLVED"
              \/ bets'[b].status = "SCHEDULED" /\ bets'[b].eventId
  BY DEF GradedStays
<1>2. ASSUME NEW p \in Worker, Start(p)
      PROVE  Kept
  <2>1. outcomes' = outcomes
    BY <1>2, StartStep DEF Inv
  <2>2. CASE UNCHANGED bets
    BY <2>1, <2>2
  <2>3. ASSUME NEW c \in Bet, CreateBet(p, c)
        PROVE  Kept
    <3>1. bets[c].status = "absent" /\ bets' = [bets EXCEPT ![c].status = "EXTRACTING"]
      BY <2>3 DEF CreateBet, StoreCreateBet, UpdateBetStatus
    <3>2. c # b
      BY <2>1, <3>1 DEF GradedStays
    <3> QED BY <2>1, <3>1, <3>2 DEF TypeInv, TypeOK, StoreTypeOK, BetRow
  <2> QED BY <1>2, <2>2, <2>3, StartStep DEF Inv, Resume, tables
<1>3. ASSUME NEW p \in Worker, Work(p) \/ Crash(p)
      PROVE  Kept \/ (bets'[b].status = "SCHEDULED" /\ bets'[b].eventId)
  <2>1. outcomes' = outcomes
    BY <1>3, TableStep
  <2>2. decisions[b] # {}
    BY <2>1 DEF Inv, Decided
  <2>3. b = on[p] => pc[p] \notin {"docs_intake", "mark_pending", "flag_pending",
                                 "commit_decision"}
    BY <2>2 DEF SerialInv, Undecided, Before, Early
  <2> QED BY <1>3, <2>1, <2>3, StatusStep, EventStep
<1>4. ASSUME NEW r \in Reviewer, StartCheck(r) \/ Review(r) \/ ReviewCrash(r)
      PROVE  Kept \/ bets'[b].status = "RESOLVED"
  BY <1>4, ReviewStep, ResolveStep DEF Inv
<1>5. ASSUME NEW c \in Bet, DayPasses(c)
      PROVE  Kept
  BY <1>5 DEF DayPasses, TypeInv, TypeOK, StoreTypeOK, BetRow
<1>6. UNCHANGED vars => Kept
  BY DEF vars, tables
<1> HIDE DEF Kept
<1> QED BY <1>1, <1>2, <1>3, <1>4, <1>5, <1>6 DEF Next, Phase1Next, Phase2Next

\* With resumes that wait for each other a graded bet is due again only because
\* schedule_review recorded an event after it: nothing else takes RESOLVED
\* back, and a bet without an event is graded for good.
THEOREM OnlyScheduleRevives ==
  ASSUME Overlap = FALSE
  PROVE  Spec => [](\A b \in Bet : outcomes[b] # "none" /\ b \in DueBets(DemoMode)
                      => bets[b].status = "SCHEDULED" /\ bets[b].eventId)
<1>1. Init => GradedStays
  BY DEF Init, StoreInit, GradedStays
<1>2. TypeInv /\ Inv /\ SerialInv /\ GradedStays /\ [Next]_vars => GradedStays'
  BY NextGraded
<1>3. GradedStays => \A b \in Bet : outcomes[b] # "none" /\ b \in DueBets(DemoMode)
                       => bets[b].status = "SCHEDULED" /\ bets[b].eventId
  BY DEF GradedStays, DueBets
<1> QED BY <1>1, <1>2, <1>3, SerialInvariant, PTL DEF Spec

-----------------------------------------------------------------------------
(* The program implements BetPromise.                                      *)

\* The refinement mapping of Calm, named for the proof.
OptionOf(S) == IF Cardinality(S) = 1 THEN (CHOOSE d \in S : TRUE).option
               ELSE None
askedBar == [b \in Bet |-> Asked(b)]
decisionBar == [b \in Bet |-> OptionOf(decisions[b])]

LEMMA OptionOfEmpty == OptionOf({}) = None
BY FS_EmptySet DEF OptionOf

LEMMA OptionOfOne ==
  ASSUME NEW d
  PROVE  OptionOf({d}) = d.option
<1>1. Cardinality({d}) = 1
  BY FS_Singleton
<1> QED BY <1>1 DEF OptionOf

LEMMA InitPromises == Init => Promise!Init
<1> SUFFICES ASSUME Init
             PROVE  Promise!Init
  OBVIOUS
<1>1. \A b \in Bet : Asked(b) = {}
  BY NoBetAssumption DEF Init, Phase1Init, Asked
<1>2. \A b \in Bet : OptionOf(decisions[b]) = None
  BY OptionOfEmpty DEF Init, StoreInit
<1> QED BY <1>1, <1>2 DEF Promise!Init, OptionOf, Init, StoreInit

LEMMA NextPromises ==
  ASSUME TypeInv, Inv, SerialInv, Inv', [Next]_vars
  PROVE  \/ \E b \in Bet, i \in Index :
              /\ askedBar' = [askedBar EXCEPT ![b] = @ \cup {i}]
              /\ UNCHANGED <<decisionBar, outcomes>>
         \/ \E b \in Bet, i \in Index :
              /\ decisionBar[b] = None /\ i \in askedBar[b]
              /\ decisionBar' = [decisionBar EXCEPT ![b] = i]
              /\ UNCHANGED <<askedBar, outcomes>>
         \/ \E b \in Bet, g \in Grade :
              /\ decisionBar[b] # None /\ outcomes[b] = "none"
              /\ outcomes' = [outcomes EXCEPT ![b] = g]
              /\ UNCHANGED <<askedBar, decisionBar>>
         \/ UNCHANGED <<askedBar, decisionBar, outcomes>>
<1>1. UNCHANGED <<on, via, click>> => UNCHANGED askedBar
  BY DEF askedBar, Asked
<1>2. UNCHANGED decisions => UNCHANGED decisionBar
  BY DEF decisionBar
<1>3. CASE UNCHANGED <<on, via, click, decisions, outcomes>>
  BY <1>1, <1>2, <1>3
<1>4. ASSUME NEW p \in Worker, Start(p)
      PROVE  \/ \E b \in Bet, i \in Index :
                  askedBar' = [askedBar EXCEPT ![b] = @ \cup {i}]
             \/ UNCHANGED askedBar
  <2>1. on[p] = NoBet
    BY <1>4, StartStep DEF Inv
  <2>2. ASSUME NEW b \in Bet, CreateBet(p, b)
        PROVE  UNCHANGED askedBar
    <3>1. \A c \in Bet : {q \in Worker : on'[q] = c /\ via'[q] # "run"}
                           = {q \in Worker : on[q] = c /\ via[q] # "run"}
      BY <2>1, <2>2, NoBetAssumption DEF CreateBet, TypeInv, TypeOK, Phase1TypeOK
    <3> QED BY <2>2, <3>1 DEF CreateBet, askedBar, Asked
  <2>3. ASSUME NEW b \in Bet, NEW i \in Index, NEW how \in {"slack", "cli"},
               Resume(p, b, i, how)
        PROVE  askedBar' = [askedBar EXCEPT ![b] = @ \cup {i}]
    <3>1. ASSUME NEW c \in Bet
          PROVE  {q \in Worker : on'[q] = c /\ via'[q] # "run"}
                   = {q \in Worker : on[q] = c /\ via[q] # "run"}
                       \cup (IF c = b THEN {p} ELSE {})
      BY <2>1, <2>3, NoBetAssumption DEF Resume, TypeInv, TypeOK, Phase1TypeOK
    <3>2. /\ click'[p] = i
          /\ \A q \in Worker : on[q] \in Bet => click'[q] = click[q]
      BY <2>1, <2>3, NoBetAssumption DEF Resume, TypeInv, TypeOK, Phase1TypeOK
    <3>3. ASSUME NEW c \in Bet
          PROVE  Asked(c)' = Asked(c) \cup (IF c = b THEN {i} ELSE {})
      BY <3>1, <3>2 DEF Asked
    <3> QED BY <3>3 DEF askedBar
  <2>4. CASE UNCHANGED <<on, via, click>>
    BY <1>1, <2>4
  <2> QED BY <1>4, <2>2, <2>3, <2>4 DEF Start, CheckPending, Goto, SlackClick, CliConfirm
<1>5. ASSUME NEW p \in Worker, CommitDecision(p)
      PROVE  \E b \in Bet, i \in Index :
               /\ decisionBar[b] = None /\ i \in askedBar[b]
               /\ decisionBar' = [decisionBar EXCEPT ![b] = i]
               /\ UNCHANGED <<askedBar, outcomes>>
  <2> DEFINE d == [by |-> p, option |-> chosen[p]]
  <2>1. /\ on[p] \in Bet /\ decisions[on[p]] = {}
        /\ chosen[p] \in Index /\ chosen[p] \in Asked(on[p])
    BY <1>5 DEF CommitDecision, At, SerialInv, Undecided, Inv, Chosen, Deciding,
                Attested
  <2>2. /\ decisions' = [decisions EXCEPT ![on[p]] = {d}]
        /\ UNCHANGED <<outcomes, on, via, click>>
    BY <1>5, <2>1 DEF CommitDecision, StoreWriteDecision, Goto, TypeInv, TypeOK,
                StoreTypeOK
  <2>3. decisionBar[on[p]] = None
    BY <2>1, OptionOfEmpty DEF decisionBar
  <2>4. decisionBar' = [decisionBar EXCEPT ![on[p]] = chosen[p]]
    <3>1. d.option = chosen[p]
      OBVIOUS
    <3> HIDE DEF d
    <3>2. OptionOf({d}) = chosen[p]
      BY <3>1, OptionOfOne
    <3> QED BY <2>1, <2>2, <3>2 DEF decisionBar, TypeInv, TypeOK, StoreTypeOK
  <2> QED BY <1>1, <2>1, <2>2, <2>3, <2>4 DEF askedBar
<1>6. ASSUME NEW r \in Reviewer, StartCheck(r) \/ Review(r) \/ ReviewCrash(r),
             UNCHANGED phase1Vars
      PROVE  \/ \E b \in Bet, g \in Grade :
                  /\ decisionBar[b] # None /\ outcomes[b] = "none"
                  /\ outcomes' = [outcomes EXCEPT ![b] = g]
                  /\ UNCHANGED <<askedBar, decisionBar>>
             \/ UNCHANGED <<askedBar, decisionBar, outcomes>>
  <2>1. decisions' = decisions /\ UNCHANGED <<askedBar, decisionBar>>
    BY <1>1, <1>2, <1>6, ReviewStep DEF Inv, phase1Vars
  <2>2. ASSUME NEW b \in Bet, NEW g \in Grade,
               outcomes' = [outcomes EXCEPT ![b] = g]
        PROVE  decisionBar[b] # None
    <3>1. decisions[b] # {}
      <4>1. outcomes'[b] # "none"
        BY <2>2 DEF Grade, TypeInv, TypeOK, StoreTypeOK
      <4>2. decisions'[b] # {}
        BY <4>1 DEF Inv, Decided
      <4> QED BY <2>1, <4>2
    <3>2. PICK d \in decisions[b] : d.option \in Index
      BY <3>1 DEF Inv, Chosen, Attested
    <3>3. decisions[b] = {d}
      BY DEF SerialInv, UniqueDecision
    <3> QED BY <3>2, <3>3, OptionOfOne, MaxOptionsAssumption
            DEF decisionBar, Index, None
  <2> QED BY <1>6, <2>1, <2>2, ReviewStep DEF Inv
<1>7. ASSUME NEW p \in Worker, Work(p) \/ Crash(p)
      PROVE  CommitDecision(p) \/ UNCHANGED <<on, via, click, decisions, outcomes>>
  BY <1>7, WorkerStep, TableStep
<1>8. ASSUME NEW p \in Worker, Start(p)
      PROVE  UNCHANGED <<decisions, outcomes>>
  BY <1>8, StartStep DEF Inv
<1> QED
  BY <1>2, <1>3, <1>4, <1>5, <1>6, <1>7, <1>8
     DEF Next, Phase1Next, Phase2Next, DayPasses, vars, tables, phase1Vars

\* The pipelines together implement BetPromise: what the PM asked for becomes the
\* decision once, and a decided bet is graded once.
THEOREM PromiseIsKept ==
  ASSUME Overlap = FALSE
  PROVE  Spec => KeepsPromise
<1>1. TypeInv /\ Inv /\ SerialInv /\ Inv' /\ [Next]_vars
        => [Promise!Next]_(Promise!promiseVars)
  BY NextPromises
     DEF Promise!Next, Promise!Ask, Promise!Decide, Promise!GiveGrade,
         Promise!promiseVars, askedBar, decisionBar, OptionOf
<1> QED
  BY <1>1, InitPromises, SerialInvariant, PTL DEF Spec, KeepsPromise, Promise!Spec
=============================================================================
