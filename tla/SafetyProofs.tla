---------------------------- MODULE SafetyProofs ----------------------------
(***************************************************************************)
(* The safety properties of Wager for every set of bets, workers and       *)
(* reviewers, every choice of failing services, and with overlapping       *)
(* clicks, crashes and concurrent checks.  None of them is inductive: Inv  *)
(* adds what each place in the Phase 1 graph, each checkpoint and each     *)
(* step of a review presumes about the tables.                             *)
(***************************************************************************)
EXTENDS TypeProofs

\* The steps of the first run before its first checkpoint.
Early == {"docs_intake", "extract_facts", "derive_reasoning"}

\* The steps that lead to a decision, and those that come after one.
Deciding == {"save_choice", "write_decision", "commit_decision"}
Late == {"save_decision", "link_github", "create_issue", "record_issue",
         "flag_issue", "save_link", "schedule_review", "record_event",
         "flag_event", "save_schedule"}

\* An option the PM asked for and the bet offers.
Attested(b, i) == i \in Asked(b) /\ i \in Index /\ i < graph[b].options

\* Every worker on a bet works on one that exists.
Located ==
  \A p \in Worker :
    /\ pc[p] \in {"idle", "create_bet"} => on[p] = NoBet
    /\ on[p] \in Bet => bets[on[p]].status # "absent"

\* The first run is alone with its bet until its first checkpoint.
Alone ==
  \A p, q \in Worker :
    (on[p] \in Bet /\ on[q] = on[p] /\ pc[p] \in Early /\ pc[q] \in Early)
      => p = q

\* A worker is before the first checkpoint of its thread or after it.
Placed ==
  \A p \in Worker :
    on[p] \in Bet =>
      /\ pc[p] \in Early => ckpt[on[p]].next = "none"
      /\ pc[p] \in Busy \ (Early \cup {"raised"}) => ckpt[on[p]].next # "none"

\* Nothing is decided before the first checkpoint, and the row, the hypothesis
\* and the review date are there after it.
Checkpointed ==
  \A b \in Bet :
    IF ckpt[b].next = "none"
    THEN decisions[b] = {}
    ELSE /\ bets[b].status # "absent" /\ bets[b].review # "null"
         /\ graph[b].hypothesis # "absent"

FirstRun == Alone /\ Placed /\ Checkpointed

\* On the way to a decision, in a checkpoint and in the table, an option is one
\* that the PM asked for.
Chosen ==
  /\ \A p \in Worker :
       on[p] \in Bet /\ pc[p] \in Deciding => Attested(on[p], chosen[p])
  /\ \A b \in Bet :
       /\ ckpt[b].next = "write_decision" => Attested(b, ckpt[b].chosen)
       /\ \A d \in decisions[b] : Attested(b, d.option)

\* What comes after the decision in the graph comes after it in the tables.
Decided ==
  /\ \A p \in Worker :
       on[p] \in Bet /\ pc[p] \in Late => decisions[on[p]] # {}
  /\ \A r \in Reviewer :
       \A b \in queue[r] \cup ({reviewing[r]} \cap Bet) : decisions[b] # {}
  /\ \A b \in Bet :
       (\/ ckpt[b].next \in {"link_github", "schedule_review", "END"}
        \/ bets[b].status \in {"CONFIRMED", "SCHEDULED", "RESOLVED"}
        \/ outcomes[b] # "none"
        \/ issues[b] # {}
        \/ events[b] # {})
         => decisions[b] # {}

\* What is reported was graded.
Reported ==
  /\ \A r \in Reviewer :
       /\ rpc[r] = "commit_outcome" => actual[r] \in Grade
       /\ reviewing[r] \in Bet /\ rpc[r] = "report_outcome"
            => actual[r] = "none" \/ outcomes[reviewing[r]] # "none"
  /\ \A b \in Bet :
       reports[b] # {} \/ bets[b].status = "RESOLVED" => outcomes[b] # "none"

\* What is about to be recorded is there.
Recorded ==
  \A p \in Worker :
    on[p] \in Bet =>
      /\ pc[p] = "mark_pending" => on[p] \in posted
      /\ pc[p] = "record_issue" => issues[on[p]] # {}
      /\ pc[p] = "record_event" => events[on[p]] # {}

Inv ==
  /\ Located /\ FirstRun /\ Chosen /\ Decided
  /\ OneGrade /\ Reported /\ RecordsAreReal /\ Recorded
-----------------------------------------------------------------------------
(* Two kinds of step that many actions take.                               *)

\* A worker leaves the graph and writes nothing.
LEMMA GivesUp ==
  ASSUME NEW p \in Worker, TypeInv, Inv, NEW l \in {"raised"} \cup Ended,
         Goto(p, l), on[p] \in Bet,
         UNCHANGED <<tables, ckpt, outside, phase2Vars>>
  PROVE  Inv'
<1> USE DEF At, Goto, StoreTypeOK, Phase1TypeOK, BetRow, Reasoning, tables,
        outside, phase2Vars, Busy, Ended, Early, Deciding, Late, Alone, Placed,
        Checkpointed, Attested, Asked
<1>1. StoreTypeOK /\ Phase1TypeOK
  BY DEF TypeInv, TypeOK
<1>2. /\ Located /\ FirstRun /\ Chosen /\ Decided
      /\ OneGrade /\ Reported /\ RecordsAreReal /\ Recorded
  BY DEF Inv
<1>3. Located' /\ FirstRun'
  BY <1>1, <1>2 DEF Located, FirstRun
<1>4. Chosen' /\ Decided'
  <2>1. Chosen'
    BY <1>1, <1>2 DEF Chosen
  <2>2. Decided'
    BY <1>1, <1>2 DEF Decided
  <2> QED BY <2>1, <2>2
<1>5. OneGrade' /\ Reported'
  BY <1>1, <1>2 DEF OneGrade, Reported
<1>6. RecordsAreReal' /\ Recorded'
  BY <1>1, <1>2 DEF RecordsAreReal, Recorded
<1> QED BY <1>3, <1>4, <1>5, <1>6 DEF Inv

\* A worker moves on after the decision and writes nothing.
LEMMA GoesOn ==
  ASSUME NEW p \in Worker, TypeInv, Inv, NEW l \in Late, Goto(p, l),
         pc[p] \in Late, on[p] \in Bet,
         l = "record_issue" => issues[on[p]] # {}, l # "record_event",
         UNCHANGED <<tables, ckpt, outside, phase2Vars>>
  PROVE  Inv'
<1> USE DEF At, Goto, StoreTypeOK, Phase1TypeOK, BetRow, Reasoning, tables,
        outside, phase2Vars, Busy, Ended, Early, Deciding, Late, Alone, Placed,
        Checkpointed, Attested, Asked
<1>1. StoreTypeOK /\ Phase1TypeOK
  BY DEF TypeInv, TypeOK
<1>2. /\ Located /\ FirstRun /\ Chosen /\ Decided
      /\ OneGrade /\ Reported /\ RecordsAreReal /\ Recorded
  BY DEF Inv
<1>3. Located' /\ FirstRun'
  BY <1>1, <1>2 DEF Located, FirstRun
<1>4. Chosen' /\ Decided'
  <2>1. Chosen'
    BY <1>1, <1>2 DEF Chosen
  <2>2. Decided'
    BY <1>1, <1>2 DEF Decided
  <2> QED BY <2>1, <2>2
<1>5. OneGrade' /\ Reported'
  BY <1>1, <1>2 DEF OneGrade, Reported
<1>6. RecordsAreReal' /\ Recorded'
  BY <1>1, <1>2 DEF RecordsAreReal, Recorded
<1> QED BY <1>3, <1>4, <1>5, <1>6 DEF Inv

-----------------------------------------------------------------------------
(* Phase 1, from the start of a worker to the decision.                    *)

LEMMA Starts ==
  ASSUME NEW p \in Worker, TypeInv, Inv, UNCHANGED phase2Vars, Start(p)
  PROVE  Inv'
<1> USE DEF At, Goto, StoreTypeOK, Phase1TypeOK, BetRow, Reasoning, tables,
        outside, phase2Vars, Busy, Ended, Early, Deciding, Late, Alone, Placed,
        Checkpointed, Attested, Asked
<1>1. StoreTypeOK /\ Phase1TypeOK
  BY DEF TypeInv, TypeOK
<1>2. /\ Located /\ FirstRun /\ Chosen /\ Decided
      /\ OneGrade /\ Reported /\ RecordsAreReal /\ Recorded
  BY DEF Inv
<1>3. ASSUME NEW b \in Bet, CreateBet(p, b)
      PROVE  Inv'
  <2>1. \A q \in Worker : on[q] # b
    BY <1>1, <1>2, <1>3 DEF CreateBet, StoreCreateBet, Located
  <2>2. ckpt[b].next = "none" /\ decisions[b] = {} /\ outcomes[b] = "none"
    BY <1>1, <1>2, <1>3
       DEF CreateBet, StoreCreateBet, FirstRun, Decided
  <2>3. Located' /\ FirstRun'
    <3>1. Located'
      BY <1>1, <1>2, <1>3, <2>1, <2>2, NoBetAssumption
         DEF Located, CreateBet, StoreCreateBet, UpdateBetStatus
    <3>2. FirstRun'
      <4>1. Alone'
        BY <1>1, <1>2, <1>3, <2>1, <2>2, NoBetAssumption
           DEF FirstRun, CreateBet, StoreCreateBet, UpdateBetStatus
      <4>2. Placed'
        BY <1>1, <1>2, <1>3, <2>1, <2>2, NoBetAssumption
           DEF FirstRun, CreateBet, StoreCreateBet, UpdateBetStatus
      <4>3. Checkpointed'
        BY <1>1, <1>2, <1>3, <2>1, <2>2, NoBetAssumption
           DEF FirstRun, CreateBet, StoreCreateBet, UpdateBetStatus
      <4> QED BY <4>1, <4>2, <4>3 DEF FirstRun
    <3> QED BY <3>1, <3>2
  <2>4. Chosen' /\ Decided'
    <3>1. Chosen'
      <4>1. \A c \in Bet : Asked(c) \subseteq Asked(c)'
        BY <1>1, <1>2, <1>3, NoBetAssumption
           DEF Located, CreateBet, StoreCreateBet, UpdateBetStatus
      <4> HIDE DEF Asked
      <4> QED
        BY <1>1, <1>2, <1>3, <2>1, <2>2, NoBetAssumption, <4>1
           DEF Chosen, CreateBet, StoreCreateBet, UpdateBetStatus
    <3>2. Decided'
      BY <1>1, <1>2, <1>3, <2>1, <2>2, NoBetAssumption
         DEF Decided, CreateBet, StoreCreateBet, UpdateBetStatus
    <3> QED BY <3>1, <3>2
  <2>5. OneGrade' /\ Reported'
    BY <1>1, <1>2, <1>3, <2>1, <2>2, NoBetAssumption
       DEF OneGrade, Reported, CreateBet, StoreCreateBet, UpdateBetStatus
  <2>6. RecordsAreReal' /\ Recorded'
    BY <1>1, <1>2, <1>3, <2>1, <2>2, NoBetAssumption
       DEF RecordsAreReal, Recorded, CreateBet, StoreCreateBet, UpdateBetStatus
  <2> QED BY <2>3, <2>4, <2>5, <2>6 DEF Inv
<1>4. ASSUME NEW b \in Bet, NEW i \in Index, NEW how \in {"slack", "cli"},
             Resume(p, b, i, how)
      PROVE  Inv'
  <2>1. /\ ckpt[b].next \in {"confirm_decision", "write_decision",
                            "link_github", "schedule_review", "END"}
        /\ bets[b].status # "absent"
    BY <1>1, <1>2, <1>4 DEF Resume, NextNode, FirstRun
  <2>2. Located' /\ FirstRun'
    <3>1. Located'
      BY <1>1, <1>2, <1>4, <2>1, NoBetAssumption DEF Located, Resume
    <3>2. FirstRun'
      <4>1. Alone'
        BY <1>1, <1>2, <1>4, <2>1, NoBetAssumption DEF FirstRun, Resume
      <4>2. Placed'
        BY <1>1, <1>2, <1>4, <2>1, NoBetAssumption DEF FirstRun, Resume
      <4>3. Checkpointed'
        BY <1>1, <1>2, <1>4, <2>1, NoBetAssumption DEF FirstRun, Resume
      <4> QED BY <4>1, <4>2, <4>3 DEF FirstRun
    <3> QED BY <3>1, <3>2
  <2>3. Chosen' /\ Decided'
    <3>1. Chosen'
      <4>1. \A c \in Bet : Asked(c) \subseteq Asked(c)'
        BY <1>1, <1>2, <1>4, NoBetAssumption DEF Located, Resume
      <4> HIDE DEF Asked
      <4> QED
        BY <1>1, <1>2, <1>4, <2>1, NoBetAssumption, <4>1 DEF Chosen, Resume
    <3>2. Decided'
      BY <1>1, <1>2, <1>4, <2>1, NoBetAssumption DEF Decided, Resume
    <3> QED BY <3>1, <3>2
  <2>4. OneGrade' /\ Reported'
    BY <1>1, <1>2, <1>4, <2>1, NoBetAssumption DEF OneGrade, Reported, Resume
  <2>5. RecordsAreReal' /\ Recorded'
    BY <1>1, <1>2, <1>4, <2>1, NoBetAssumption
       DEF RecordsAreReal, Recorded, Resume
  <2> QED BY <2>2, <2>3, <2>4, <2>5 DEF Inv
<1>5. CASE CheckPending(p)
  <2>1. Located' /\ FirstRun'
    BY <1>1, <1>2, <1>5, NoBetAssumption DEF Located, FirstRun, CheckPending
  <2>2. Chosen' /\ Decided'
    <3>1. Chosen'
      BY <1>1, <1>2, <1>5, NoBetAssumption DEF Located, Chosen, CheckPending
    <3>2. Decided'
      BY <1>1, <1>2, <1>5, NoBetAssumption DEF Located, Decided, CheckPending
    <3> QED BY <3>1, <3>2
  <2>3. OneGrade' /\ Reported'
    BY <1>1, <1>2, <1>5 DEF OneGrade, Reported, CheckPending
  <2>4. RecordsAreReal' /\ Recorded'
    BY <1>1, <1>2, <1>5, NoBetAssumption
       DEF Located, RecordsAreReal, Recorded, CheckPending
  <2> QED BY <2>1, <2>2, <2>3, <2>4 DEF Inv
<1> QED BY <1>3, <1>4, <1>5 DEF Start, SlackClick, CliConfirm

LEMMA BeforeCheckpoint ==
  ASSUME NEW p \in Worker, TypeInv, Inv, UNCHANGED phase2Vars,
         DocsIntake(p) \/ ExtractFacts(p) \/ DeriveReasoning(p)
  PROVE  Inv'
<1> USE DEF At, Goto, StoreTypeOK, Phase1TypeOK, BetRow, Reasoning, tables,
        outside, phase2Vars, Busy, Ended, Early, Deciding, Late, Alone, Placed,
        Checkpointed, Attested, Asked
<1>1. StoreTypeOK /\ Phase1TypeOK
  BY DEF TypeInv, TypeOK
<1>2. /\ Located /\ FirstRun /\ Chosen /\ Decided
      /\ OneGrade /\ Reported /\ RecordsAreReal /\ Recorded
  BY DEF Inv
<1>3. on[p] \in Bet
  BY DEF DocsIntake, ExtractFacts, DeriveReasoning
<1>4. CASE Goto(p, "raised") /\ UNCHANGED <<tables, ckpt, outside>>
  BY <1>3, <1>4, GivesUp
<1>5. CASE /\ pc[p] = "docs_intake" /\ Goto(p, "extract_facts")
           /\ bets' = UpdateBetStatus(bets, on[p], "EXTRACTING")
           /\ UNCHANGED <<graph, decisions, outcomes, grading, ckpt, outside>>
  <2>1. ckpt[on[p]].next = "none" /\ decisions[on[p]] = {} /\ outcomes[on[p]] = "none"
    BY <1>1, <1>2, <1>3, <1>5 DEF FirstRun, Decided
  <2>2. Located' /\ FirstRun'
    <3>1. Located'
      BY <1>1, <1>2, <1>3, <1>5, <2>1 DEF Located, UpdateBetStatus
    <3>2. FirstRun'
      BY <1>1, <1>2, <1>3, <1>5, <2>1 DEF FirstRun, UpdateBetStatus
    <3> QED BY <3>1, <3>2
  <2>3. Chosen' /\ Decided'
    <3>1. Chosen'
      BY <1>1, <1>2, <1>3, <1>5, <2>1 DEF Chosen, UpdateBetStatus
    <3>2. Decided'
      BY <1>1, <1>2, <1>3, <1>5, <2>1 DEF Decided, UpdateBetStatus
    <3> QED BY <3>1, <3>2
  <2>4. OneGrade' /\ Reported'
    BY <1>1, <1>2, <1>3, <1>5, <2>1 DEF OneGrade, Reported, UpdateBetStatus
  <2>5. RecordsAreReal' /\ Recorded'
    BY <1>1, <1>2, <1>3, <1>5, <2>1
       DEF RecordsAreReal, Recorded, UpdateBetStatus
  <2> QED BY <2>2, <2>3, <2>4, <2>5 DEF Inv
<1>6. CASE /\ pc[p] = "extract_facts" /\ Goto(p, "derive_reasoning")
           /\ graph' = [graph EXCEPT ![on[p]].facts = TRUE]
           /\ UNCHANGED <<bets, decisions, outcomes, grading, ckpt, outside>>
  <2>1. Located' /\ FirstRun'
    BY <1>1, <1>2, <1>3, <1>6 DEF Located, FirstRun
  <2>2. Chosen' /\ Decided'
    <3>1. Chosen'
      BY <1>1, <1>2, <1>3, <1>6 DEF Chosen
    <3>2. Decided'
      BY <1>1, <1>2, <1>3, <1>6 DEF Decided
    <3> QED BY <3>1, <3>2
  <2>3. OneGrade' /\ Reported'
    BY <1>1, <1>2, <1>3, <1>6 DEF OneGrade, Reported
  <2>4. RecordsAreReal' /\ Recorded'
    BY <1>1, <1>2, <1>3, <1>6 DEF RecordsAreReal, Recorded
  <2> QED BY <2>1, <2>2, <2>3, <2>4 DEF Inv
<1>7. CASE /\ pc[p] = "extract_facts" /\ Goto(p, "raised")
           /\ bets' = AppendFlag(bets, on[p], "extract_facts_empty")
           /\ UNCHANGED <<graph, decisions, outcomes, grading, ckpt, outside>>
  <2>1. Located' /\ FirstRun'
    BY <1>1, <1>2, <1>3, <1>7 DEF Located, FirstRun, AppendFlag
  <2>2. Chosen' /\ Decided'
    <3>1. Chosen'
      BY <1>1, <1>2, <1>3, <1>7 DEF Chosen, AppendFlag
    <3>2. Decided'
      BY <1>1, <1>2, <1>3, <1>7 DEF Decided, AppendFlag
    <3> QED BY <3>1, <3>2
  <2>3. OneGrade' /\ Reported'
    BY <1>1, <1>2, <1>3, <1>7 DEF OneGrade, Reported, AppendFlag
  <2>4. RecordsAreReal' /\ Recorded'
    BY <1>1, <1>2, <1>3, <1>7 DEF RecordsAreReal, Recorded, AppendFlag
  <2> QED BY <2>1, <2>2, <2>3, <2>4 DEF Inv
<1>8. ASSUME NEW n \in 0 .. MaxOptions, NEW d \in {"future", "arrived"},
             pc[p] = "derive_reasoning", Goto(p, "confirm_decision"),
             graph' = [graph EXCEPT ![on[p]].hypothesis = "ACTIVE",
                                    ![on[p]].options = n],
             bets' = [bets EXCEPT ![on[p]].review = d],
             ckpt' = [ckpt EXCEPT ![on[p]].next = "confirm_decision"],
             UNCHANGED <<decisions, outcomes, grading, outside>>
      PROVE  Inv'
  <2>1. /\ ckpt[on[p]].next = "none" /\ decisions[on[p]] = {}
        /\ outcomes[on[p]] = "none"
    BY <1>1, <1>2, <1>3, <1>8
       DEF FirstRun, Decided
  <2>2. \A q \in Worker : on[q] = on[p] => pc[q] \notin Deciding
    BY <1>1, <1>2, <1>3, <2>1 DEF FirstRun
  <2>3. /\ \A q \in Worker : q # p => pc'[q] = pc[q]
        /\ \A q \in Worker \ {p} : on[q] = on[p] => pc[q] \notin Early
        /\ \A b \in Bet : ckpt'[b].next = IF b = on[p] THEN "confirm_decision"
                                            ELSE ckpt[b].next
    BY <1>1, <1>2, <1>3, <1>8 DEF FirstRun
  <2>4. Located' /\ FirstRun'
    <3>1. Located'
      BY <1>1, <1>2, <1>3, <1>8, <2>1, <2>2 DEF Located
    <3>2. FirstRun'
      <4>1. Alone'
        BY <1>1, <1>2, <1>3, <1>8, <2>1, <2>2, <2>3 DEF FirstRun
      <4>2. Placed'
        <5> SUFFICES ASSUME NEW q \in Worker, on[q] \in Bet
                     PROVE  /\ pc'[q] \in Early => ckpt'[on[q]].next = "none"
                            /\ pc'[q] \in Busy \ (Early \cup {"raised"})
                                 => ckpt'[on[q]].next # "none"
          BY <1>8
        <5>1. CASE q = p
          BY <1>1, <1>8, <2>3, <5>1
        <5>2. CASE q # p /\ on[q] = on[p]
          BY <1>3, <2>3, <5>2
        <5>3. CASE on[q] # on[p]
          BY <1>2, <2>3, <5>3 DEF FirstRun
        <5> QED BY <5>1, <5>2, <5>3
      <4>3. Checkpointed'
        <5>1. \A b \in Bet \ {on[p]} :
                /\ bets'[b] = bets[b] /\ graph'[b] = graph[b]
                /\ decisions'[b] = decisions[b]
          BY <1>1, <1>3, <1>8
        <5>2. /\ bets'[on[p]].status # "absent" /\ bets'[on[p]].review # "null"
              /\ graph'[on[p]].hypothesis # "absent"
          BY <1>1, <1>2, <1>3, <1>8 DEF Located
        <5> QED BY <1>2, <1>3, <2>3, <5>1, <5>2 DEF FirstRun
      <4> QED BY <4>1, <4>2, <4>3 DEF FirstRun
    <3> QED BY <3>1, <3>2
  <2>5. Chosen' /\ Decided'
    <3>1. Chosen'
      BY <1>1, <1>2, <1>3, <1>8, <2>1, <2>2 DEF Chosen
    <3>2. Decided'
      BY <1>1, <1>2, <1>3, <1>8, <2>1, <2>2 DEF Decided
    <3> QED BY <3>1, <3>2
  <2>6. OneGrade' /\ Reported'
    BY <1>1, <1>2, <1>3, <1>8, <2>1, <2>2 DEF OneGrade, Reported
  <2>7. RecordsAreReal' /\ Recorded'
    BY <1>1, <1>2, <1>3, <1>8, <2>1, <2>2 DEF RecordsAreReal, Recorded
  <2> QED BY <2>4, <2>5, <2>6, <2>7 DEF Inv
<1> QED
  BY <1>4, <1>5, <1>6, <1>7, <1>8
     DEF DocsIntake, ExtractFacts, DeriveReasoning

LEMMA Confirms ==
  ASSUME NEW p \in Worker, TypeInv, Inv, UNCHANGED phase2Vars,
         PostConfirm(p) \/ FlagPending(p) \/ MarkPending(p) \/ SaveChoice(p)
  PROVE  Inv'
<1> USE DEF At, Goto, StoreTypeOK, Phase1TypeOK, BetRow, Reasoning, tables,
        outside, phase2Vars, Busy, Ended, Early, Deciding, Late, Alone, Placed,
        Checkpointed, Attested, Asked
<1>1. StoreTypeOK /\ Phase1TypeOK
  BY DEF TypeInv, TypeOK
<1>2. /\ Located /\ FirstRun /\ Chosen /\ Decided
      /\ OneGrade /\ Reported /\ RecordsAreReal /\ Recorded
  BY DEF Inv
<1>3. ASSUME NEW l \in {"mark_pending", "flag_pending"},
             pc[p] = "confirm_decision", on[p] \in Bet, Goto(p, l),
             posted' \in {posted, posted \cup {on[p]}},
             l = "mark_pending" => on[p] \in posted',
             UNCHANGED <<tables, ckpt, issues, events>>
      PROVE  Inv'
  <2>1. Located' /\ FirstRun'
    BY <1>1, <1>2, <1>3 DEF Located, FirstRun
  <2>2. Chosen' /\ Decided'
    <3>1. Chosen'
      BY <1>1, <1>2, <1>3 DEF Chosen
    <3>2. Decided'
      BY <1>1, <1>2, <1>3 DEF Decided
    <3> QED BY <3>1, <3>2
  <2>3. OneGrade' /\ Reported'
    BY <1>1, <1>2, <1>3 DEF OneGrade, Reported
  <2>4. RecordsAreReal' /\ Recorded'
    BY <1>1, <1>2, <1>3 DEF RecordsAreReal, Recorded
  <2> QED BY <2>1, <2>2, <2>3, <2>4 DEF Inv
<1>4. CASE PostConfirm(p)
  BY <1>3, <1>4 DEF PostConfirm
<1>5. CASE FlagPending(p)
  <2>1. Located' /\ FirstRun'
    BY <1>1, <1>2, <1>5
       DEF Located, FirstRun, FlagPending, AppendFlag, UpdateBetStatus
  <2>2. Chosen' /\ Decided'
    BY <1>1, <1>2, <1>5
       DEF Chosen, Decided, FlagPending, AppendFlag, UpdateBetStatus
  <2>3. OneGrade' /\ Reported'
    BY <1>1, <1>2, <1>5
       DEF OneGrade, Reported, FlagPending, AppendFlag, UpdateBetStatus
  <2>4. RecordsAreReal' /\ Recorded'
    BY <1>1, <1>2, <1>5
       DEF RecordsAreReal, Recorded, FlagPending, AppendFlag, UpdateBetStatus
  <2> QED BY <2>1, <2>2, <2>3, <2>4 DEF Inv
<1>6. ASSUME NEW l \in {"paused", "raised"}, MarkPending(p), Goto(p, l)
      PROVE  Inv'
  <2>1. /\ on[p] \in Bet /\ pc[p] = "mark_pending"
        /\ bets' = UpdateBetStatus(bets, on[p], "PENDING_CONFIRMATION")
        /\ UNCHANGED <<graph, decisions, outcomes, grading, ckpt, outside>>
    BY <1>6 DEF MarkPending
  <2>2. Located' /\ FirstRun'
    BY <1>1, <1>2, <1>6, <2>1 DEF Located, FirstRun, UpdateBetStatus
  <2>3. Chosen' /\ Decided'
    BY <1>1, <1>2, <1>6, <2>1 DEF Chosen, Decided, UpdateBetStatus
  <2>4. OneGrade' /\ Reported'
    BY <1>1, <1>2, <1>6, <2>1 DEF OneGrade, Reported, UpdateBetStatus
  <2>5. RecordsAreReal' /\ Recorded'
    BY <1>1, <1>2, <1>6, <2>1 DEF RecordsAreReal, Recorded, UpdateBetStatus
  <2> QED BY <2>2, <2>3, <2>4, <2>5 DEF Inv
<1>7. CASE MarkPending(p) /\ pc'[p] = "save_choice"
  <2>1. /\ on[p] \in Bet /\ pc[p] = "mark_pending" /\ via[p] # "run"
        /\ click[p] \in Index /\ click[p] < graph[on[p]].options
        /\ pc' = [pc EXCEPT ![p] = "save_choice"]
        /\ chosen' = [chosen EXCEPT ![p] = click[p]]
        /\ bets' = UpdateBetStatus(bets, on[p], "PENDING_CONFIRMATION")
        /\ UNCHANGED <<on, via, click, graph, decisions, outcomes, grading,
                       ckpt, outside>>
    BY <1>1, <1>7, MaxOptionsAssumption DEF MarkPending, Index, None
  <2>2. Located' /\ FirstRun'
    <3>1. Located'
      BY <1>1, <1>2, <2>1 DEF Located, UpdateBetStatus
    <3>2. FirstRun'
      BY <1>1, <1>2, <2>1 DEF FirstRun, UpdateBetStatus
    <3> QED BY <3>1, <3>2
  <2>3. Chosen' /\ Decided'
    <3>1. Chosen'
      BY <1>1, <1>2, <2>1 DEF Chosen, UpdateBetStatus
    <3>2. Decided'
      BY <1>1, <1>2, <2>1 DEF Decided, UpdateBetStatus
    <3> QED BY <3>1, <3>2
  <2>4. OneGrade' /\ Reported'
    BY <1>1, <1>2, <2>1 DEF OneGrade, Reported, UpdateBetStatus
  <2>5. RecordsAreReal' /\ Recorded'
    BY <1>1, <1>2, <2>1 DEF RecordsAreReal, Recorded, UpdateBetStatus
  <2> QED BY <2>2, <2>3, <2>4, <2>5 DEF Inv
<1>8. CASE SaveChoice(p)
  <2>1. Located' /\ FirstRun'
    BY <1>1, <1>2, <1>8 DEF Located, FirstRun, SaveChoice, Save
  <2>2. Chosen' /\ Decided'
    BY <1>1, <1>2, <1>8 DEF Chosen, Decided, SaveChoice, Save
  <2>3. OneGrade' /\ Reported'
    BY <1>1, <1>2, <1>8 DEF OneGrade, Reported, SaveChoice, Save
  <2>4. RecordsAreReal' /\ Recorded'
    BY <1>1, <1>2, <1>8 DEF RecordsAreReal, Recorded, SaveChoice, Save
  <2> QED BY <2>1, <2>2, <2>3, <2>4 DEF Inv
<1> QED
  <2>1. CASE MarkPending(p)
    BY <1>1, <1>6, <1>7, <2>1 DEF MarkPending
  <2> QED BY <1>4, <1>5, <1>8, <2>1

LEMMA Decides ==
  ASSUME NEW p \in Worker, TypeInv, Inv, UNCHANGED phase2Vars,
         CheckDecision(p) \/ CommitDecision(p) \/ SaveDecision(p)
  PROVE  Inv'
<1> USE DEF At, Goto, StoreTypeOK, Phase1TypeOK, BetRow, Reasoning, tables,
        outside, phase2Vars, Busy, Ended, Early, Deciding, Late, Alone, Placed,
        Checkpointed, Attested, Asked
<1>1. StoreTypeOK /\ Phase1TypeOK
  BY DEF TypeInv, TypeOK
<1>2. /\ Located /\ FirstRun /\ Chosen /\ Decided
      /\ OneGrade /\ Reported /\ RecordsAreReal /\ Recorded
  BY DEF Inv
<1>3. CASE CheckDecision(p) /\ pc'[p] = "raised"
  BY <1>1, <1>3, GivesUp DEF CheckDecision
<1>4. CASE CheckDecision(p) /\ pc'[p] # "raised"
  <2>1. Located' /\ FirstRun'
    BY <1>1, <1>2, <1>4 DEF Located, FirstRun, CheckDecision
  <2>2. Chosen' /\ Decided'
    BY <1>1, <1>2, <1>4 DEF Chosen, Decided, CheckDecision
  <2>3. OneGrade' /\ Reported'
    BY <1>1, <1>2, <1>4 DEF OneGrade, Reported, CheckDecision
  <2>4. RecordsAreReal' /\ Recorded'
    BY <1>1, <1>2, <1>4 DEF RecordsAreReal, Recorded, CheckDecision
  <2> QED BY <2>1, <2>2, <2>3, <2>4 DEF Inv
<1>5. CASE CommitDecision(p)
  <2>1. on[p] \in Bet /\ pc[p] = "commit_decision" /\ Attested(on[p], chosen[p])
    BY <1>2, <1>5 DEF CommitDecision, Chosen
  <2>2. \A b \in Bet :
          /\ b # on[p] => bets'[b] = bets[b] /\ decisions'[b] = decisions[b]
          /\ decisions'[on[p]] # {}
    BY <1>1, <1>5, <2>1
       DEF CommitDecision, StoreWriteDecision, UpdateBetStatus
  <2>3. /\ \A q \in Worker : pc'[q] \in Late => q = p \/ pc[q] \in Late
        /\ UNCHANGED <<on, ckpt, outcomes, issues, events, queue, reviewing>>
    BY <1>1, <1>5 DEF CommitDecision, StoreWriteDecision
  <2>4. Located' /\ FirstRun'
    BY <1>1, <1>2, <1>5, <2>1
       DEF Located, FirstRun, CommitDecision, StoreWriteDecision,
           UpdateBetStatus
  <2>5. Chosen' /\ Decided'
    <3>1. Chosen'
      BY <1>1, <1>2, <1>5, <2>1
         DEF Chosen, CommitDecision, StoreWriteDecision, UpdateBetStatus
    <3>2. Decided'
      <4>1. \A q \in Worker :
              on'[q] \in Bet /\ pc'[q] \in Late => decisions'[on'[q]] # {}
        <5> SUFFICES ASSUME NEW q \in Worker, on[q] \in Bet, pc'[q] \in Late
                     PROVE  decisions'[on[q]] # {}
          BY <2>3
        <5> QED BY <1>2, <2>2, <2>3 DEF Decided
      <4>2. \A r \in Reviewer :
              \A b \in queue'[r] \cup ({reviewing'[r]} \cap Bet) :
                decisions'[b] # {}
        <5> SUFFICES ASSUME NEW r \in Reviewer,
                            NEW b \in queue[r] \cup ({reviewing[r]} \cap Bet)
                     PROVE  decisions'[b] # {}
          BY <2>3
        <5> QED BY <1>2, <2>2 DEF Decided, TypeInv, TypeOK, Phase2TypeOK
      <4> QED BY <1>2, <2>2, <2>3, <4>1, <4>2 DEF Decided
    <3> QED BY <3>1, <3>2
  <2>6. OneGrade' /\ Reported'
    BY <1>1, <1>2, <1>5, <2>1
       DEF OneGrade, Reported, CommitDecision, StoreWriteDecision,
           UpdateBetStatus
  <2>7. RecordsAreReal' /\ Recorded'
    BY <1>1, <1>2, <1>5, <2>1
       DEF RecordsAreReal, Recorded, CommitDecision, StoreWriteDecision,
           UpdateBetStatus
  <2> QED BY <2>4, <2>5, <2>6, <2>7 DEF Inv
<1>6. CASE SaveDecision(p)
  <2>1. Located' /\ FirstRun'
    BY <1>1, <1>2, <1>6 DEF Located, FirstRun, SaveDecision, Save
  <2>2. Chosen' /\ Decided'
    BY <1>1, <1>2, <1>6 DEF Chosen, Decided, SaveDecision, Save
  <2>3. OneGrade' /\ Reported'
    BY <1>1, <1>2, <1>6 DEF OneGrade, Reported, SaveDecision, Save
  <2>4. RecordsAreReal' /\ Recorded'
    BY <1>1, <1>2, <1>6 DEF RecordsAreReal, Recorded, SaveDecision, Save
  <2> QED BY <2>1, <2>2, <2>3, <2>4 DEF Inv
<1> QED BY <1>3, <1>4, <1>5, <1>6

-----------------------------------------------------------------------------
(* Phase 1, after the decision.                                            *)

LEMMA Links ==
  ASSUME NEW p \in Worker, TypeInv, Inv, UNCHANGED phase2Vars,
         \/ ListIssues(p) \/ CreateIssue(p) \/ RecordIssue(p) \/ FlagIssue(p)
         \/ SaveLink(p)
  PROVE  Inv'
<1> USE DEF At, Goto, StoreTypeOK, Phase1TypeOK, BetRow, Reasoning, tables,
        outside, phase2Vars, Busy, Ended, Early, Deciding, Late, Alone, Placed,
        Checkpointed, Attested, Asked
<1>1. StoreTypeOK /\ Phase1TypeOK
  BY DEF TypeInv, TypeOK
<1>2. /\ Located /\ FirstRun /\ Chosen /\ Decided
      /\ OneGrade /\ Reported /\ RecordsAreReal /\ Recorded
  BY DEF Inv
<1>3. CASE ListIssues(p)
  <2>1. PICK l \in {"record_issue", "create_issue", "flag_issue"} :
          Goto(p, l) /\ (l = "record_issue" => issues[on[p]] # {})
    BY <1>3 DEF ListIssues
  <2>2. /\ on[p] \in Bet /\ pc[p] = "link_github"
        /\ UNCHANGED <<tables, ckpt, outside>>
    BY <1>3 DEF ListIssues
  <2> QED BY <2>1, <2>2, GoesOn
<1>4. CASE CreateIssue(p) /\ issues' = issues /\ Goto(p, "flag_issue")
  BY <1>4, GoesOn DEF CreateIssue
<1>5. ASSUME NEW l \in {"record_issue", "flag_issue"}, Goto(p, l),
             CreateIssue(p), issues' = [issues EXCEPT ![on[p]] = @ \cup {p}]
      PROVE  Inv'
  <2>1. /\ pc[p] = "create_issue" /\ on[p] \in Bet
        /\ UNCHANGED <<tables, ckpt, posted, events>>
    BY <1>5 DEF CreateIssue
  <2>2. Located' /\ FirstRun'
    BY <1>1, <1>2, <1>5, <2>1 DEF Located, FirstRun
  <2>3. Chosen' /\ Decided'
    BY <1>1, <1>2, <1>5, <2>1 DEF Chosen, Decided
  <2>4. OneGrade' /\ Reported'
    BY <1>1, <1>2, <1>5, <2>1 DEF OneGrade, Reported
  <2>5. RecordsAreReal' /\ Recorded'
    BY <1>1, <1>2, <1>5, <2>1 DEF RecordsAreReal, Recorded
  <2> QED BY <2>2, <2>3, <2>4, <2>5 DEF Inv
<1>6. CASE RecordIssue(p)
  <2>1. Located' /\ FirstRun'
    BY <1>1, <1>2, <1>6 DEF Located, FirstRun, RecordIssue
  <2>2. Chosen' /\ Decided'
    BY <1>1, <1>2, <1>6 DEF Chosen, Decided, RecordIssue
  <2>3. OneGrade' /\ Reported'
    BY <1>1, <1>2, <1>6 DEF OneGrade, Reported, RecordIssue
  <2>4. RecordsAreReal' /\ Recorded'
    BY <1>1, <1>2, <1>6 DEF RecordsAreReal, Recorded, RecordIssue
  <2> QED BY <2>1, <2>2, <2>3, <2>4 DEF Inv
<1>7. CASE FlagIssue(p)
  <2>1. Located' /\ FirstRun'
    BY <1>1, <1>2, <1>7 DEF Located, FirstRun, FlagIssue, AppendFlag
  <2>2. Chosen' /\ Decided'
    BY <1>1, <1>2, <1>7 DEF Chosen, Decided, FlagIssue, AppendFlag
  <2>3. OneGrade' /\ Reported'
    BY <1>1, <1>2, <1>7 DEF OneGrade, Reported, FlagIssue, AppendFlag
  <2>4. RecordsAreReal' /\ Recorded'
    BY <1>1, <1>2, <1>7 DEF RecordsAreReal, Recorded, FlagIssue, AppendFlag
  <2> QED BY <2>1, <2>2, <2>3, <2>4 DEF Inv
<1>8. CASE SaveLink(p)
  <2>1. Located' /\ FirstRun'
    BY <1>1, <1>2, <1>8 DEF Located, FirstRun, SaveLink, Save
  <2>2. Chosen' /\ Decided'
    BY <1>1, <1>2, <1>8 DEF Chosen, Decided, SaveLink, Save
  <2>3. OneGrade' /\ Reported'
    BY <1>1, <1>2, <1>8 DEF OneGrade, Reported, SaveLink, Save
  <2>4. RecordsAreReal' /\ Recorded'
    BY <1>1, <1>2, <1>8 DEF RecordsAreReal, Recorded, SaveLink, Save
  <2> QED BY <2>1, <2>2, <2>3, <2>4 DEF Inv
<1> QED
  <2>1. CASE CreateIssue(p)
    BY <1>4, <1>5, <2>1 DEF CreateIssue
  <2> QED BY <1>3, <1>6, <1>7, <1>8, <2>1

LEMMA Schedules ==
  ASSUME NEW p \in Worker, TypeInv, Inv, UNCHANGED phase2Vars,
         \/ CreateEvent(p) \/ RecordEvent(p) \/ FlagEvent(p)
         \/ SaveSchedule(p)
  PROVE  Inv'
<1> USE DEF At, Goto, StoreTypeOK, Phase1TypeOK, BetRow, Reasoning, tables,
        outside, phase2Vars, Busy, Ended, Early, Deciding, Late, Alone, Placed,
        Checkpointed, Attested, Asked
<1>1. StoreTypeOK /\ Phase1TypeOK
  BY DEF TypeInv, TypeOK
<1>2. /\ Located /\ FirstRun /\ Chosen /\ Decided
      /\ OneGrade /\ Reported /\ RecordsAreReal /\ Recorded
  BY DEF Inv
<1>3. CASE CreateEvent(p) /\ events' = events /\ Goto(p, "flag_event")
  BY <1>3, GoesOn DEF CreateEvent
<1>4. ASSUME NEW l \in {"record_event", "flag_event"}, Goto(p, l),
             CreateEvent(p), events' = [events EXCEPT ![on[p]] = @ \cup {p}]
      PROVE  Inv'
  <2>1. /\ pc[p] = "schedule_review" /\ on[p] \in Bet
        /\ UNCHANGED <<tables, ckpt, posted, issues>>
    BY <1>4 DEF CreateEvent
  <2>2. Located' /\ FirstRun'
    BY <1>1, <1>2, <1>4, <2>1 DEF Located, FirstRun
  <2>3. Chosen' /\ Decided'
    BY <1>1, <1>2, <1>4, <2>1 DEF Chosen, Decided
  <2>4. OneGrade' /\ Reported'
    BY <1>1, <1>2, <1>4, <2>1 DEF OneGrade, Reported
  <2>5. RecordsAreReal' /\ Recorded'
    BY <1>1, <1>2, <1>4, <2>1 DEF RecordsAreReal, Recorded
  <2> QED BY <2>2, <2>3, <2>4, <2>5 DEF Inv
<1>5. CASE RecordEvent(p)
  <2>1. Located' /\ FirstRun'
    BY <1>1, <1>2, <1>5 DEF Located, FirstRun, RecordEvent, UpdateBetStatus
  <2>2. Chosen' /\ Decided'
    BY <1>1, <1>2, <1>5 DEF Chosen, Decided, RecordEvent, UpdateBetStatus
  <2>3. OneGrade' /\ Reported'
    BY <1>1, <1>2, <1>5 DEF OneGrade, Reported, RecordEvent, UpdateBetStatus
  <2>4. RecordsAreReal' /\ Recorded'
    BY <1>1, <1>2, <1>5
       DEF RecordsAreReal, Recorded, RecordEvent, UpdateBetStatus
  <2> QED BY <2>1, <2>2, <2>3, <2>4 DEF Inv
<1>6. CASE FlagEvent(p)
  <2>1. Located' /\ FirstRun'
    BY <1>1, <1>2, <1>6 DEF Located, FirstRun, FlagEvent, AppendFlag
  <2>2. Chosen' /\ Decided'
    BY <1>1, <1>2, <1>6 DEF Chosen, Decided, FlagEvent, AppendFlag
  <2>3. OneGrade' /\ Reported'
    BY <1>1, <1>2, <1>6 DEF OneGrade, Reported, FlagEvent, AppendFlag
  <2>4. RecordsAreReal' /\ Recorded'
    BY <1>1, <1>2, <1>6 DEF RecordsAreReal, Recorded, FlagEvent, AppendFlag
  <2> QED BY <2>1, <2>2, <2>3, <2>4 DEF Inv
<1>7. CASE SaveSchedule(p)
  <2>1. Located' /\ FirstRun'
    BY <1>1, <1>2, <1>7 DEF Located, FirstRun, SaveSchedule, Save
  <2>2. Chosen' /\ Decided'
    BY <1>1, <1>2, <1>7 DEF Chosen, Decided, SaveSchedule, Save
  <2>3. OneGrade' /\ Reported'
    BY <1>1, <1>2, <1>7 DEF OneGrade, Reported, SaveSchedule, Save
  <2>4. RecordsAreReal' /\ Recorded'
    BY <1>1, <1>2, <1>7 DEF RecordsAreReal, Recorded, SaveSchedule, Save
  <2> QED BY <2>1, <2>2, <2>3, <2>4 DEF Inv
<1> QED
  <2>1. CASE CreateEvent(p)
    BY <1>3, <1>4, <2>1 DEF CreateEvent
  <2> QED BY <1>5, <1>6, <1>7, <2>1

LEMMA Fails ==
  ASSUME NEW p \in Worker, TypeInv, Inv, UNCHANGED phase2Vars,
         HandleException(p) \/ Crash(p)
  PROVE  Inv'
<1> USE DEF At, Goto, StoreTypeOK, Phase1TypeOK, BetRow, Reasoning, tables,
        outside, phase2Vars, Busy, Ended, Early, Deciding, Late, Alone, Placed,
        Checkpointed, Attested, Asked
<1>1. StoreTypeOK /\ Phase1TypeOK
  BY DEF TypeInv, TypeOK
<1>2. /\ Located /\ FirstRun /\ Chosen /\ Decided
      /\ OneGrade /\ Reported /\ RecordsAreReal /\ Recorded
  BY DEF Inv
<1>3. CASE HandleException(p)
  <2>1. Located' /\ FirstRun'
    BY <1>1, <1>2, <1>3 DEF Located, FirstRun, HandleException, AppendFlag
  <2>2. Chosen' /\ Decided'
    BY <1>1, <1>2, <1>3 DEF Chosen, Decided, HandleException, AppendFlag
  <2>3. OneGrade' /\ Reported'
    BY <1>1, <1>2, <1>3 DEF OneGrade, Reported, HandleException, AppendFlag
  <2>4. RecordsAreReal' /\ Recorded'
    BY <1>1, <1>2, <1>3
       DEF RecordsAreReal, Recorded, HandleException, AppendFlag
  <2> QED BY <2>1, <2>2, <2>3, <2>4 DEF Inv
<1>4. CASE Crash(p)
  <2>1. Located' /\ FirstRun'
    BY <1>1, <1>2, <1>4 DEF Located, FirstRun, Crash
  <2>2. Chosen' /\ Decided'
    BY <1>1, <1>2, <1>4 DEF Chosen, Decided, Crash
  <2>3. OneGrade' /\ Reported'
    BY <1>1, <1>2, <1>4 DEF OneGrade, Reported, Crash
  <2>4. RecordsAreReal' /\ Recorded'
    BY <1>1, <1>2, <1>4 DEF RecordsAreReal, Recorded, Crash
  <2> QED BY <2>1, <2>2, <2>3, <2>4 DEF Inv
<1> QED BY <1>3, <1>4

-----------------------------------------------------------------------------
(* Phase 2 and the clock.                                                  *)

LEMMA Reviews ==
  ASSUME NEW r \in Reviewer, TypeInv, Inv, UNCHANGED phase1Vars,
         StartCheck(r) \/ Review(r) \/ ReviewCrash(r)
  PROVE  Inv'
<1> USE DEF At, Goto, StoreTypeOK, Phase1TypeOK, BetRow, Reasoning, tables,
        outside, phase1Vars, Phase2TypeOK, RAt, RGoto, EndReview, Early,
        Deciding, Late, Alone, Placed, Checkpointed, Attested, Asked
<1>1. StoreTypeOK /\ Phase1TypeOK /\ Phase2TypeOK
  BY DEF TypeInv, TypeOK
<1>2. /\ Located /\ FirstRun /\ Chosen /\ Decided
      /\ OneGrade /\ Reported /\ RecordsAreReal /\ Recorded
  BY DEF Inv
<1>3. CASE StartCheck(r)
  <2>1. Located' /\ FirstRun'
    BY <1>1, <1>2, <1>3 DEF Located, FirstRun, StartCheck, DueBets
  <2>2. Chosen' /\ Decided'
    BY <1>1, <1>2, <1>3 DEF Chosen, Decided, StartCheck, DueBets
  <2>3. OneGrade' /\ Reported'
    BY <1>1, <1>2, <1>3 DEF OneGrade, Reported, StartCheck, DueBets
  <2>4. RecordsAreReal' /\ Recorded'
    BY <1>1, <1>2, <1>3 DEF RecordsAreReal, Recorded, StartCheck, DueBets
  <2> QED BY <2>1, <2>2, <2>3, <2>4 DEF Inv
<1>4. CASE FetchMetric(r)
  <2>1. /\ \A q \in Reviewer : rpc'[q] \in {"commit_outcome", "report_outcome"}
             => q # r /\ rpc'[q] = rpc[q] /\ actual'[q] = actual[q]
        /\ UNCHANGED <<tables, reports, reviewing>>
    BY <1>1, <1>4 DEF FetchMetric
  <2>2. Located' /\ FirstRun'
    BY <1>1, <1>2, <1>4 DEF Located, FirstRun, FetchMetric
  <2>3. Chosen' /\ Decided'
    BY <1>1, <1>2, <1>4 DEF Chosen, Decided, FetchMetric
  <2>4. OneGrade' /\ Reported'
    <3>1. OneGrade'
      BY <1>1, <1>2, <1>4 DEF OneGrade, FetchMetric
    <3>2. Reported'
      BY <1>1, <1>2, <2>1 DEF Reported
    <3> QED BY <3>1, <3>2
  <2>5. RecordsAreReal' /\ Recorded'
    BY <1>1, <1>2, <1>4 DEF RecordsAreReal, Recorded, FetchMetric
  <2> QED BY <2>2, <2>3, <2>4, <2>5 DEF Inv
<1>5. CASE FlagMetric(r)
  <2>1. Located' /\ FirstRun'
    BY <1>1, <1>2, <1>5 DEF Located, FirstRun, FlagMetric, AppendFlag
  <2>2. Chosen' /\ Decided'
    BY <1>1, <1>2, <1>5 DEF Chosen, Decided, FlagMetric, AppendFlag
  <2>3. OneGrade' /\ Reported'
    BY <1>1, <1>2, <1>5 DEF OneGrade, Reported, FlagMetric, AppendFlag
  <2>4. RecordsAreReal' /\ Recorded'
    BY <1>1, <1>2, <1>5 DEF RecordsAreReal, Recorded, FlagMetric, AppendFlag
  <2> QED BY <2>1, <2>2, <2>3, <2>4 DEF Inv
<1>6. CASE CompareOutcome(r)
  <2>1. Located' /\ FirstRun'
    BY <1>1, <1>2, <1>6 DEF Located, FirstRun, CompareOutcome
  <2>2. Chosen' /\ Decided'
    BY <1>1, <1>2, <1>6 DEF Chosen, Decided, CompareOutcome
  <2>3. OneGrade' /\ Reported'
    BY <1>1, <1>2, <1>6 DEF OneGrade, Reported, CompareOutcome
  <2>4. RecordsAreReal' /\ Recorded'
    BY <1>1, <1>2, <1>6 DEF RecordsAreReal, Recorded, CompareOutcome
  <2> QED BY <2>1, <2>2, <2>3, <2>4 DEF Inv
<1>7. CASE EndCheck(r)
  <2>1. Located' /\ FirstRun'
    BY <1>1, <1>2, <1>7 DEF Located, FirstRun, EndCheck
  <2>2. Chosen' /\ Decided'
    BY <1>1, <1>2, <1>7 DEF Chosen, Decided, EndCheck
  <2>3. OneGrade' /\ Reported'
    BY <1>1, <1>2, <1>7 DEF OneGrade, Reported, EndCheck
  <2>4. RecordsAreReal' /\ Recorded'
    BY <1>1, <1>2, <1>7 DEF RecordsAreReal, Recorded, EndCheck
  <2> QED BY <2>1, <2>2, <2>3, <2>4 DEF Inv
<1>8. CASE ReportOutcome(r)
  <2>1. Located' /\ FirstRun'
    BY <1>1, <1>2, <1>8, NoReviewAssumption
       DEF Located, FirstRun, ReportOutcome
  <2>2. Chosen' /\ Decided'
    <3>1. Chosen'
      BY <1>1, <1>2, <1>8, NoReviewAssumption DEF Chosen, ReportOutcome
    <3>2. Decided'
      BY <1>1, <1>2, <1>8, NoReviewAssumption DEF Decided, ReportOutcome
    <3> QED BY <3>1, <3>2
  <2>3. OneGrade' /\ Reported'
    <3>1. OneGrade'
      BY <1>1, <1>2, <1>8, NoReviewAssumption DEF OneGrade, ReportOutcome
    <3>2. Reported'
      BY <1>1, <1>2, <1>8, NoReviewAssumption DEF Reported, ReportOutcome
    <3> QED BY <3>1, <3>2
  <2>4. RecordsAreReal' /\ Recorded'
    BY <1>1, <1>2, <1>8, NoReviewAssumption
       DEF RecordsAreReal, Recorded, ReportOutcome
  <2> QED BY <2>1, <2>2, <2>3, <2>4 DEF Inv
<1>9. CASE ReviewCrash(r)
  <2>1. Located' /\ FirstRun'
    BY <1>1, <1>2, <1>9, NoReviewAssumption DEF Located, FirstRun, ReviewCrash
  <2>2. Chosen' /\ Decided'
    <3>1. Chosen'
      BY <1>1, <1>2, <1>9, NoReviewAssumption DEF Chosen, ReviewCrash
    <3>2. Decided'
      BY <1>1, <1>2, <1>9, NoReviewAssumption DEF Decided, ReviewCrash
    <3> QED BY <3>1, <3>2
  <2>3. OneGrade' /\ Reported'
    <3>1. OneGrade'
      BY <1>1, <1>2, <1>9, NoReviewAssumption DEF OneGrade, ReviewCrash
    <3>2. Reported'
      BY <1>1, <1>2, <1>9, NoReviewAssumption DEF Reported, ReviewCrash
    <3> QED BY <3>1, <3>2
  <2>4. RecordsAreReal' /\ Recorded'
    BY <1>1, <1>2, <1>9, NoReviewAssumption
       DEF RecordsAreReal, Recorded, ReviewCrash
  <2> QED BY <2>1, <2>2, <2>3, <2>4 DEF Inv
<1>10. ASSUME NEW b \in Bet, LoadBet(r, b)
       PROVE  Inv'
  <2>1. /\ \A q \in Reviewer \ {r} : /\ rpc'[q] = rpc[q] /\ actual'[q] = actual[q]
                                     /\ reviewing'[q] = reviewing[q]
        /\ rpc'[r] \in {"next", "fetch_metric"}
        /\ UNCHANGED <<tables, reports>>
    BY <1>1, <1>2, <1>10 DEF LoadBet
  <2>2. Located' /\ FirstRun'
    BY <1>1, <1>2, <1>10, NoReviewAssumption DEF Located, FirstRun, LoadBet
  <2>3. Chosen' /\ Decided'
    <3>1. Chosen'
      BY <1>1, <1>2, <1>10, NoReviewAssumption DEF Chosen, LoadBet
    <3>2. Decided'
      BY <1>1, <1>2, <1>10, NoReviewAssumption DEF Decided, LoadBet
    <3> QED BY <3>1, <3>2
  <2>4. OneGrade' /\ Reported'
    <3>1. OneGrade'
      BY <1>1, <1>2, <1>10, NoReviewAssumption DEF OneGrade, LoadBet
    <3>2. Reported'
      BY <1>1, <1>2, <2>1 DEF Reported
    <3> QED BY <3>1, <3>2
  <2>5. RecordsAreReal' /\ Recorded'
    BY <1>1, <1>2, <1>10, NoReviewAssumption
       DEF RecordsAreReal, Recorded, LoadBet
  <2> QED BY <2>2, <2>3, <2>4, <2>5 DEF Inv
<1>11. CASE CommitOutcome(r) /\ UNCHANGED tables
  <2>1. /\ \A q \in Reviewer \ {r} : /\ rpc'[q] = rpc[q] /\ actual'[q] = actual[q]
                                     /\ reviewing'[q] = reviewing[q]
        /\ rpc'[r] = "next"
        /\ UNCHANGED <<tables, reports>>
    <3>1. reviewing[r] \in Bet /\ actual[r] \in Grade
      BY <1>1, <1>2, <1>11 DEF CommitOutcome, RAt, Reported
    <3>2. EndReview(r, "next") /\ UNCHANGED reports
      BY <1>1, <1>11, <3>1 DEF CommitOutcome, StoreWriteOutcome, Grade
    <3> QED BY <1>1, <1>11, <3>2 DEF EndReview, RGoto
  <2>2. Located' /\ FirstRun'
    BY <1>1, <1>2, <1>11, NoReviewAssumption
       DEF Located, FirstRun, CommitOutcome, StoreWriteOutcome, Grade
  <2>3. Chosen' /\ Decided'
    <3>1. Chosen'
      BY <1>1, <1>2, <1>11, NoReviewAssumption
         DEF Chosen, CommitOutcome, StoreWriteOutcome, Grade
    <3>2. Decided'
      BY <1>1, <1>2, <1>11, NoReviewAssumption
         DEF Decided, CommitOutcome, StoreWriteOutcome, Grade
    <3> QED BY <3>1, <3>2
  <2>4. OneGrade' /\ Reported'
    <3>1. OneGrade'
      BY <1>1, <1>2, <1>11, NoReviewAssumption
         DEF OneGrade, CommitOutcome, StoreWriteOutcome, Grade
    <3>2. Reported'
      <4>1. /\ \A q \in Reviewer \ {r} : /\ rpc'[q] = rpc[q]
                                         /\ actual'[q] = actual[q]
                                         /\ reviewing'[q] = reviewing[q]
            /\ rpc'[r] = "next" /\ bets' = bets /\ outcomes' = outcomes
            /\ reports' = reports
        BY <2>1
      <4>2. Reported
        BY <1>2
      <4> QED BY <4>1, <4>2 DEF Reported
    <3> QED BY <3>1, <3>2
  <2>5. RecordsAreReal' /\ Recorded'
    BY <1>1, <1>2, <1>11, NoReviewAssumption
       DEF RecordsAreReal, Recorded, CommitOutcome, StoreWriteOutcome, Grade
  <2> QED BY <2>2, <2>3, <2>4, <2>5 DEF Inv
<1>12. CASE CommitOutcome(r) /\ StoreWriteOutcome(reviewing[r], actual[r])
  <2>1. Located' /\ FirstRun'
    BY <1>1, <1>2, <1>12
       DEF Located, FirstRun, CommitOutcome, StoreWriteOutcome,
           UpdateBetStatus, Edges, Grade
  <2>2. Chosen' /\ Decided'
    BY <1>1, <1>2, <1>12
       DEF Chosen, Decided, CommitOutcome, StoreWriteOutcome, UpdateBetStatus,
           Edges, Grade
  <2>3. OneGrade' /\ Reported'
    BY <1>1, <1>2, <1>12
       DEF OneGrade, Reported, CommitOutcome, StoreWriteOutcome,
           UpdateBetStatus, Edges, Grade
  <2>4. RecordsAreReal' /\ Recorded'
    BY <1>1, <1>2, <1>12
       DEF RecordsAreReal, Recorded, CommitOutcome, StoreWriteOutcome,
           UpdateBetStatus, Edges, Grade
  <2> QED BY <2>1, <2>2, <2>3, <2>4 DEF Inv
<1> QED
  BY <1>3, <1>4, <1>5, <1>6, <1>7, <1>8, <1>9, <1>10, <1>11, <1>12
     DEF Review, CommitOutcome

LEMMA Waits ==
  ASSUME NEW b \in Bet, TypeInv, Inv, DayPasses(b)
  PROVE  Inv'
<1> USE DEF At, Goto, StoreTypeOK, Phase1TypeOK, BetRow, Reasoning, tables,
        outside, phase1Vars, phase2Vars, Busy, Ended, Early, Deciding, Late, Alone, Placed,
        Checkpointed, Attested, Asked
<1>1. StoreTypeOK /\ Phase1TypeOK
  BY DEF TypeInv, TypeOK
<1>2. /\ Located /\ FirstRun /\ Chosen /\ Decided
      /\ OneGrade /\ Reported /\ RecordsAreReal /\ Recorded
  BY DEF Inv
<1>3. Located' /\ FirstRun'
  BY <1>1, <1>2 DEF Located, FirstRun, DayPasses
<1>4. Chosen' /\ Decided'
  BY <1>1, <1>2 DEF Chosen, Decided, DayPasses
<1>5. OneGrade' /\ Reported'
  BY <1>1, <1>2 DEF OneGrade, Reported, DayPasses
<1>6. RecordsAreReal' /\ Recorded'
  BY <1>1, <1>2 DEF RecordsAreReal, Recorded, DayPasses
<1> QED BY <1>3, <1>4, <1>5, <1>6 DEF Inv

LEMMA Stutters ==
  ASSUME TypeInv, Inv, UNCHANGED vars
  PROVE  Inv'
<1> USE DEF At, Goto, StoreTypeOK, Phase1TypeOK, BetRow, Reasoning, tables,
        outside, phase1Vars, phase2Vars, vars, Busy, Ended, Early, Deciding, Late, Alone, Placed,
        Checkpointed, Attested, Asked
<1>1. StoreTypeOK /\ Phase1TypeOK
  BY DEF TypeInv, TypeOK
<1>2. /\ Located /\ FirstRun /\ Chosen /\ Decided
      /\ OneGrade /\ Reported /\ RecordsAreReal /\ Recorded
  BY DEF Inv
<1>3. Located' /\ FirstRun'
  BY <1>1, <1>2 DEF Located, FirstRun
<1>4. Chosen' /\ Decided'
  BY <1>1, <1>2 DEF Chosen, Decided
<1>5. OneGrade' /\ Reported'
  BY <1>1, <1>2 DEF OneGrade, Reported
<1>6. RecordsAreReal' /\ Recorded'
  BY <1>1, <1>2 DEF RecordsAreReal, Recorded
<1> QED BY <1>3, <1>4, <1>5, <1>6 DEF Inv

-----------------------------------------------------------------------------
(* The invariant holds.                                                    *)

LEMMA InitInv == Init => Inv
<1> SUFFICES ASSUME Init
             PROVE  Inv
  OBVIOUS
<1> USE NoBetAssumption, NoReviewAssumption
    DEF Init, StoreInit, Phase1Init, Phase2Init
<1>1. Located /\ FirstRun
  BY DEF Located, FirstRun, Alone, Placed, Checkpointed, Early, Busy
<1>2. Chosen /\ Decided
  BY DEF Chosen, Decided, Deciding, Late
<1>3. OneGrade /\ Reported
  BY DEF OneGrade, Reported
<1>4. RecordsAreReal /\ Recorded
  BY DEF RecordsAreReal, Recorded
<1> QED BY <1>1, <1>2, <1>3, <1>4 DEF Inv

LEMMA NextInv == TypeInv /\ Inv /\ [Next]_vars => Inv'
<1> SUFFICES ASSUME TypeInv, Inv, [Next]_vars
             PROVE  Inv'
  OBVIOUS
<1>1. ASSUME NEW p \in Worker, Work(p), UNCHANGED phase2Vars
      PROVE  Inv'
  BY <1>1, BeforeCheckpoint, Confirms, Decides, Links, Schedules, Fails
     DEF Work
<1>2. ASSUME NEW p \in Worker, Start(p) \/ Crash(p), UNCHANGED phase2Vars
      PROVE  Inv'
  BY <1>2, Starts, Fails
<1>3. ASSUME NEW r \in Reviewer, StartCheck(r) \/ Review(r) \/ ReviewCrash(r),
             UNCHANGED phase1Vars
      PROVE  Inv'
  BY <1>3, Reviews
<1> QED
  BY <1>1, <1>2, <1>3, Waits, Stutters DEF Next, Phase1Next, Phase2Next

LEMMA SafetyInvariant == Spec => [](TypeInv /\ Inv)
<1>1. Init => TypeInv /\ Inv
  BY InitTypes, InitInv
<1>2. TypeInv /\ Inv /\ [Next]_vars => TypeInv' /\ Inv'
  BY NextTypes, NextInv
<1> QED BY <1>1, <1>2, PTL DEF Spec

-----------------------------------------------------------------------------
\* However resumes overlap, crash and start again at a checkpoint, a DECISION
\* node only ever holds an option that the PM asked for and the bet offers.
THEOREM DecisionsAreAttested == Spec => []HumanAttested
<1>1. Inv => HumanAttested
  BY DEF Inv, Chosen, Attested, HumanAttested
<1> QED BY <1>1, SafetyInvariant, PTL

\* No status claims a decision or a grade that is not in the tables.
THEOREM StatusesAreBacked == Spec => []StatusIsBacked
<1>1. Inv => StatusIsBacked
  BY DEF Inv, Decided, Reported, StatusIsBacked
<1> QED BY <1>1, SafetyInvariant, PTL

\* The outcome, the grading edges and the hypothesis agree.
THEOREM GradesAgree == Spec => []OneGrade
<1>1. Inv => OneGrade
  BY DEF Inv
<1> QED BY <1>1, SafetyInvariant, PTL

\* Only a bet the PM decided on is graded.
THEOREM GradesFollowDecisions == Spec => []GradedAfterDecision
<1>1. Inv => GradedAfterDecision
  BY DEF Inv, Decided, GradedAfterDecision
<1> QED BY <1>1, SafetyInvariant, PTL

\* What the outside world gets to see of a bet is committed in Postgres first.
THEOREM EffectsFollowCommits == Spec => []PostgresFirst
<1>1. Inv => PostgresFirst
  BY DEF Inv, Decided, Reported, PostgresFirst
<1> QED BY <1>1, SafetyInvariant, PTL

\* What the bets row says of Slack, GitHub and the calendar is true.
THEOREM RowsTellTheTruth == Spec => []RecordsAreReal
<1>1. Inv => RecordsAreReal
  BY DEF Inv
<1> QED BY <1>1, SafetyInvariant, PTL

\* No review comes to a bet without its hypothesis or its review date.
THEOREM ReviewsFindTheirBets == Spec => []ReviewFindsBet
<1>1. TypeInv /\ Inv => ReviewFindsBet
  <2> SUFFICES ASSUME TypeInv, Inv, NEW r \in Reviewer,
                      NEW b \in queue[r] \cup ({reviewing[r]} \cap Bet)
               PROVE  graph[b].hypothesis # "absent" /\ bets[b].review # "null"
    BY DEF ReviewFindsBet
  <2>1. b \in Bet
    BY DEF TypeInv, TypeOK, Phase2TypeOK
  <2>2. decisions[b] # {}
    BY DEF Inv, Decided
  <2> QED BY <2>1, <2>2 DEF Inv, FirstRun, Checkpointed
<1> QED BY <1>1, SafetyInvariant, PTL
-----------------------------------------------------------------------------
\* No step takes back or replaces a grade, nor removes a DECISION node.
THEOREM GradesAndDecisionsStay == Spec => GradeAndDecisionsAreFinal
<1>1. ASSUME TypeInv, Next
      PROVE  \A b \in Bet : /\ outcomes[b] # "none" => outcomes'[b] = outcomes[b]
                            /\ decisions[b] \subseteq decisions'[b]
  <2>1. StoreTypeOK
    BY <1>1 DEF TypeInv, TypeOK
  <2>2. ASSUME UNCHANGED <<outcomes, decisions>>
        PROVE  \A b \in Bet :
                 /\ outcomes[b] # "none" => outcomes'[b] = outcomes[b]
                 /\ decisions[b] \subseteq decisions'[b]
    BY <2>2
  <2>3. ASSUME NEW p \in Worker, CommitDecision(p)
        PROVE  \A b \in Bet :
                 /\ outcomes[b] # "none" => outcomes'[b] = outcomes[b]
                 /\ decisions[b] \subseteq decisions'[b]
    BY <2>1, <2>3 DEF CommitDecision, StoreWriteDecision, StoreTypeOK
  <2>4. ASSUME NEW r \in Reviewer, StoreWriteOutcome(reviewing[r], actual[r])
        PROVE  \A b \in Bet :
                 /\ outcomes[b] # "none" => outcomes'[b] = outcomes[b]
                 /\ decisions[b] \subseteq decisions'[b]
    BY <2>1, <2>4 DEF StoreWriteOutcome, StoreTypeOK
  <2>5. ASSUME NEW p \in Worker, Start(p) \/ Work(p) \/ Crash(p)
        PROVE  CommitDecision(p) \/ UNCHANGED <<outcomes, decisions>>
    BY <2>5 DEF Start, CheckPending, CreateBet, StoreCreateBet, SlackClick,
       CliConfirm, Resume, Work, DocsIntake, ExtractFacts, DeriveReasoning, PostConfirm,
       FlagPending, MarkPending, SaveChoice, CheckDecision, SaveDecision,
       ListIssues, CreateIssue, RecordIssue, FlagIssue, SaveLink, CreateEvent,
       RecordEvent, FlagEvent, SaveSchedule, HandleException, Crash, Save,
       tables
  <2>6. ASSUME NEW r \in Reviewer,
               StartCheck(r) \/ Review(r) \/ ReviewCrash(r)
        PROVE  \/ StoreWriteOutcome(reviewing[r], actual[r])
               \/ UNCHANGED <<outcomes, decisions>>
    BY <2>6 DEF StartCheck, Review, ReviewCrash, LoadBet, FetchMetric,
       FlagMetric, CompareOutcome, CommitOutcome, ReportOutcome, EndCheck,
       tables
  <2> QED
    BY <1>1, <2>2, <2>3, <2>4, <2>5, <2>6
       DEF Next, Phase1Next, Phase2Next, DayPasses
<1> QED BY <1>1, TypeInvariant, PTL DEF Spec, GradeAndDecisionsAreFinal
-----------------------------------------------------------------------------
LEMMA NextFirstRun ==
  ASSUME TypeInv, Inv, OneFirstRun, [Next]_vars
  PROVE  OneFirstRun'
<1> USE DEF TypeInv, TypeOK, Phase1TypeOK
<1>1. CASE UNCHANGED <<on, via>>
  BY <1>1 DEF OneFirstRun
<1>2. ASSUME NEW p \in Worker, NEW b \in Bet, CreateBet(p, b)
      PROVE  OneFirstRun'
  <2>1. \A q \in Worker : on[q] # b
    BY <1>2 DEF CreateBet, StoreCreateBet, Inv, Located
  <2> QED BY <1>2, <2>1 DEF CreateBet, OneFirstRun
<1>3. ASSUME NEW p \in Worker, NEW b \in Bet, NEW i \in Index,
             SlackClick(p, b, i) \/ CliConfirm(p, b, i)
      PROVE  OneFirstRun'
  BY <1>3 DEF SlackClick, CliConfirm, Resume, OneFirstRun
<1>4. ASSUME NEW p \in Worker, CheckPending(p) \/ Work(p) \/ Crash(p)
      PROVE  UNCHANGED <<on, via>>
  BY <1>4 DEF CheckPending, Work, DocsIntake, ExtractFacts, DeriveReasoning,
     PostConfirm, FlagPending, MarkPending, SaveChoice, CheckDecision,
     CommitDecision, SaveDecision, ListIssues, CreateIssue, RecordIssue,
     FlagIssue, SaveLink, CreateEvent, RecordEvent, FlagEvent, SaveSchedule,
     HandleException, Crash, Goto
<1> QED
  BY <1>1, <1>2, <1>3, <1>4
     DEF Next, Phase1Next, Phase2Next, DayPasses, Start, vars, phase1Vars

\* However often its caller uses a bet id, only one first run works on the bet.
THEOREM FirstRunsAreUnique == Spec => []OneFirstRun
<1>1. Init => OneFirstRun
  BY NoBetAssumption DEF Init, Phase1Init, OneFirstRun
<1>2. TypeInv /\ Inv /\ OneFirstRun /\ [Next]_vars => OneFirstRun'
  BY NextFirstRun
<1> QED BY <1>1, <1>2, SafetyInvariant, PTL DEF Spec
=============================================================================
