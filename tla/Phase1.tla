------------------------------- MODULE Phase1 -------------------------------
(***************************************************************************)
(* The Phase 1 graph (pipeline/phase1.py and its nodes) run by workers.    *)
(*                                                                         *)
(* A worker is one graph.invoke call: the first run of a bet (POST         *)
(* /phase1/run, run-sync or the CLI), a PM's click on a Slack button, or   *)
(* the CLI's confirm.  It steps through the nodes; each transaction, each  *)
(* call to an external service and each LangGraph checkpoint is a step of  *)
(* its own, so a crash or another worker can come between any two of them. *)
(* A resumed worker starts at the node the checkpoint of its thread names  *)
(* and runs that node again from its first line.                           *)
(*                                                                         *)
(* External: the LangGraph checkpointer (ckpt), Slack, GitHub and Calendar *)
(* are modelled from how the nodes use them.  A call that reports an error *)
(* may have taken effect all the same.                                     *)
(***************************************************************************)
EXTENDS Store

CONSTANTS NoBet,        \* what a worker that has not started works on
          Overlap,      \* may the PM click while a worker is busy with the bet
          BusyTracker   \* may 100 newer issues hide the issue of a bet

ASSUME NoBetAssumption == NoBet \notin Bet
ASSUME RegimeAssumption == {Overlap, BusyTracker} \subseteq BOOLEAN

VARIABLES pc,           \* where each worker is
          on,           \* the bet it works on
          via,          \* how it was started: "run", "slack" or "cli"
          click,        \* the option index its resume payload carries
          chosen,       \* chosen_option_id in its copy of the BetState
          ckpt,         \* per thread (thread_id = bet id): next node, chosen
          posted,       \* bets with a confirmation message in Slack
          issues,       \* issues that carry the bet's marker, by creator
          events        \* calendar events of the bet, by creator

workers == <<pc, on, via, click, chosen>>
outside == <<posted, issues, events>>
phase1Vars == <<pc, on, via, click, chosen, ckpt, posted, issues, events>>

\* A worker that has started and can still take a step.
Busy == {"docs_intake", "extract_facts", "derive_reasoning",
         "confirm_decision", "mark_pending", "flag_pending",
         "save_choice", "write_decision", "commit_decision", "save_decision",
         "link_github", "create_issue", "record_issue",
         "flag_issue", "save_link", "schedule_review", "record_event",
         "flag_event", "save_schedule", "raised"}

Ended == {"paused", "finished", "failed", "crashed"}

\* The nodes a thread is resumed at.  LangGraph also checkpoints the nodes before
\* confirm_decision; a PM or operator who waits for the options never meets those.
NextNode == {"none", "confirm_decision", "write_decision", "link_github",
             "schedule_review", "END"}

Phase1TypeOK ==
  /\ pc \in [Worker -> Busy \cup Ended \cup {"idle", "create_bet"}]
  /\ on \in [Worker -> Bet \cup {NoBet}]
  /\ via \in [Worker -> {"none", "run", "slack", "cli"}]
  /\ click \in [Worker -> Index \cup {None}]
  /\ chosen \in [Worker -> Index \cup {None}]
  /\ ckpt \in [Bet -> [next: NextNode, chosen: Index \cup {None}]]
  /\ posted \in SUBSET Bet
  /\ issues \in [Bet -> SUBSET Worker]
  /\ events \in [Bet -> SUBSET Worker]

Phase1Init ==
  /\ pc = [p \in Worker |-> "idle"]
  /\ on = [p \in Worker |-> NoBet]
  /\ via = [p \in Worker |-> "none"]
  /\ click = [p \in Worker |-> None]
  /\ chosen = [p \in Worker |-> None]
  /\ ckpt = [b \in Bet |-> [next |-> "none", chosen |-> None]]
  /\ posted = {}
  /\ issues = [b \in Bet |-> {}]
  /\ events = [b \in Bet |-> {}]

-----------------------------------------------------------------------------
At(p, label) == pc[p] = label /\ on[p] \in Bet

Goto(p, label) ==
  /\ pc' = [pc EXCEPT ![p] = label]
  /\ UNCHANGED <<on, via, click, chosen>>

\* LangGraph writes the checkpoint after a node returns: the state so far and
\* the node to run next.  The last writer of a thread wins.
Save(p, node) ==
  /\ ckpt' = [ckpt EXCEPT ![on[p]] = [next |-> node, chosen |-> chosen[p]]]
  /\ UNCHANGED <<tables, outside>>

\* No other worker is in the middle of this bet.
Quiet(b) == \A p \in Worker : on[p] = b => pc[p] \in Ended

-----------------------------------------------------------------------------
(* Starting a worker.                                                      *)

\* POST /phase1/run: a request is refused while a bet of the document waits for
\* its PM.  All bets are of one document, the configured one.
CheckPending(p) ==
  /\ pc[p] = "idle"
  /\ \A b \in Bet : bets[b].status # "PENDING_CONFIRMATION"
  /\ Goto(p, "create_bet")
  /\ UNCHANGED <<tables, ckpt, outside>>

\* The row is committed first; the graph is invoked after it.  run-sync and the
\* CLI create the bet at once.
CreateBet(p, b) ==
  /\ pc[p] \in {"idle", "create_bet"}
  /\ StoreCreateBet(b)
  /\ pc' = [pc EXCEPT ![p] = "docs_intake"]
  /\ on' = [on EXCEPT ![p] = b]
  /\ via' = [via EXCEPT ![p] = "run"]
  /\ UNCHANGED <<click, chosen, ckpt, outside>>

\* Command(resume=...) on the bet's thread: load the checkpoint and run the
\* node it names.  A thread at END has nothing to run and just returns.
Resume(p, b, i, how) ==
  /\ pc[p] = "idle"
  /\ ckpt[b].next # "none"
  /\ Overlap \/ Quiet(b)
  /\ pc' = [pc EXCEPT ![p] = IF ckpt[b].next = "END" THEN "finished"
                             ELSE ckpt[b].next]
  /\ on' = [on EXCEPT ![p] = b]
  /\ via' = [via EXCEPT ![p] = how]
  /\ click' = [click EXCEPT ![p] = i]
  /\ chosen' = [chosen EXCEPT ![p] = ckpt[b].chosen]
  /\ UNCHANGED <<tables, ckpt, outside>>

\* A button of a message that reached Slack; nothing ever disables it.
SlackClick(p, b, i) ==
  /\ b \in posted /\ i < graph[b].options
  /\ Resume(p, b, i, "slack")

\* The operator names any bet that has got as far as its options, and any index.
CliConfirm(p, b, i) == Resume(p, b, i, "cli")

-----------------------------------------------------------------------------
(* docs_intake, extract_facts, derive_reasoning.                           *)

DocsIntake(p) ==
  /\ At(p, "docs_intake")
  /\ \/ /\ bets' = UpdateBetStatus(bets, on[p], "EXTRACTING")
        /\ Goto(p, "extract_facts")
     \/ "gdocs" \in Flaky /\ Goto(p, "raised") /\ UNCHANGED bets
  /\ UNCHANGED <<graph, decisions, outcomes, grading, ckpt, outside>>

\* Facts were extracted, none were, or the LLM call raised.
ExtractFacts(p) ==
  /\ At(p, "extract_facts")
  /\ \/ /\ graph' = [graph EXCEPT ![on[p]].facts = TRUE]
        /\ Goto(p, "derive_reasoning")
        /\ UNCHANGED bets
     \/ /\ "llm" \in Flaky
        /\ bets' = AppendFlag(bets, on[p], "extract_facts_empty")
        /\ Goto(p, "raised")
        /\ UNCHANGED graph
     \/ "llm" \in Flaky /\ Goto(p, "raised") /\ UNCHANGED <<bets, graph>>
  /\ UNCHANGED <<decisions, outcomes, grading, ckpt, outside>>

\* One transaction for the nodes, the edges and the columns of the bets row;
\* no hypothesis, an index out of range and an LLM error raise before it.  The
\* payload may offer no option at all, and a measurement window of zero or
\* fewer days gives a review date that has already come.
DeriveReasoning(p) ==
  /\ At(p, "derive_reasoning")
  /\ \/ /\ \E n \in 0 .. MaxOptions, d \in {"future", "arrived"} :
             /\ graph' = [graph EXCEPT ![on[p]].hypothesis = "ACTIVE",
                                       ![on[p]].options = n]
             /\ bets' = [bets EXCEPT ![on[p]].review = d]
        /\ ckpt' = [ckpt EXCEPT ![on[p]].next = "confirm_decision"]
        /\ Goto(p, "confirm_decision")
     \/ "llm" \in Flaky /\ Goto(p, "raised") /\ UNCHANGED <<bets, graph, ckpt>>
  /\ UNCHANGED <<decisions, outcomes, grading, outside>>

-----------------------------------------------------------------------------
(* confirm_decision: Slack first, then the status, then interrupt().       *)

\* Mutant: an error of post_confirm is ignored.
PostConfirm_IgnoresError(p) ==
  /\ At(p, "confirm_decision")
  /\ posted' \in {posted, posted \cup {on[p]}}
  /\ Goto(p, "mark_pending")
  /\ UNCHANGED <<tables, ckpt, issues, events>>

\* The message reaches Slack or not, and the call succeeds or not.  With no
\* option, options[proposed_index] raises inside post_confirm.
PostConfirm(p) ==
  /\ At(p, "confirm_decision")
  /\ \/ /\ graph[on[p]].options > 0
        /\ posted' = posted \cup {on[p]}
        /\ Goto(p, "mark_pending")
     \/ /\ graph[on[p]].options > 0 /\ "slack" \in Flaky
        /\ posted' \in {posted, posted \cup {on[p]}}
        /\ Goto(p, "flag_pending")
     \/ /\ graph[on[p]].options = 0
        /\ UNCHANGED posted
        /\ Goto(p, "flag_pending")
  /\ UNCHANGED <<tables, ckpt, issues, events>>

FlagPending(p) ==
  /\ At(p, "flag_pending")
  /\ bets' = AppendFlag(UpdateBetStatus(bets, on[p], "PENDING_CONFIRMATION"),
                        on[p], "slack_confirm_failed")
  /\ Goto(p, "raised")
  /\ UNCHANGED <<graph, decisions, outcomes, grading, ckpt, outside>>

\* Mutant: a resume takes the proposed option, whatever the PM chose.
MarkPending_TakesProposal(p) ==
  /\ At(p, "mark_pending")
  /\ bets' = UpdateBetStatus(bets, on[p], "PENDING_CONFIRMATION")
  /\ \/ via[p] = "run" /\ Goto(p, "paused")
     \/ /\ via[p] # "run"
        /\ pc' = [pc EXCEPT ![p] = "save_choice"]
        /\ chosen' = [chosen EXCEPT ![p] = 0]
        /\ UNCHANGED <<on, via, click>>
  /\ UNCHANGED <<graph, decisions, outcomes, grading, ckpt, outside>>

\* After the status, interrupt() pauses a first run and hands a resumed one its
\* index, which is checked against the options.
MarkPending(p) ==
  /\ At(p, "mark_pending")
  /\ bets' = UpdateBetStatus(bets, on[p], "PENDING_CONFIRMATION")
  /\ \/ via[p] = "run" /\ Goto(p, "paused")
     \/ /\ via[p] # "run" /\ click[p] \notin 0 .. graph[on[p]].options - 1
        /\ Goto(p, "raised")
     \/ /\ via[p] # "run" /\ click[p] \in 0 .. graph[on[p]].options - 1
        /\ pc' = [pc EXCEPT ![p] = "save_choice"]
        /\ chosen' = [chosen EXCEPT ![p] = click[p]]
        /\ UNCHANGED <<on, via, click>>
  /\ UNCHANGED <<graph, decisions, outcomes, grading, ckpt, outside>>

\* Mutant: the graph goes from confirm_decision to link_github.
SaveChoice_SkipsDecision(p) ==
  At(p, "save_choice") /\ Save(p, "link_github") /\ Goto(p, "link_github")

\* Mutant: no checkpoint after confirm_decision.
SaveChoice_NoCheckpoint(p) ==
  /\ At(p, "save_choice") /\ Goto(p, "write_decision")
  /\ UNCHANGED <<tables, ckpt, outside>>

SaveChoice(p) ==
  At(p, "save_choice") /\ Save(p, "write_decision") /\ Goto(p, "write_decision")

-----------------------------------------------------------------------------
(* write_decision: the SELECTs, then the INSERTs with the status.          *)

CheckDecision(p) ==
  /\ At(p, "write_decision")
  /\ Goto(p, IF chosen[p] # None /\ DecisionAllowed(on[p], chosen[p])
             THEN "commit_decision" ELSE "raised")
  /\ UNCHANGED <<tables, ckpt, outside>>

CommitDecision(p) ==
  /\ At(p, "commit_decision")
  /\ StoreWriteDecision(p, on[p], chosen[p])
  /\ Goto(p, "save_decision")
  /\ UNCHANGED <<ckpt, outside>>

SaveDecision(p) ==
  At(p, "save_decision") /\ Save(p, "link_github") /\ Goto(p, "link_github")

-----------------------------------------------------------------------------
(* link_github: list the issues, create or comment, record the result.     *)

\* Mutant: the marker is not looked for.
ListIssues_NoMarker(p) ==
  /\ At(p, "link_github")
  /\ Goto(p, "create_issue") \/ Goto(p, "flag_issue")
  /\ UNCHANGED <<tables, ckpt, outside>>

\* Only the first 100 issues are listed.  An issue that is found gets a comment;
\* listing and commenting can each fail.
ListIssues(p) ==
  /\ At(p, "link_github")
  /\ \/ issues[on[p]] # {} /\ Goto(p, "record_issue")
     \/ (issues[on[p]] = {} \/ BusyTracker) /\ Goto(p, "create_issue")
     \/ "github" \in Flaky /\ Goto(p, "flag_issue")
  /\ UNCHANGED <<tables, ckpt, outside>>

\* The issue is created or not, and the call succeeds or not.
CreateIssue(p) ==
  /\ At(p, "create_issue")
  /\ \/ /\ issues' = [issues EXCEPT ![on[p]] = @ \cup {p}]
        /\ Goto(p, "record_issue")
     \/ /\ "github" \in Flaky
        /\ issues' \in {issues, [issues EXCEPT ![on[p]] = @ \cup {p}]}
        /\ Goto(p, "flag_issue")
  /\ UNCHANGED <<tables, ckpt, posted, events>>

RecordIssue(p) ==
  /\ At(p, "record_issue")
  /\ bets' = [bets EXCEPT ![on[p]].issueUrl = TRUE]
  /\ Goto(p, "save_link")
  /\ UNCHANGED <<graph, decisions, outcomes, grading, ckpt, outside>>

\* Mutant: a GitHub failure stops the graph.
FlagIssue_Stops(p) ==
  /\ At(p, "flag_issue")
  /\ bets' = AppendFlag(bets, on[p], "github_write_failed")
  /\ Goto(p, "raised")
  /\ UNCHANGED <<graph, decisions, outcomes, grading, ckpt, outside>>

FlagIssue(p) ==
  /\ At(p, "flag_issue")
  /\ bets' = AppendFlag(bets, on[p], "github_write_failed")
  /\ Goto(p, "save_link")
  /\ UNCHANGED <<graph, decisions, outcomes, grading, ckpt, outside>>

SaveLink(p) ==
  At(p, "save_link") /\ Save(p, "schedule_review") /\ Goto(p, "schedule_review")

-----------------------------------------------------------------------------
(* schedule_review: create the event, record it and set SCHEDULED.         *)

CreateEvent(p) ==
  /\ At(p, "schedule_review")
  /\ \/ /\ events' = [events EXCEPT ![on[p]] = @ \cup {p}]
        /\ Goto(p, "record_event")
     \/ /\ "gcal" \in Flaky
        /\ events' \in {events, [events EXCEPT ![on[p]] = @ \cup {p}]}
        /\ Goto(p, "flag_event")
  /\ UNCHANGED <<tables, ckpt, posted, issues>>

RecordEvent(p) ==
  /\ At(p, "record_event")
  /\ bets' = [UpdateBetStatus(bets, on[p], "SCHEDULED")
                EXCEPT ![on[p]].eventId = TRUE]
  /\ Goto(p, "save_schedule")
  /\ UNCHANGED <<graph, decisions, outcomes, grading, ckpt, outside>>

\* Mutant: the flag stays in the state.
FlagEvent_StateOnly(p) ==
  /\ At(p, "flag_event")
  /\ Goto(p, "save_schedule")
  /\ UNCHANGED <<tables, ckpt, outside>>

FlagEvent(p) ==
  /\ At(p, "flag_event")
  /\ bets' = AppendFlag(bets, on[p], "calendar_write_failed")
  /\ Goto(p, "save_schedule")
  /\ UNCHANGED <<graph, decisions, outcomes, grading, ckpt, outside>>

SaveSchedule(p) ==
  At(p, "save_schedule") /\ Save(p, "END") /\ Goto(p, "finished")

-----------------------------------------------------------------------------
(* Failure.                                                                *)

\* Mutant: the Slack route only logs the exception.
HandleException_LogsOnly(p) ==
  /\ At(p, "raised")
  /\ Goto(p, "failed")
  /\ UNCHANGED <<tables, ckpt, outside>>

\* The Slack route records the exception as a flag; the background task only
\* logs it, and run-sync and the CLI report it to their caller.
HandleException(p) ==
  /\ At(p, "raised")
  /\ bets' = IF via[p] = "slack"
             THEN AppendFlag(bets, on[p], "slack_resume_failed") ELSE bets
  /\ Goto(p, "failed")
  /\ UNCHANGED <<graph, decisions, outcomes, grading, ckpt, outside>>

\* The process dies, or Postgres is gone and the exception handler's own
\* append_flag fails with it: the transaction at hand is rolled back.
Crash(p) ==
  /\ Crashes /\ pc[p] \in Busy
  /\ Goto(p, "crashed")
  /\ UNCHANGED <<tables, ckpt, outside>>

-----------------------------------------------------------------------------
Start(p) ==
  \/ CheckPending(p)
  \/ \E b \in Bet :
       \/ CreateBet(p, b)
       \/ \E i \in Index : SlackClick(p, b, i) \/ CliConfirm(p, b, i)

\* The steps a busy worker takes by itself.
Work(p) ==
  \/ DocsIntake(p) \/ ExtractFacts(p) \/ DeriveReasoning(p)
  \/ PostConfirm(p) \/ FlagPending(p) \/ MarkPending(p)
  \/ SaveChoice(p) \/ CheckDecision(p) \/ CommitDecision(p) \/ SaveDecision(p)
  \/ ListIssues(p) \/ CreateIssue(p) \/ RecordIssue(p)
  \/ FlagIssue(p) \/ SaveLink(p) \/ CreateEvent(p) \/ RecordEvent(p)
  \/ FlagEvent(p) \/ SaveSchedule(p) \/ HandleException(p)

Phase1Next == \E p \in Worker : Start(p) \/ Work(p) \/ Crash(p)
=============================================================================
