----------------------------- MODULE Extraction -----------------------------
(***************************************************************************)
(* How the nodes before confirm_decision build the reasoning graph of one  *)
(* bet: docs_intake, extract_facts and derive_reasoning (extraction.py),   *)
(* the LLM gateway they call (llm.py), and the inserts of store.py.        *)
(* Phase1 has these nodes as single steps; here the calls, the             *)
(* transactions and the checkpoints are steps of their own.                *)
(*                                                                         *)
(* A worker is the first run of the bet, or the CLI's confirm, which runs  *)
(* the thread from the node its checkpoint names.  An early resume only    *)
(* repeats nodes: its option index is used up before confirm_decision asks *)
(* for one, and the thread pauses there like a first run.                  *)
(*                                                                         *)
(* A node is named by its type, the worker that inserted it and its place  *)
(* in that worker's list.  Each item of a payload cites at most one other. *)
(***************************************************************************)
EXTENDS Integers, Sequences, FiniteSets, Functions

CONSTANTS Worker,       \* invocations of the graph on the bet's thread
          NoNode,       \* what the bets row holds before derive_reasoning
          MaxFacts,     \* most facts one answer of the LLM lists
          MaxAttempts,  \* _MAX_ATTEMPTS of the gateway
          Overlap       \* may a resume start while another worker is busy

ASSUME FactsAssumption == MaxFacts \in Nat \ {0}
ASSUME AttemptsAssumption == MaxAttempts \in Nat \ {0}
ASSUME OverlapAssumption == Overlap \in BOOLEAN

VARIABLES nodes,        \* table graph_nodes
          edges,        \* table graph_edges
          row,          \* the hypothesis whose metric and date the bets row holds
          flagged,      \* bets.flags holds extract_facts_empty
          thread,       \* checkpoint: next node, BetState
          pc, state,    \* per worker: its place, its copy of the BetState
          attempt       \* per worker: invalid answers in this LLM call

vars == <<nodes, edges, row, flagged, thread, pc, state, attempt>>

NodeType == {"FACT", "ASSUMPTION", "HYPOTHESIS", "OPTION"}

Node == [type: NodeType, by: Worker, no: 1 .. MaxFacts]

\* The row's columns are NULL before they name a hypothesis.
ASSUME NoNodeAssumption == NoNode \notin Node

Edge == [type: {"derived_from", "depends_on"}, from: Node, to: Node]

BetState == [facts: Seq(Node), hypotheses: Seq(Node), options: Seq(Node)]

NewState == [facts |-> <<>>, hypotheses |-> <<>>, options |-> <<>>]

EarlyNode == {"docs_intake", "extract_facts", "derive_reasoning"}

Busy == EarlyNode \cup {"store_facts", "save_facts", "store_reasoning",
                        "save_reasoning"}

Ended == {"paused", "failed", "crashed"}

TypeOK ==
  /\ nodes \in SUBSET Node
  /\ edges \in SUBSET Edge
  /\ row \in Node \cup {NoNode}
  /\ flagged \in BOOLEAN
  /\ thread \in [next: EarlyNode \cup {"none", "confirm_decision"},
                 state: BetState]
  /\ pc \in [Worker -> Busy \cup Ended \cup {"idle"}]
  /\ state \in [Worker -> BetState]
  /\ attempt \in [Worker -> 0 .. MaxAttempts - 1]

Init ==
  /\ nodes = {} /\ edges = {} /\ row = NoNode /\ flagged = FALSE
  /\ thread = [next |-> "none", state |-> NewState]
  /\ pc = [p \in Worker |-> "idle"]
  /\ state = [p \in Worker |-> NewState]
  /\ attempt = [p \in Worker |-> 0]

tables == <<nodes, edges, row, flagged>>

Goto(p, label) == pc' = [pc EXCEPT ![p] = label]

\* An exception leaves the node: the wrapper passes it on, the caller ends.
Raise(p) ==
  /\ Goto(p, "failed")
  /\ UNCHANGED <<tables, thread, state, attempt>>

-----------------------------------------------------------------------------
(* Starting a worker.  LangGraph saves a checkpoint of the input first.    *)

\* Mutant: an id that is used again starts its thread over.
FirstRun_NoKey(p) ==
  /\ pc[p] = "idle"
  /\ thread' = [next |-> "docs_intake", state |-> NewState]
  /\ Goto(p, "docs_intake")
  /\ UNCHANGED <<tables, state, attempt>>

\* The bet id is new: create_bet, which comes first, refuses one that is used.
FirstRun(p) ==
  /\ pc[p] = "idle" /\ thread.next = "none"
  /\ thread' = [next |-> "docs_intake", state |-> NewState]
  /\ Goto(p, "docs_intake")
  /\ UNCHANGED <<tables, state, attempt>>

EarlyResume(p) ==
  /\ pc[p] = "idle" /\ thread.next \in EarlyNode
  /\ Overlap \/ \A q \in Worker : pc[q] \notin Busy
  /\ state' = [state EXCEPT ![p] = thread.state]
  /\ Goto(p, thread.next)
  /\ UNCHANGED <<tables, thread, attempt>>

-----------------------------------------------------------------------------
(* docs_intake, and one request of call_llm.                               *)

\* The status it writes is in Phase1.
DocsIntake(p) ==
  /\ pc[p] = "docs_intake"
  /\ \/ /\ thread' = [next |-> "extract_facts", state |-> state[p]]
        /\ Goto(p, "extract_facts")
        /\ UNCHANGED <<tables, state, attempt>>
     \/ Raise(p)

\* Mutant: after the last try the count starts over.
Request_StartsOver(p, ask, store) ==
  /\ pc[p] = ask
  /\ \/ Goto(p, store) /\ attempt' = [attempt EXCEPT ![p] = 0]
     \/ attempt' = [attempt EXCEPT ![p] = (@ + 1) % MaxAttempts] /\ UNCHANGED pc
     \/ Goto(p, "failed") /\ UNCHANGED attempt
  /\ UNCHANGED <<tables, thread, state>>

\* Mutant: one try too many.
Request_OffByOne(p, ask, store) ==
  /\ pc[p] = ask
  /\ \/ Goto(p, store) /\ attempt' = [attempt EXCEPT ![p] = 0]
     \/ /\ attempt[p] < MaxAttempts
        /\ attempt' = [attempt EXCEPT ![p] = @ + 1]
        /\ UNCHANGED pc
     \/ Goto(p, "failed") /\ UNCHANGED attempt
  /\ UNCHANGED <<tables, thread, state>>

\* The answer is valid, or it does not fit the schema and is asked for again
\* until the tries are used up, or the request itself fails and nothing is
\* tried again.
Request(p, ask, store) ==
  /\ pc[p] = ask
  /\ \/ Goto(p, store) /\ attempt' = [attempt EXCEPT ![p] = 0]
     \/ /\ attempt[p] + 1 < MaxAttempts
        /\ attempt' = [attempt EXCEPT ![p] = @ + 1]
        /\ UNCHANGED pc
     \/ Goto(p, "failed") /\ UNCHANGED attempt
  /\ UNCHANGED <<tables, thread, state>>

-----------------------------------------------------------------------------
(* extract_facts.                                                          *)

\* The first n nodes of a type that worker p makes.
List(p, type, n) ==
  [k \in 1 .. n |-> [type |-> type, by |-> p, no |-> k]]

\* extract_facts returns the key facts only; LangGraph keeps the others.
SetFacts(s, facts) ==
  [facts |-> facts, hypotheses |-> s.hypotheses, options |-> s.options]

InsertNodes(new) == nodes' = nodes \cup new

\* Mutant: the facts are left to the state.
StoreFacts_StateOnly(p) ==
  /\ pc[p] = "store_facts"
  /\ \/ flagged' = TRUE /\ Goto(p, "failed") /\ UNCHANGED <<nodes, state>>
     \/ \E n \in 1 .. MaxFacts :
          /\ state' = [state EXCEPT ![p] = SetFacts(@, List(p, "FACT", n))]
          /\ Goto(p, "save_facts")
          /\ UNCHANGED <<nodes, flagged>>
  /\ UNCHANGED <<edges, row, thread, attempt>>

\* No fact at all is flagged and raised; otherwise all of them are inserted.
StoreFacts(p) ==
  /\ pc[p] = "store_facts"
  /\ \/ flagged' = TRUE /\ Goto(p, "failed") /\ UNCHANGED <<nodes, state>>
     \/ \E n \in 1 .. MaxFacts :
          /\ InsertNodes(Range(List(p, "FACT", n)))
          /\ state' = [state EXCEPT ![p] = SetFacts(@, List(p, "FACT", n))]
          /\ Goto(p, "save_facts")
          /\ UNCHANGED flagged
  /\ UNCHANGED <<edges, row, thread, attempt>>

SaveFacts(p) ==
  /\ pc[p] = "save_facts"
  /\ thread' = [next |-> "derive_reasoning", state |-> state[p]]
  /\ Goto(p, "derive_reasoning")
  /\ UNCHANGED <<tables, state, attempt>>

-----------------------------------------------------------------------------
(* derive_reasoning.                                                       *)

\* What an item may cite from a list of n: nothing, or one index, which the
\* schema only knows to be an integer.
Cites(n) == {{}} \cup {{i} : i \in -(n + 1) .. n}

\* At most one of each: a list of no or one element.
Optional(S) == {<<>>} \cup {<<x>> : x \in S}

\* The answers about n facts.  Of several hypotheses only the first is looked
\* at, so its cites stand for all.
Payload(n) ==
  LET With(as, k) ==
        [assumptions: as, options: Optional(Cites(n)),
         hypotheses: Optional([facts: Cites(n), assumptions: Cites(k)])]
  IN  With({<<>>}, 0) \cup With({<<c>> : c \in Cites(n)}, 1)

\* list[i] in Python: a negative index counts from the end, any other one that
\* is not in the list raises.
InList(i, list) == -Len(list) <= i /\ i < Len(list)
Item(i, list) == list[(i % Len(list)) + 1]

\* The edges from one node to the items it cites.
Link(type, node, cites, list) ==
  {[type |-> type, from |-> node, to |-> Item(i, list)] : i \in cites}

\* Every index of the payload can be looked up.
CitesExist(payload, facts) ==
  LET h == payload.hypotheses[1]
      usesFacts == {h.facts} \cup Range(payload.assumptions)
                     \cup Range(payload.options)
  IN  /\ \A i \in UNION usesFacts : InList(i, facts)
      /\ \A i \in h.assumptions : InList(i, payload.assumptions)

\* Mutant: depends_on indexes the facts.
Reasoning_DependsOnFacts(p, payload, facts, assumptions, hypothesis, options) ==
  Link("derived_from", hypothesis, payload.hypotheses[1].facts, facts)
    \cup Link("depends_on", hypothesis, payload.hypotheses[1].assumptions, facts)
    \cup (UNION {Link("derived_from", assumptions[k], payload.assumptions[k], facts) :
                   k \in DOMAIN assumptions})
    \cup (UNION {Link("derived_from", options[k], payload.options[k], facts) :
                   k \in DOMAIN options})

\* The edges of the new nodes: everything is derived from facts, the hypothesis
\* depends on assumptions.
Reasoning(p, payload, facts, assumptions, hypothesis, options) ==
  Link("derived_from", hypothesis, payload.hypotheses[1].facts, facts)
    \cup Link("depends_on", hypothesis, payload.hypotheses[1].assumptions,
              assumptions)
    \cup (UNION {Link("derived_from", assumptions[k], payload.assumptions[k], facts) :
                   k \in DOMAIN assumptions})
    \cup (UNION {Link("derived_from", options[k], payload.options[k], facts) :
                   k \in DOMAIN options})

\* insert_edges looks for both ends of every edge and raises if one is missing.
InsertEdges(new) ==
  /\ \A e \in new : {e.from, e.to} \subseteq nodes'
  /\ edges' = edges \cup new

\* Mutant: a row that has its metric keeps it.
UpdateRow_Once(hypothesis) == row' = IF row = NoNode THEN hypothesis ELSE row

\* metric_name, metric_query, predicted_lift and review_date.
UpdateRow(hypothesis) == row' = hypothesis

\* No hypothesis, or an index out of range, raises before the transaction of
\* the nodes, the edges and the bets row.
StoreReasoning(p) ==
  /\ pc[p] = "store_reasoning"
  /\ \E payload \in Payload(Len(state[p].facts)) :
       LET facts == state[p].facts
           assumptions == List(p, "ASSUMPTION", Len(payload.assumptions))
           hypotheses == List(p, "HYPOTHESIS", 1)
           options == List(p, "OPTION", Len(payload.options))
       IN  IF payload.hypotheses = <<>> \/ ~ CitesExist(payload, facts)
           THEN Raise(p)
           ELSE /\ InsertNodes(Range(assumptions) \cup Range(hypotheses)
                               \cup Range(options))
                /\ InsertEdges(Reasoning(p, payload, facts, assumptions,
                                         hypotheses[1], options))
                /\ UpdateRow(hypotheses[1])
                /\ state' = [state EXCEPT ![p] =
                     [facts |-> facts, hypotheses |-> hypotheses, options |-> options]]
                /\ Goto(p, "save_reasoning")
                /\ UNCHANGED <<flagged, thread, attempt>>

\* Mutant: the proposed option is looked up after the commit, and may raise.
SaveReasoning_LooksUpLate(p) ==
  /\ pc[p] = "save_reasoning"
  /\ \/ /\ thread' = [next |-> "confirm_decision", state |-> state[p]]
        /\ Goto(p, "paused")
        /\ UNCHANGED <<tables, state, attempt>>
     \/ Raise(p)

SaveReasoning(p) ==
  /\ pc[p] = "save_reasoning"
  /\ thread' = [next |-> "confirm_decision", state |-> state[p]]
  /\ Goto(p, "paused")
  /\ UNCHANGED <<tables, state, attempt>>

-----------------------------------------------------------------------------
\* The process dies; the transaction at hand is rolled back.
Crash(p) ==
  /\ pc[p] \in Busy
  /\ Goto(p, "crashed")
  /\ UNCHANGED <<tables, thread, state, attempt>>

Work(p) ==
  \/ DocsIntake(p)
  \/ Request(p, "extract_facts", "store_facts")
  \/ StoreFacts(p) \/ SaveFacts(p)
  \/ Request(p, "derive_reasoning", "store_reasoning")
  \/ StoreReasoning(p) \/ SaveReasoning(p)

Next == \E p \in Worker : FirstRun(p) \/ EarlyResume(p) \/ Work(p) \/ Crash(p)

\* A worker that is started keeps going.
Spec == Init /\ [][Next]_vars /\ \A p \in Worker : WF_vars(Work(p))

-----------------------------------------------------------------------------
OfType(type) == {n \in nodes : n.type = type}

\* Provenance: whatever integers the LLM puts into its payload, everything
\* derived is derived from a stored fact, and a hypothesis depends on
\* assumptions of the same answer.
GraphIsSound ==
  \A e \in edges :
    /\ {e.from, e.to} \subseteq nodes
    /\ \/ /\ e.type = "derived_from" /\ e.to.type = "FACT"
          /\ e.from.type # "FACT"
       \/ /\ e.type = "depends_on" /\ e.from.by = e.to.by
          /\ e.from.type = "HYPOTHESIS" /\ e.to.type = "ASSUMPTION"

\* Postgres first: what a checkpoint or a worker's state lists is in the tables,
\* so insert_edges never meets a missing end, whichever worker carries on.
StateIsStored ==
  \A s \in {thread.state} \cup Range(state) :
    Range(s.facts) \cup Range(s.hypotheses) \cup Range(s.options) \subseteq nodes

\* A thread that waits at confirm_decision shows the hypothesis whose metric,
\* lift and date the bets row holds, and the facts it cites are the ones in the
\* state, also when an earlier try had stored other facts and another hypothesis.
RowIsShown ==
  thread.next = "confirm_decision" =>
    /\ thread.state.hypotheses = <<row>>
    /\ \A e \in edges : e.from = row /\ e.type = "derived_from"
                          => e.to \in Range(thread.state.facts)

\* "Exactly ONE hypothesis is kept": a bet has at most one hypothesis more than
\* workers that died on it.  Phase 2 grades the oldest, so that only a bet none
\* died on is sure to have the confirmed one graded.
OneHypothesisPerDeath ==
  Cardinality(OfType("HYPOTHESIS"))
    <= 1 + Cardinality({p \in Worker : pc[p] = "crashed"})

\* The refinement mapping: what the bets row and the PM's message are about, and
\* the facts the row's hypothesis is derived from in the tables.
Promise ==
  INSTANCE ReasoningPromise WITH
    Fact <- {n \in Node : n.type = "FACT"},
    Hypothesis <- {n \in Node : n.type = "HYPOTHESIS"},
    NoHypothesis <- NoNode,
    facts <- OfType("FACT"),
    proposed <- OfType("HYPOTHESIS"),
    current <- row,
    grounds <- {e.to : e \in {e \in edges : e.from = row /\ e.type = "derived_from"}},
    shown <- IF thread.next = "confirm_decision" THEN thread.state.hypotheses[1]
             ELSE NoNode

\* The PM is asked about the hypothesis that was stored last, together with the row
\* and the facts it rests on, and nothing that waits for the PM changes: neither
\* an interrupted try nor a resume that repeats nodes adds to it or replaces it.
KeepsPromise == Promise!Spec

\* The gateway's retries end: every run pauses with its options or fails,
\* however often the LLM answers with something invalid.
EveryRunEnds ==
  \A p \in Worker : (pc[p] # "idle") ~> (pc[p] \in Ended)
=============================================================================
