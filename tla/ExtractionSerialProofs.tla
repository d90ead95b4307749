------------------------ MODULE ExtractionSerialProofs ------------------------
(***************************************************************************)
(* The properties of Extraction that need resumes to wait for each other   *)
(* (Overlap = FALSE), for any number of workers, facts and tries and with  *)
(* crashes anywhere: the row is the one that is shown to the PM, and a     *)
(* second hypothesis has a crash behind it.                                *)
(***************************************************************************)
EXTENDS ExtractionProofs, FiniteSetTheorems

\* The state holds the row's hypothesis and the facts it cites.
Shown(s) ==
  /\ s.hypotheses = <<row>>
  /\ \A e \in edges : e.from = row /\ e.type = "derived_from"
                        => e.to \in Range(s.facts)

\* One worker at a time is busy, and none before the first run or once the thread
\* waits at confirm_decision, as it does when a worker has paused.
OneAtATime ==
  /\ \A p, q \in Worker : pc[p] \in Busy /\ pc[q] \in Busy => p = q
  /\ thread.next \in {"none", "confirm_decision"} => \A p \in Worker : pc[p] \notin Busy
  /\ \A p \in Worker : pc[p] = "paused" => thread.next = "confirm_decision"
  /\ \A p, q \in Worker : pc[p] = "paused" /\ pc[q] = "paused" => p = q

\* What is about to be checkpointed agrees with the row.
Saved ==
  /\ \A p \in Worker : pc[p] = "save_reasoning" => Shown(state[p])
  /\ thread.next = "confirm_decision" => Shown(thread.state)

\* Only workers that stored their reasoning have made more than facts, and each
\* of them made one hypothesis.
Makers ==
  \A n \in nodes : n.type # "FACT" =>
    /\ pc[n.by] \in {"save_reasoning", "paused", "crashed"}
    /\ n.type = "HYPOTHESIS" => n.no = 1

SerialInv == OneAtATime /\ Saved /\ Makers

-----------------------------------------------------------------------------
(* The steps.                                                              *)

LEMMA InitSerial == Init => SerialInv
BY DEF Init, SerialInv, OneAtATime, Saved, Makers, Busy, EarlyNode

\* A busy worker that has not stored its reasoning moves on, fails or dies; one
\* that has stored it may die.
LEMMA BusySerial ==
  ASSUME NEW p \in Worker, Inv, SerialInv, UNCHANGED <<edges, row>>,
         \A n \in nodes' \ nodes : n.type = "FACT", pc[p] \in Busy,
         NEW l \in Busy \cup {"failed", "crashed"}, l # "save_reasoning",
         pc[p] # "save_reasoning" \/ l = "crashed",
         pc' = [pc EXCEPT ![p] = l],
         thread' = thread \/ thread'.next \in EarlyNode
  PROVE  SerialInv'
<1>1. pc'[p] = l /\ \A q \in Worker \ {p} : pc'[q] = pc[q]
  BY DEF Inv, TypeOK
<1>2. /\ \A q \in Worker \ {p} : pc[q] \notin Busy /\ pc[q] # "paused"
      /\ thread.next \notin {"none", "confirm_decision"}
  BY DEF SerialInv, OneAtATime
<1>3. thread'.next \notin {"none", "confirm_decision"}
  BY <1>2 DEF EarlyNode
<1>4. l # "paused"
  BY DEF Busy, EarlyNode
<1>5. OneAtATime'
  BY <1>1, <1>2, <1>3, <1>4 DEF OneAtATime
<1>6. Saved'
  BY <1>1, <1>2, <1>3 DEF Saved, Busy
<1>7. Makers'
  <2> SUFFICES ASSUME NEW n \in nodes', n.type # "FACT"
               PROVE  /\ pc'[n.by] \in {"save_reasoning", "paused", "crashed"}
                      /\ n.type = "HYPOTHESIS" => n.no = 1
    BY DEF Makers
  <2>1. n \in nodes /\ n.by \in Worker
    BY DEF Inv, TypeOK, Node
  <2>2. /\ pc[n.by] \in {"save_reasoning", "paused", "crashed"}
        /\ n.type = "HYPOTHESIS" => n.no = 1
    BY <2>1 DEF SerialInv, Makers
  <2>3. n.by = p => l = "crashed"
    BY <2>2 DEF Busy, EarlyNode
  <2> QED BY <1>1, <2>1, <2>2, <2>3
<1> QED BY <1>5, <1>6, <1>7 DEF SerialInv

\* A worker starts when no other one is busy, on a thread that does not wait.
LEMMA StartSerial ==
  ASSUME NEW p \in Worker, Inv, SerialInv, UNCHANGED tables, pc[p] = "idle",
         \A q \in Worker : pc[q] \notin Busy, thread.next # "confirm_decision",
         NEW l \in EarlyNode, pc' = [pc EXCEPT ![p] = l],
         thread'.next \in EarlyNode
  PROVE  SerialInv'
<1> USE DEF tables
<1>1. pc'[p] = l /\ \A q \in Worker \ {p} : pc'[q] = pc[q]
  BY DEF Inv, TypeOK
<1>2. l \notin {"paused", "save_reasoning"}
  BY DEF EarlyNode
<1>3. OneAtATime'
  BY <1>1, <1>2 DEF SerialInv, OneAtATime, EarlyNode
<1>4. Saved'
  BY <1>1, <1>2 DEF Saved, Busy, EarlyNode
<1>5. Makers'
  BY <1>1 DEF SerialInv, Makers, Inv, TypeOK, Node
<1> QED BY <1>3, <1>4, <1>5 DEF SerialInv

\* The reasoning and the row are committed together: the row's hypothesis is new,
\* so its edges are those of this answer and lead to the facts of the state.
LEMMA InsertedSerial ==
  ASSUME NEW p \in Worker, Inv, SerialInv, pc[p] = "store_reasoning",
         NEW as \in Seq(Node), NEW os \in Seq(Node), NEW h \in Node, NEW new,
         Inserted(p, as, h, os, new)
  PROVE  SerialInv'
<1>1. /\ pc'[p] = "save_reasoning" /\ \A q \in Worker \ {p} : pc'[q] = pc[q]
      /\ thread' = thread /\ row' = h
  BY DEF Inserted, Inv, TypeOK
<1>2. /\ \A q \in Worker \ {p} : pc[q] \notin Busy /\ pc[q] # "paused"
      /\ thread.next \notin {"none", "confirm_decision"}
  BY DEF SerialInv, OneAtATime, Busy
<1>3. OneAtATime'
  BY <1>1, <1>2 DEF OneAtATime
<1>4. h \notin nodes
  BY DEF Inserted, SerialInv, Makers
<1>5. Shown(state[p])'
  <2>1. state'[p] = [facts |-> state[p].facts, hypotheses |-> <<h>>, options |-> os]
    BY DEF Inserted, Inv, TypeOK
  <2>2. ASSUME NEW e \in edges', e.from = h, e.type = "derived_from"
        PROVE  e.to \in Range(state[p].facts)
    <3>1. e \notin edges
      BY <1>4, <2>2 DEF Inv, GraphIsSound
    <3>2. Derived(e, state[p].facts, as, h, os)
      BY <3>1 DEF Inserted
    <3>3. ASSUME NEW x \in Range(state[p].facts), NEW y,
                 e = [type |-> "derived_from", from |-> y, to |-> x]
          PROVE  e.to \in Range(state[p].facts)
      BY <3>3
    <3>4. ASSUME NEW x, e = [type |-> "depends_on", from |-> h, to |-> x]
          PROVE  FALSE
      BY <2>2, <3>4
    <3> QED BY <3>2, <3>3, <3>4, Zenon DEF Derived
  <2>3. /\ state'[p].hypotheses = <<row'>>
        /\ state'[p].facts = state[p].facts
    BY <1>1, <2>1
  <2> QED BY <1>1, <2>2, <2>3 DEF Shown
<1>6. Saved'
  BY <1>1, <1>2, <1>5 DEF Saved, Busy
<1>7. Makers'
  <2> SUFFICES ASSUME NEW n \in nodes', n.type # "FACT"
               PROVE  /\ pc'[n.by] \in {"save_reasoning", "paused", "crashed"}
                      /\ n.type = "HYPOTHESIS" => n.no = 1
    BY DEF Makers
  <2>1. CASE n \in nodes
    <3>1. n.by \in Worker
      BY <2>1 DEF Inv, TypeOK, Node
    <3> QED BY <1>1, <2>1, <3>1 DEF SerialInv, Makers
  <2>2. CASE n \notin nodes
    <3>1. n \in Range(as) \cup {h} \cup Range(os)
      BY <2>2 DEF Inserted
    <3> QED BY <1>1, <3>1 DEF Inserted
  <2> QED BY <2>1, <2>2
<1> QED BY <1>3, <1>6, <1>7 DEF SerialInv

LEMMA SaveSerial ==
  ASSUME NEW p \in Worker, Inv, SerialInv, SaveReasoning(p)
  PROVE  SerialInv'
<1>1. /\ pc[p] = "save_reasoning" /\ pc'[p] = "paused"
      /\ \A q \in Worker \ {p} : pc'[q] = pc[q]
      /\ thread'.next = "confirm_decision" /\ thread'.state = state[p]
      /\ UNCHANGED <<tables, state>>
  BY DEF SaveReasoning, Goto, Inv, TypeOK
<1>2. \A q \in Worker \ {p} : pc[q] \notin Busy /\ pc[q] # "paused"
  BY <1>1 DEF SerialInv, OneAtATime, Busy
<1>3. OneAtATime'
  BY <1>1, <1>2 DEF OneAtATime, Busy, EarlyNode
<1>4. Saved'
  BY <1>1, <1>2 DEF SerialInv, Saved, Shown, tables, Busy
<1>5. Makers'
  BY <1>1 DEF SerialInv, Makers, tables, Inv, TypeOK, Node
<1> QED BY <1>3, <1>4, <1>5 DEF SerialInv

LEMMA NextSerial ==
  ASSUME Overlap = FALSE, Inv, SerialInv, [Next]_vars
  PROVE  SerialInv'
<1> USE DEF Goto, tables
<1>1. ASSUME NEW p \in Worker, FirstRun(p)
      PROVE  SerialInv'
  BY <1>1, StartSerial DEF FirstRun, EarlyNode, SerialInv, OneAtATime
<1>2. ASSUME NEW p \in Worker, EarlyResume(p)
      PROVE  SerialInv'
  BY <1>2, StartSerial DEF EarlyResume, EarlyNode
<1>3. ASSUME NEW p \in Worker,
             DocsIntake(p) \/ SaveFacts(p) \/ Crash(p)
      PROVE  SerialInv'
  BY <1>3, BusySerial DEF DocsIntake, Raise, SaveFacts, Crash, Busy, EarlyNode
<1>4. ASSUME NEW p \in Worker, NEW ask \in EarlyNode,
             NEW store \in {"store_facts", "store_reasoning"}, Request(p, ask, store)
      PROVE  SerialInv'
  <2>1. pc' = [pc EXCEPT ![p] = pc[p]] \/ pc' # pc
    BY DEF Inv, TypeOK
  <2> QED BY <1>4, <2>1, BusySerial DEF Request, Busy, EarlyNode
<1>5. ASSUME NEW p \in Worker, StoreFacts(p)
      PROVE  SerialInv'
  <2>1. \A n \in nodes' \ nodes : n.type = "FACT"
    BY <1>5, ListFacts, FactsAssumption DEF StoreFacts, InsertNodes, NodeType
  <2> QED BY <1>5, <2>1, BusySerial DEF StoreFacts, Busy
<1>6. ASSUME NEW p \in Worker, StoreReasoning(p)
      PROVE  SerialInv'
  <2>1. CASE Raise(p)
    BY <1>6, <2>1, BusySerial DEF StoreReasoning, Raise, Busy
  <2>2. pc[p] = "store_reasoning"
    BY <1>6 DEF StoreReasoning
  <2> QED BY <1>6, <2>1, <2>2, StoreReasoningStep, InsertedSerial
<1>7. CASE UNCHANGED vars
  BY <1>7 DEF vars, SerialInv, OneAtATime, Saved, Shown, Makers
<1> QED
  BY <1>1, <1>2, <1>3, <1>4, <1>5, <1>6, <1>7, SaveSerial DEF Next, Work, EarlyNode

LEMMA SerialInvariant ==
  ASSUME Overlap = FALSE
  PROVE  Spec => [](Inv /\ SerialInv)
<1>1. Inv /\ SerialInv /\ [Next]_vars => SerialInv'
  BY NextSerial
<1> QED BY <1>1, InitSerial, Invariance, PTL DEF Spec

-----------------------------------------------------------------------------
\* The hypothesis that waits for the PM is the one whose metric, lift and date the
\* row holds, whichever try had died before.
THEOREM ShownRow ==
  ASSUME Overlap = FALSE
  PROVE  Spec => []RowIsShown
<1>1. SerialInv => RowIsShown
  BY DEF SerialInv, Saved, Shown, RowIsShown
<1> QED BY <1>1, SerialInvariant, PTL

\* However many tries there were, a bet has at most one hypothesis more than
\* workers that died on it.
THEOREM HypothesesAreDeaths ==
  ASSUME Overlap = FALSE, IsFiniteSet(Worker)
  PROVE  Spec => []OneHypothesisPerDeath
<1> DEFINE H == OfType("HYPOTHESIS")
           C == {p \in Worker : pc[p] = "crashed"}
<1>1. ASSUME Inv, SerialInv
      PROVE  OneHypothesisPerDeath
  <2>1. PICK q : \A p \in Worker : pc[p] \in {"save_reasoning", "paused"} => p = q
    <3>1. \A p, q \in Worker : /\ pc[p] \in {"save_reasoning", "paused"}
                               /\ pc[q] \in {"save_reasoning", "paused"}
                               => p = q
      BY <1>1 DEF SerialInv, OneAtATime, Busy
    <3> QED BY <3>1
  <2>2. \A n \in H : n.by \in C \cup {q} /\ n.no = 1 /\ n.type = "HYPOTHESIS" /\ n \in Node
    BY <1>1, <2>1 DEF SerialInv, Makers, OfType, Inv, TypeOK, Node
  <2>3. IsFiniteSet(C) /\ Cardinality(C) \in Nat
    BY FS_Subset, FS_CardinalityType
  <2>4. /\ IsFiniteSet(C \cup {q})
        /\ Cardinality(C \cup {q}) \in Nat
        /\ Cardinality(C \cup {q}) <= 1 + Cardinality(C)
    <3> HIDE DEF C
    <3>1. /\ IsFiniteSet(C \cup {q})
          /\ Cardinality(C \cup {q}) = IF q \in C THEN Cardinality(C)
                                       ELSE Cardinality(C) + 1
      BY <2>3, FS_AddElement
    <3> QED BY <2>3, <3>1
  <2>5. [n \in H |-> n.by] \in Injection(H, C \cup {q})
    <3> DEFINE f == [n \in H |-> n.by]
    <3>1. f \in [H -> C \cup {q}]
      BY <2>2
    <3>2. ASSUME NEW m \in H, NEW n \in H, f[m] = f[n]
          PROVE  m = n
      BY <2>2, <3>2 DEF Node
    <3> QED BY <3>1, <3>2 DEF Injection, IsInjective
  <2>6. IsFiniteSet(H) /\ Cardinality(H) <= Cardinality(C \cup {q})
    BY <2>4, <2>5, FS_Injection
  <2>7. Cardinality(H) \in Nat
    BY <2>6, FS_CardinalityType
  <2> QED BY <2>3, <2>4, <2>6, <2>7 DEF OneHypothesisPerDeath
<1> QED BY <1>1, SerialInvariant, PTL

-----------------------------------------------------------------------------
(* Extraction implements ReasoningPromise.                                 *)

\* The refinement mapping of Extraction, named for the proof.
factsBar == OfType("FACT")
proposedBar == OfType("HYPOTHESIS")
groundsBar == {e.to : e \in {e \in edges : e.from = row /\ e.type = "derived_from"}}
shownBar == IF thread.next = "confirm_decision" THEN thread.state.hypotheses[1]
            ELSE NoNode

Gathers ==
  \E F \in SUBSET {n \in Node : n.type = "FACT"} :
    /\ shownBar = NoNode
    /\ factsBar' = factsBar \cup F
    /\ UNCHANGED <<proposedBar, row, groundsBar, shownBar>>

Proposes ==
  \E F \in SUBSET {n \in Node : n.type = "FACT"},
     h \in {n \in Node : n.type = "HYPOTHESIS"} :
    /\ shownBar = NoNode
    /\ h \notin proposedBar /\ F \subseteq factsBar
    /\ proposedBar' = proposedBar \cup {h}
    /\ row' = h /\ groundsBar' = F
    /\ UNCHANGED <<factsBar, shownBar>>

Shows ==
  /\ shownBar = NoNode /\ row # NoNode
  /\ shownBar' = row
  /\ UNCHANGED <<factsBar, proposedBar, row, groundsBar>>

barVars == <<factsBar, proposedBar, row, groundsBar, shownBar>>

LEMMA InitPromises == Init => Promise!Init
<1> SUFFICES ASSUME Init
             PROVE  Promise!Init
  OBVIOUS
<1>1. factsBar = {} /\ proposedBar = {} /\ groundsBar = {} /\ shownBar = NoNode
  BY DEF Init, factsBar, proposedBar, groundsBar, shownBar, OfType
<1> QED
  BY <1>1 DEF Init, Promise!Init, factsBar, proposedBar, groundsBar, shownBar

\* A worker that is busy keeps the PM from being asked.
LEMMA NotShown ==
  ASSUME SerialInv, NEW p \in Worker, pc[p] \in Busy
  PROVE  thread.next # "confirm_decision" /\ shownBar = NoNode
BY DEF SerialInv, OneAtATime, shownBar

LEMMA SameBars ==
  ASSUME UNCHANGED <<nodes, edges, row>>, UNCHANGED shownBar
  PROVE  UNCHANGED barVars
<1>1. UNCHANGED <<factsBar, proposedBar>>
  BY DEF factsBar, proposedBar, OfType
<1>2. UNCHANGED groundsBar
  BY DEF groundsBar
<1> QED BY <1>1, <1>2 DEF barVars

\* A step that leaves the tables alone on a thread that does not wait, before it
\* and after it.
LEMMA QuietStep ==
  ASSUME UNCHANGED <<nodes, edges, row>>, thread.next # "confirm_decision",
         thread'.next # "confirm_decision"
  PROVE  UNCHANGED barVars
BY SameBars DEF shownBar

LEMMA GatherStep ==
  ASSUME NEW p \in Worker, Inv, SerialInv, StoreFacts(p)
  PROVE  Gathers \/ UNCHANGED barVars
<1>1. /\ thread.next # "confirm_decision" /\ shownBar = NoNode
      /\ UNCHANGED <<edges, row, thread>>
  BY NotShown DEF StoreFacts, Busy
<1>2. UNCHANGED <<shownBar, groundsBar>>
  BY <1>1 DEF shownBar, groundsBar
<1>3. ASSUME NEW n \in 1 .. MaxFacts,
             nodes' = nodes \cup Range(List(p, "FACT", n))
      PROVE  Gathers
  <2> DEFINE F == Range(List(p, "FACT", n))
  <2>1. \A x \in F : x.type = "FACT" /\ x \in Node
    BY ListFacts, FactsAssumption DEF NodeType
  <2>2. nodes' = nodes \cup F
    BY <1>3
  <2> HIDE DEF F
  <2>3. factsBar' = factsBar \cup F /\ UNCHANGED proposedBar
    BY <2>1, <2>2 DEF factsBar, proposedBar, OfType
  <2>4. F \in SUBSET {x \in Node : x.type = "FACT"}
    BY <2>1
  <2> QED BY <1>1, <1>2, <2>3, <2>4 DEF Gathers
<1>4. UNCHANGED nodes => UNCHANGED barVars
  BY <1>1, <1>2, SameBars
<1> QED BY <1>3, <1>4 DEF StoreFacts, InsertNodes

\* The hypothesis is new, so what it is derived from is what this answer cites.
LEMMA ProposeStep ==
  ASSUME NEW p \in Worker, Inv, SerialInv, SerialInv', pc[p] = "store_reasoning",
         NEW as \in Seq(Node), NEW os \in Seq(Node), NEW h \in Node, NEW new,
         Inserted(p, as, h, os, new)
  PROVE  Proposes
<1>1. thread' = thread /\ shownBar = NoNode /\ UNCHANGED shownBar
  BY NotShown DEF Inserted, Busy, shownBar
<1>2. h \notin nodes
  BY DEF Inserted, SerialInv, Makers
<1>3. /\ h \notin proposedBar /\ proposedBar' = proposedBar \cup {h}
      /\ UNCHANGED factsBar
  <2>1. \A x \in nodes' : x \in nodes \/ x = h \/ x.type \in {"ASSUMPTION", "OPTION"}
    BY DEF Inserted
  <2>2. nodes \subseteq nodes' /\ h \in nodes' /\ h.type = "HYPOTHESIS"
    BY DEF Inserted
  <2> QED BY <1>2, <2>1, <2>2 DEF proposedBar, factsBar, OfType
<1>4. groundsBar' \subseteq factsBar
  <2>1. row' = h /\ pc'[p] = "save_reasoning" /\ state'[p].facts = state[p].facts
    <3>1. state'[p] = [facts |-> state[p].facts, hypotheses |-> <<h>>, options |-> os]
      BY DEF Inserted, Inv, TypeOK
    <3>2. state'[p].facts = state[p].facts
      BY <3>1
    <3> QED BY <3>2 DEF Inserted, Inv, TypeOK
  <2>2. Shown(state[p])'
    BY <2>1 DEF SerialInv, Saved
  <2>3. \A x \in groundsBar' : x \in Range(state[p].facts)
    BY <2>1, <2>2 DEF groundsBar, Shown
  <2>4. \A x \in Range(state[p].facts) : x \in factsBar
    BY DEF Inv, StatesAreSound, Sound, Listed, factsBar, OfType
  <2> QED BY <2>3, <2>4
<1>5. h \in {n \in Node : n.type = "HYPOTHESIS"} /\ row' = h
  BY DEF Inserted
<1>6. factsBar \subseteq {n \in Node : n.type = "FACT"}
  BY DEF Inv, TypeOK, factsBar, OfType
<1>7. groundsBar' \in SUBSET {n \in Node : n.type = "FACT"}
  BY <1>4, <1>6
<1> QED BY <1>1, <1>3, <1>4, <1>5, <1>7 DEF Proposes

LEMMA ShowStep ==
  ASSUME NEW p \in Worker, Inv, SerialInv, SaveReasoning(p)
  PROVE  Shows
<1>1. /\ pc[p] = "save_reasoning" /\ thread'.next = "confirm_decision"
      /\ thread'.state = state[p] /\ UNCHANGED <<nodes, edges, row>>
  BY DEF SaveReasoning, tables
<1>2. state[p].hypotheses = <<row>>
  BY <1>1 DEF SerialInv, Saved, Shown
<1>3. row # NoNode
  <2>1. <<row>>[1] = row /\ 1 \in DOMAIN <<row>>
    OBVIOUS
  <2>2. row \in Range(state[p].hypotheses)
    BY <1>2, <2>1 DEF Range
  <2>3. row \in Node
    BY <2>2 DEF Inv, StatesAreSound, Sound, Listed, TypeOK
  <2> QED BY <2>3, NoNodeAssumption
<1>4. shownBar = NoNode /\ shownBar' = row
  BY <1>1, <1>2, NotShown DEF shownBar, Busy
<1>5. UNCHANGED <<factsBar, proposedBar, groundsBar>>
  BY <1>1 DEF factsBar, proposedBar, groundsBar, OfType
<1> QED BY <1>1, <1>3, <1>4, <1>5 DEF Shows

LEMMA NextPromises ==
  ASSUME Inv, SerialInv, SerialInv', [Next]_vars
  PROVE  Gathers \/ Proposes \/ Shows \/ UNCHANGED barVars
<1> USE DEF Goto, tables
<1>1. ASSUME NEW p \in Worker, FirstRun(p) \/ EarlyResume(p)
      PROVE  UNCHANGED barVars
  BY <1>1, QuietStep DEF FirstRun, EarlyResume, EarlyNode
<1>2. ASSUME NEW p \in Worker, DocsIntake(p) \/ SaveFacts(p) \/ Crash(p)
      PROVE  UNCHANGED barVars
  BY <1>2, NotShown, QuietStep DEF DocsIntake, Raise, SaveFacts, Crash, Busy, EarlyNode
<1>3. ASSUME NEW p \in Worker, NEW ask \in EarlyNode, NEW store, Request(p, ask, store)
      PROVE  UNCHANGED barVars
  BY <1>3, NotShown, QuietStep DEF Request, Busy
<1>4. ASSUME NEW p \in Worker, StoreReasoning(p)
      PROVE  Proposes \/ UNCHANGED barVars
  <2>1. CASE Raise(p)
    BY <1>4, <2>1, NotShown, QuietStep DEF StoreReasoning, Raise, Busy
  <2>2. pc[p] = "store_reasoning"
    BY <1>4 DEF StoreReasoning
  <2> QED BY <1>4, <2>1, <2>2, StoreReasoningStep, ProposeStep
<1>5. CASE UNCHANGED vars
  BY <1>5, SameBars DEF vars, shownBar
<1> QED
  BY <1>1, <1>2, <1>3, <1>4, <1>5, GatherStep, ShowStep DEF Next, Work, EarlyNode

\* The extraction implements ReasoningPromise: the PM is asked about the hypothesis
\* that was stored last, on the facts it was derived from, and from then on no try
\* that was interrupted and no resume changes what is stored.
THEOREM PromiseIsKept ==
  ASSUME Overlap = FALSE
  PROVE  Spec => KeepsPromise
<1>1. Inv /\ SerialInv /\ SerialInv' /\ [Next]_vars
        => [Promise!Next]_(Promise!promiseVars)
  <2> SUFFICES ASSUME Inv, SerialInv, SerialInv', [Next]_vars
               PROVE  Promise!Next \/ UNCHANGED Promise!promiseVars
    OBVIOUS
  <2>1. CASE Gathers
    BY <2>1 DEF Gathers, Promise!Next, Promise!Gather, factsBar, proposedBar,
                groundsBar, shownBar
  <2>2. CASE Proposes
    BY <2>2 DEF Proposes, Promise!Next, Promise!Propose, factsBar, proposedBar,
                groundsBar, shownBar
  <2>3. CASE Shows
    BY <2>3 DEF Shows, Promise!Next, Promise!Show, factsBar, proposedBar,
                groundsBar, shownBar
  <2>4. CASE UNCHANGED barVars
    BY <2>4 DEF barVars, Promise!promiseVars, factsBar, proposedBar, groundsBar,
                shownBar
  <2> QED BY <2>1, <2>2, <2>3, <2>4, NextPromises
<1> QED
  BY <1>1, InitPromises, SerialInvariant, PTL DEF Spec, KeepsPromise, Promise!Spec
=============================================================================
