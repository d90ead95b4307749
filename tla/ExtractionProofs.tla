--------------------------- MODULE ExtractionProofs ---------------------------
(***************************************************************************)
(* The properties of Extraction that do not depend on who runs with whom:  *)
(* for any number of workers and facts, and also when resumes overlap, the *)
(* graph is sound and what a state lists is stored.  The invariant adds to *)
(* the two that the facts a state lists are of type FACT.                  *)
(***************************************************************************)
EXTENDS Extraction, TLAPS

Listed(s) == Range(s.facts) \cup Range(s.hypotheses) \cup Range(s.options)

\* What holds of a state that a worker or a checkpoint may hold.
Sound(s) ==
  /\ Listed(s) \subseteq nodes
  /\ \A n \in Range(s.facts) : n.type = "FACT"

StatesAreSound ==
  /\ Sound(thread.state)
  /\ \A p \in Worker : Sound(state[p])

Inv == TypeOK /\ GraphIsSound /\ StatesAreSound

-----------------------------------------------------------------------------
(* The lists and the payload.                                              *)

LEMMA ListFacts ==
  ASSUME NEW p \in Worker, NEW type \in NodeType, NEW n \in 0 .. MaxFacts
  PROVE  /\ List(p, type, n) \in Seq(Node)
         /\ Len(List(p, type, n)) = n
         /\ \A k \in 1 .. n : /\ List(p, type, n)[k] \in Node
                              /\ List(p, type, n)[k].type = type
                              /\ List(p, type, n)[k].by = p
         /\ \A x \in Range(List(p, type, n)) :
              x.type = type /\ x.by = p /\ x \in Node
<1>1. n \in Nat /\ MaxFacts \in Nat
  BY FactsAssumption
<1>2. \A k \in 1 .. n : [type |-> type, by |-> p, no |-> k] \in Node
  BY <1>1 DEF Node
<1>3. List(p, type, n) \in Seq(Node)
  BY <1>1, <1>2 DEF List
<1>4. Len(List(p, type, n)) = n
  BY <1>1 DEF List
<1> QED BY <1>1, <1>2, <1>3, <1>4 DEF List, Range

LEMMA OneNode ==
  ASSUME NEW p \in Worker, NEW type \in NodeType
  PROVE  \E h \in Node : /\ List(p, type, 1) = <<h>> /\ <<h>> \in Seq(Node)
                         /\ <<h>>[1] = h /\ Range(<<h>>) = {h}
                         /\ h.type = type /\ h.by = p /\ h.no = 1
<1> DEFINE h == [type |-> type, by |-> p, no |-> 1]
<1>1. h \in Node
  BY FactsAssumption DEF Node
<1>2. List(p, type, 1) = <<h>>
  BY DEF List
<1>3. \A x \in Node : <<x>> \in Seq(Node) /\ <<x>>[1] = x /\ Range(<<x>>) = {x}
  BY DEF Range
<1>4. h.type = type /\ h.by = p /\ h.no = 1
  OBVIOUS
<1> HIDE DEF h
<1> QED BY <1>1, <1>2, <1>3, <1>4

\* An index that can be looked up finds an element of the list.
LEMMA ItemInRange ==
  ASSUME NEW S, NEW list \in Seq(S), NEW i \in Int, InList(i, list)
  PROVE  Item(i, list) \in Range(list)
<1>1. Len(list) \in Nat \ {0}
  BY DEF InList
<1>2. i % Len(list) \in 0 .. Len(list) - 1
  BY <1>1
<1>3. (i % Len(list)) + 1 \in DOMAIN list
  BY <1>1, <1>2
<1> QED BY <1>3 DEF Item, Range

LEMMA CitesAreIntegers ==
  ASSUME NEW n \in Nat
  PROVE  Cites(n) \subseteq SUBSET Int
BY DEF Cites

LEMMA OptionalType ==
  ASSUME NEW S, NEW T, S \subseteq T, NEW s \in Optional(S)
  PROVE  s \in Seq(T) /\ Len(s) \in 0 .. 1 /\ (s # <<>> => s[1] \in S)
<1>1. CASE s = <<>>
  BY <1>1
<1>2. ASSUME NEW x \in S, s = <<x>>
      PROVE  s \in Seq(T) /\ Len(s) \in 0 .. 1 /\ s[1] \in S
  <2>1. x \in T /\ Len(s) = 1 /\ s[1] = x
    BY <1>2
  <2>2. s \in Seq(T)
    BY <1>2, <2>1
  <2> QED BY <2>1, <2>2
<1> QED BY <1>1, <1>2 DEF Optional

\* Every cite of a payload is an integer; there is at most one assumption and
\* one option.
LEMMA PayloadType ==
  ASSUME NEW n \in Nat, NEW payload \in Payload(n)
  PROVE  /\ payload.assumptions \in Seq(SUBSET Int)
         /\ Len(payload.assumptions) \in 0 .. 1
         /\ payload.options \in Seq(SUBSET Int)
         /\ Len(payload.options) \in 0 .. 1
         /\ payload.hypotheses # <<>> =>
              /\ payload.hypotheses[1].facts \subseteq Int
              /\ payload.hypotheses[1].assumptions \subseteq Int
<1>1. PICK as, k :
        /\ \/ as = {<<>>} /\ k = 0
           \/ as = {<<c>> : c \in Cites(n)} /\ k = 1
        /\ payload \in [assumptions: as, options: Optional(Cites(n)),
                        hypotheses: Optional([facts: Cites(n),
                                              assumptions: Cites(k)])]
  BY DEF Payload
<1>2. (k = 0 \/ k = 1) /\ (as = {<<>>} \/ as = {<<c>> : c \in Cites(n)})
  BY <1>1, Zenon
<1>3. /\ payload.assumptions \in as
      /\ payload.options \in Optional(Cites(n))
      /\ payload.hypotheses \in Optional([facts: Cites(n), assumptions: Cites(k)])
  BY <1>1
<1>4. Cites(n) \subseteq SUBSET Int /\ Cites(k) \subseteq SUBSET Int
  BY <1>2, CitesAreIntegers
<1>5. payload.assumptions \in Seq(SUBSET Int) /\ Len(payload.assumptions) \in 0 .. 1
  <2>1. payload.assumptions \in Optional(Cites(n))
    BY <1>2, <1>3 DEF Optional
  <2> QED BY <2>1, <1>4, OptionalType
<1>6. payload.options \in Seq(SUBSET Int) /\ Len(payload.options) \in 0 .. 1
  BY <1>3, <1>4, OptionalType
<1>7. ASSUME payload.hypotheses # <<>>
      PROVE  /\ payload.hypotheses[1].facts \subseteq Int
             /\ payload.hypotheses[1].assumptions \subseteq Int
  <2>1. payload.hypotheses[1] \in [facts: Cites(n), assumptions: Cites(k)]
    BY <1>3, <1>7, OptionalType
  <2> QED BY <2>1, <1>4
<1> QED BY <1>5, <1>6, <1>7
LEMMA AlongList ==
  ASSUME NEW S, NEW T, NEW list \in Seq(S), NEW other \in Seq(T),
         Len(list) = Len(other)
  PROVE  \A k \in DOMAIN list : other[k] \in Range(other) /\ other[k] \in T
BY DEF Range

\* An edge that derive_reasoning may insert.
Derived(e, facts, as, h, os) ==
  \/ \E x \in Range(facts), y \in {h} \cup Range(as) \cup Range(os) :
       e = [type |-> "derived_from", from |-> y, to |-> x]
  \/ \E x \in Range(as) : e = [type |-> "depends_on", from |-> h, to |-> x]

\* What derive_reasoning links: facts of the state, and nodes of its own.
LEMMA ReasoningFacts ==
  ASSUME NEW p \in Worker, NEW facts \in Seq(Node), NEW payload \in Payload(Len(facts)),
         NEW as \in Seq(Node), NEW h, NEW os \in Seq(Node),
         Len(as) = Len(payload.assumptions), Len(os) = Len(payload.options),
         payload.hypotheses # <<>>, CitesExist(payload, facts),
         NEW e \in Reasoning(p, payload, facts, as, h, os)
  PROVE  Derived(e, facts, as, h, os)
<1> DEFINE pa == payload.assumptions
           po == payload.options
           hf == payload.hypotheses[1].facts
           ha == payload.hypotheses[1].assumptions
<1>1. /\ pa \in Seq(SUBSET Int) /\ po \in Seq(SUBSET Int)
      /\ hf \in SUBSET Int /\ ha \in SUBSET Int
      /\ Len(as) = Len(pa) /\ Len(os) = Len(po)
  <2>1. Len(facts) \in Nat
    OBVIOUS
  <2> QED BY <2>1, PayloadType
<1>2. /\ \A i \in UNION ({hf} \cup Range(pa) \cup Range(po)) : InList(i, facts)
      /\ \A i \in ha : InList(i, pa)
  BY Zenon DEF CitesExist
<1>3. \/ e \in Link("derived_from", h, hf, facts)
      \/ e \in Link("depends_on", h, ha, as)
      \/ \E k \in DOMAIN as : e \in Link("derived_from", as[k], pa[k], facts)
      \/ \E k \in DOMAIN os : e \in Link("derived_from", os[k], po[k], facts)
  BY DEF Reasoning
<1> HIDE DEF pa, po, hf, ha
<1>4. /\ \A i \in hf : i \in Int /\ InList(i, facts)
      /\ \A k \in DOMAIN as : \A i \in pa[k] : i \in Int /\ InList(i, facts)
      /\ \A k \in DOMAIN os : \A i \in po[k] : i \in Int /\ InList(i, facts)
      /\ \A i \in ha : i \in Int /\ InList(i, as)
  <2>1. \A k \in DOMAIN as : pa[k] \in Range(pa) /\ pa[k] \in SUBSET Int
    BY <1>1, AlongList, Zenon
  <2>2. \A k \in DOMAIN os : po[k] \in Range(po) /\ po[k] \in SUBSET Int
    BY <1>1, AlongList, Zenon
  <2>3. \A i \in ha : i \in Int /\ InList(i, as)
    BY <1>1, <1>2 DEF InList
  <2> QED BY <1>1, <1>2, <2>1, <2>2, <2>3
<1>5. CASE e \in Link("derived_from", h, hf, facts)
  <2>1. PICK i \in hf : e = [type |-> "derived_from", from |-> h, to |-> Item(i, facts)]
    BY <1>5 DEF Link
  <2>2. Item(i, facts) \in Range(facts)
    BY <1>4, ItemInRange
  <2> QED BY <2>1, <2>2 DEF Derived
<1>6. CASE e \in Link("depends_on", h, ha, as)
  <2>1. PICK i \in ha : e = [type |-> "depends_on", from |-> h, to |-> Item(i, as)]
    BY <1>6 DEF Link
  <2>2. Item(i, as) \in Range(as)
    BY <1>4, ItemInRange
  <2> QED BY <2>1, <2>2 DEF Derived
<1>7. ASSUME NEW k \in DOMAIN as,
             e \in Link("derived_from", as[k], pa[k], facts)
      PROVE  \E x \in Range(facts), y \in Range(as) :
               e = [type |-> "derived_from", from |-> y, to |-> x]
  <2>1. PICK i \in pa[k] :
          e = [type |-> "derived_from", from |-> as[k], to |-> Item(i, facts)]
    BY <1>7 DEF Link
  <2>2. Item(i, facts) \in Range(facts) /\ as[k] \in Range(as)
    BY <1>4, ItemInRange DEF Range
  <2> QED BY <2>1, <2>2
<1>8. ASSUME NEW k \in DOMAIN os,
             e \in Link("derived_from", os[k], po[k], facts)
      PROVE  \E x \in Range(facts), y \in Range(os) :
               e = [type |-> "derived_from", from |-> y, to |-> x]
  <2>1. PICK i \in po[k] :
          e = [type |-> "derived_from", from |-> os[k], to |-> Item(i, facts)]
    BY <1>8 DEF Link
  <2>2. Item(i, facts) \in Range(facts) /\ os[k] \in Range(os)
    BY <1>4, ItemInRange DEF Range
  <2> QED BY <2>1, <2>2
<1> QED BY <1>3, <1>5, <1>6, <1>7, <1>8 DEF Derived

-----------------------------------------------------------------------------
(* The steps.                                                              *)

LEMMA NewStateFacts ==
  /\ NewState \in BetState
  /\ Listed(NewState) = {} /\ Range(NewState.facts) = {}
BY DEF BetState, NewState, Listed, Range

LEMMA InitInv == Init => Inv
<1> SUFFICES ASSUME Init
             PROVE  Inv
  OBVIOUS
<1>1. TypeOK
  <2>1. thread \in [next: EarlyNode \cup {"none", "confirm_decision"}, state: BetState]
    BY NewStateFacts DEF Init
  <2>2. attempt \in [Worker -> 0 .. MaxAttempts - 1]
    BY AttemptsAssumption DEF Init
  <2> QED BY NewStateFacts, <2>1, <2>2 DEF Init, TypeOK
<1>2. GraphIsSound
  BY DEF Init, GraphIsSound
<1>3. StatesAreSound
  BY NewStateFacts DEF Init, StatesAreSound, Sound
<1> QED BY <1>1, <1>2, <1>3 DEF Inv

\* A step that leaves the tables alone, and whose states come from those that
\* were there, keeps the graph sound.
LEMMA SameTables ==
  ASSUME Inv, TypeOK', UNCHANGED <<nodes, edges>>,
         thread'.state \in {thread.state, NewState} \cup {state[p] : p \in Worker},
         \A p \in Worker : state'[p] \in {state[p], thread.state}
  PROVE  Inv'
<1>1. GraphIsSound'
  BY DEF Inv, GraphIsSound
<1>2. StatesAreSound'
  BY NewStateFacts DEF Inv, StatesAreSound, Sound, Listed
<1> QED BY <1>1, <1>2 DEF Inv

LEMMA RaiseInv ==
  ASSUME NEW p \in Worker, Inv, Raise(p)
  PROVE  Inv'
<1>1. TypeOK'
  BY DEF Inv, TypeOK, Raise, Goto, tables, Ended
<1> QED BY <1>1, SameTables DEF Raise, tables

LEMMA QuietInv ==
  ASSUME NEW p \in Worker, Inv,
         \/ FirstRun(p) \/ EarlyResume(p) \/ DocsIntake(p) \/ Crash(p)
         \/ Request(p, "extract_facts", "store_facts")
         \/ Request(p, "derive_reasoning", "store_reasoning")
         \/ SaveFacts(p) \/ SaveReasoning(p)
  PROVE  Inv'
<1> USE DEF Goto, tables
<1>1. CASE FirstRun(p)
  <2>1. TypeOK'
    BY <1>1 DEF FirstRun, Inv, TypeOK, Busy, EarlyNode, BetState, NewState
  <2> QED BY <1>1, <2>1, SameTables DEF FirstRun
<1>2. CASE EarlyResume(p)
  <2>1. TypeOK'
    BY <1>2 DEF EarlyResume, Inv, TypeOK, Busy
  <2>2. \A q \in Worker : state'[q] \in {state[q], thread.state}
    BY <1>2 DEF EarlyResume, Inv, TypeOK
  <2> QED BY <1>2, <2>1, <2>2, SameTables DEF EarlyResume
<1>3. CASE DocsIntake(p) /\ ~ Raise(p)
  <2>1. TypeOK'
    BY <1>3 DEF DocsIntake, Inv, TypeOK, Busy, EarlyNode
  <2> QED BY <1>3, <2>1, SameTables DEF DocsIntake
<1>4. CASE Crash(p)
  <2>1. TypeOK'
    BY <1>4 DEF Crash, Inv, TypeOK, Ended
  <2> QED BY <1>4, <2>1, SameTables DEF Crash
<1>5. ASSUME NEW ask, NEW store \in {"store_facts", "store_reasoning"},
             Request(p, ask, store)
      PROVE  Inv'
  <2>1. attempt' \in [Worker -> 0 .. MaxAttempts - 1]
    BY <1>5, AttemptsAssumption DEF Request, Inv, TypeOK
  <2>2. pc' \in [Worker -> Busy \cup Ended \cup {"idle"}]
    BY <1>5 DEF Request, Inv, TypeOK, Busy, Ended
  <2>3. TypeOK'
    BY <1>5, <2>1, <2>2 DEF Request, Inv, TypeOK
  <2> QED BY <1>5, <2>3, SameTables DEF Request
<1>6. CASE SaveFacts(p) \/ SaveReasoning(p)
  <2>1. TypeOK'
    BY <1>6 DEF SaveFacts, SaveReasoning, Inv, TypeOK, Busy, EarlyNode, Ended
  <2> QED BY <1>6, <2>1, SameTables DEF SaveFacts, SaveReasoning
<1> QED BY <1>1, <1>2, <1>3, <1>4, <1>5, <1>6, RaiseInv DEF DocsIntake

LEMMA StoreFactsInv ==
  ASSUME NEW p \in Worker, Inv, StoreFacts(p)
  PROVE  Inv'
<1> USE DEF Goto
<1>1. CASE UNCHANGED <<nodes, state>>
  <2>1. TypeOK'
    BY <1>1 DEF StoreFacts, Inv, TypeOK, Ended, Busy
  <2> QED BY <1>1, <2>1, SameTables DEF StoreFacts
<1>2. ASSUME NEW n \in 1 .. MaxFacts,
             nodes' = nodes \cup Range(List(p, "FACT", n)),
             state' = [state EXCEPT ![p] = SetFacts(@, List(p, "FACT", n))],
             Goto(p, "save_facts"), UNCHANGED flagged
      PROVE  Inv'
  <2> DEFINE list == List(p, "FACT", n)
  <2>1. /\ list \in Seq(Node)
        /\ \A x \in Range(list) : x.type = "FACT" /\ x \in Node
    BY ListFacts, FactsAssumption DEF NodeType
  <2> HIDE DEF list
  <2>2. /\ nodes' = nodes \cup Range(list) /\ Range(list) \subseteq Node
        /\ state' = [state EXCEPT ![p] = SetFacts(state[p], list)]
        /\ UNCHANGED <<edges, row, thread, attempt, flagged>>
    BY <1>2, <2>1 DEF StoreFacts, list
  <2>3. \A q \in Worker \ {p} : state'[q] = state[q]
    BY <2>2 DEF Inv, TypeOK
  <2>4. state'[p] = [facts |-> list, hypotheses |-> state[p].hypotheses,
                     options |-> state[p].options]
    BY <2>2 DEF Inv, TypeOK, SetFacts
  <2>5. TypeOK'
    <3>1. SetFacts(state[p], list) \in BetState
      BY <2>1 DEF Inv, TypeOK, BetState, SetFacts
    <3>2. state' \in [Worker -> BetState]
      BY <2>2, <3>1 DEF Inv, TypeOK
    <3>3. pc' \in [Worker -> Busy \cup Ended \cup {"idle"}]
      BY <1>2 DEF Inv, TypeOK, Busy
    <3> QED BY <2>2, <3>2, <3>3 DEF Inv, TypeOK
  <2>6. GraphIsSound'
    BY <2>2 DEF Inv, GraphIsSound
  <2>7. StatesAreSound'
    BY <2>1, <2>2, <2>3, <2>4 DEF Inv, StatesAreSound, Sound, Listed
  <2> QED BY <2>5, <2>6, <2>7 DEF Inv
<1> QED BY <1>1, <1>2 DEF StoreFacts, InsertNodes

\* The effect of a payload that could be looked up.
Inserted(p, as, h, os, new) ==
  /\ h.type = "HYPOTHESIS" /\ h.by = p /\ h.no = 1
  /\ \A x \in Range(as) : x.type = "ASSUMPTION" /\ x.by = p /\ x \in Node
  /\ \A x \in Range(os) : x.type = "OPTION" /\ x.by = p /\ x \in Node
  /\ \A e \in new : Derived(e, state[p].facts, as, h, os)
  /\ nodes' = nodes \cup Range(as) \cup {h} \cup Range(os)
  /\ edges' = edges \cup new /\ row' = h
  /\ state' = [state EXCEPT ![p] =
       [facts |-> state[p].facts, hypotheses |-> <<h>>, options |-> os]]
  /\ pc' = [pc EXCEPT ![p] = "save_reasoning"]
  /\ UNCHANGED <<flagged, thread, attempt>>

LEMMA InsertedInv ==
  ASSUME NEW p \in Worker, Inv, NEW as \in Seq(Node), NEW h \in Node,
         NEW os \in Seq(Node), NEW new, Inserted(p, as, h, os, new)
  PROVE  Inv'
<1> USE DEF Inserted
<1>1. \A x \in Range(state[p].facts) : x \in nodes /\ x \in Node /\ x.type = "FACT"
  BY DEF Inv, StatesAreSound, Sound, Listed, TypeOK
<1>2. ASSUME NEW e \in new
      PROVE  /\ e \in Edge
             /\ {e.from, e.to} \subseteq nodes'
             /\ \/ /\ e.type = "derived_from" /\ e.to.type = "FACT"
                   /\ e.from.type # "FACT"
                \/ /\ e.type = "depends_on" /\ e.from.by = e.to.by
                   /\ e.from.type = "HYPOTHESIS" /\ e.to.type = "ASSUMPTION"
  <2>1. ASSUME NEW x \in Range(state[p].facts),
               NEW y \in {h} \cup Range(as) \cup Range(os),
               e = [type |-> "derived_from", from |-> y, to |-> x]
        PROVE  /\ e \in Edge /\ {e.from, e.to} \subseteq nodes'
               /\ e.type = "derived_from" /\ e.to.type = "FACT" /\ e.from.type # "FACT"
    <3>1. y \in Node /\ y \in nodes' /\ y.type # "FACT"
      OBVIOUS
    <3>2. x \in Node /\ x \in nodes' /\ x.type = "FACT"
      BY <1>1
    <3>3. e \in Edge
      BY <2>1, <3>1, <3>2 DEF Edge
    <3>4. e.type = "derived_from" /\ e.from = y /\ e.to = x
      BY <2>1
    <3> QED BY <3>1, <3>2, <3>3, <3>4
  <2>2. ASSUME NEW x \in Range(as), e = [type |-> "depends_on", from |-> h, to |-> x]
        PROVE  /\ e \in Edge /\ {e.from, e.to} \subseteq nodes'
               /\ e.type = "depends_on" /\ e.from.by = e.to.by
               /\ e.from.type = "HYPOTHESIS" /\ e.to.type = "ASSUMPTION"
    <3>1. x \in Node /\ x \in nodes' /\ x.type = "ASSUMPTION" /\ x.by = p
      OBVIOUS
    <3>2. e \in Edge
      BY <2>2, <3>1 DEF Edge
    <3>3. e.type = "depends_on" /\ e.from = h /\ e.to = x
      BY <2>2
    <3> QED BY <3>1, <3>2, <3>3
  <2> QED BY <2>1, <2>2 DEF Derived
<1>3. TypeOK'
  <2>1. nodes' \in SUBSET Node /\ row' \in Node
    BY DEF Inv, TypeOK
  <2>2. edges' \in SUBSET Edge
    BY <1>2 DEF Inv, TypeOK
  <2>3. [facts |-> state[p].facts, hypotheses |-> <<h>>, options |-> os] \in BetState
    BY DEF Inv, TypeOK, BetState
  <2>4. state' \in [Worker -> BetState]
    BY <2>3 DEF Inv, TypeOK
  <2>5. pc' \in [Worker -> Busy \cup Ended \cup {"idle"}]
    BY DEF Inv, TypeOK, Busy
  <2> QED BY <2>1, <2>2, <2>4, <2>5 DEF Inv, TypeOK
<1>4. GraphIsSound'
  <2> SUFFICES ASSUME NEW e \in edges'
               PROVE  GraphIsSound!(e)'
    BY DEF GraphIsSound
  <2>1. CASE e \in new
    BY <1>2, <2>1
  <2>2. CASE e \in edges
    BY <2>2 DEF Inv, GraphIsSound
  <2> QED BY <2>1, <2>2
<1>5. StatesAreSound'
  <2>1. \A q \in Worker \ {p} : state'[q] = state[q]
    BY DEF Inv, TypeOK
  <2>2. state'[p] = [facts |-> state[p].facts, hypotheses |-> <<h>>, options |-> os]
    BY DEF Inv, TypeOK
  <2>3. Listed(state'[p]) = Range(state[p].facts) \cup {h} \cup Range(os)
    BY <2>2 DEF Listed, Range
  <2>4. Sound(state[p])'
    <3>1. state'[p].facts = state[p].facts
      BY <2>2
    <3> QED BY <1>1, <2>3, <3>1 DEF Sound, Listed
  <2>5. \A q \in Worker \ {p} : Sound(state[q])'
    BY <2>1 DEF Inv, StatesAreSound, Sound, Listed
  <2>6. Sound(thread.state)'
    BY DEF Inv, StatesAreSound, Sound, Listed
  <2> QED BY <2>4, <2>5, <2>6 DEF StatesAreSound
<1> QED BY <1>3, <1>4, <1>5 DEF Inv

\* The lists that derive_reasoning makes of a payload.
Made(p, na, no, as, os, hs, h) ==
  /\ as = List(p, "ASSUMPTION", na) /\ Len(as) = na
  /\ os = List(p, "OPTION", no) /\ Len(os) = no
  /\ hs = List(p, "HYPOTHESIS", 1) /\ hs = <<h>> /\ hs[1] = h /\ Range(hs) = {h}
  /\ h.type = "HYPOTHESIS" /\ h.by = p /\ h.no = 1
  /\ \A x \in Range(as) : x.type = "ASSUMPTION" /\ x.by = p /\ x \in Node
  /\ \A x \in Range(os) : x.type = "OPTION" /\ x.by = p /\ x \in Node

LEMMA MadeNodes ==
  ASSUME NEW p \in Worker, NEW na \in 0 .. 1, NEW no \in 0 .. 1
  PROVE  \E as, os, hs \in Seq(Node), h \in Node : Made(p, na, no, as, os, hs, h)
<1>1. na \in 0 .. MaxFacts /\ no \in 0 .. MaxFacts
  BY FactsAssumption
<1>2. PICK as \in Seq(Node) :
        /\ as = List(p, "ASSUMPTION", na) /\ Len(as) = na
        /\ \A x \in Range(as) : x.type = "ASSUMPTION" /\ x.by = p /\ x \in Node
  BY <1>1, ListFacts DEF NodeType
<1>3. PICK os \in Seq(Node) :
        /\ os = List(p, "OPTION", no) /\ Len(os) = no
        /\ \A x \in Range(os) : x.type = "OPTION" /\ x.by = p /\ x \in Node
  BY <1>1, ListFacts DEF NodeType
<1>4. PICK h \in Node :
        /\ List(p, "HYPOTHESIS", 1) = <<h>> /\ <<h>> \in Seq(Node)
        /\ <<h>>[1] = h /\ Range(<<h>>) = {h}
        /\ h.type = "HYPOTHESIS" /\ h.by = p /\ h.no = 1
  BY OneNode DEF NodeType
<1>5. PICK hs \in Seq(Node) :
        hs = List(p, "HYPOTHESIS", 1) /\ hs = <<h>> /\ hs[1] = h /\ Range(hs) = {h}
  BY <1>4, Zenon
<1>6. Made(p, na, no, as, os, hs, h)
  BY <1>2, <1>3, <1>4, <1>5, Zenon DEF Made
<1> QED BY <1>6, Zenon

\* derive_reasoning raises, or inserts what it made of the payload.
LEMMA StoreReasoningStep ==
  ASSUME NEW p \in Worker, Inv, StoreReasoning(p)
  PROVE  \/ Raise(p)
         \/ \E as, os \in Seq(Node), h \in Node : \E new : Inserted(p, as, h, os, new)
<1>1. PICK facts \in Seq(Node) : facts = state[p].facts
  BY DEF Inv, TypeOK, BetState
<1>2. PICK payload \in Payload(Len(facts)) :
        LET assumptions == List(p, "ASSUMPTION", Len(payload.assumptions))
            hypotheses == List(p, "HYPOTHESIS", 1)
            options == List(p, "OPTION", Len(payload.options))
        IN  IF payload.hypotheses = <<>> \/ ~ CitesExist(payload, facts)
            THEN Raise(p)
            ELSE /\ nodes' = nodes \cup Range(assumptions) \cup Range(hypotheses)
                                   \cup Range(options)
                 /\ InsertEdges(Reasoning(p, payload, facts, assumptions,
                                          hypotheses[1], options))
                 /\ UpdateRow(hypotheses[1])
                 /\ state' = [state EXCEPT ![p] =
                      [facts |-> facts, hypotheses |-> hypotheses, options |-> options]]
                 /\ Goto(p, "save_reasoning")
                 /\ UNCHANGED <<flagged, thread, attempt>>
  BY <1>1 DEF StoreReasoning, InsertNodes
<1>3. CASE Raise(p)
  BY <1>3
<1>4. CASE payload.hypotheses # <<>> /\ CitesExist(payload, facts)
  <2>1. PICK na \in 0 .. 1, no \in 0 .. 1 :
          na = Len(payload.assumptions) /\ no = Len(payload.options)
    BY PayloadType
  <2>2. PICK as, os, hs \in Seq(Node), h \in Node : Made(p, na, no, as, os, hs, h)
    BY MadeNodes, Zenon
  <2> USE DEF Made
  <2>3. /\ nodes' = nodes \cup Range(as) \cup Range(hs) \cup Range(os)
        /\ InsertEdges(Reasoning(p, payload, facts, as, hs[1], os))
        /\ UpdateRow(hs[1])
        /\ state' = [state EXCEPT ![p] =
                      [facts |-> facts, hypotheses |-> hs, options |-> os]]
        /\ Goto(p, "save_reasoning")
        /\ UNCHANGED <<flagged, thread, attempt>>
    BY <1>2, <1>4, <2>1, <2>2
  <2>4. \A e \in Reasoning(p, payload, facts, as, h, os) : Derived(e, facts, as, h, os)
    BY <1>4, <2>1, <2>2, ReasoningFacts, Zenon
  <2>5. nodes' = nodes \cup Range(as) \cup {h} \cup Range(os)
    BY <2>2, <2>3
  <2>6. /\ edges' = edges \cup Reasoning(p, payload, facts, as, h, os)
        /\ row' = h
        /\ state' = [state EXCEPT ![p] =
             [facts |-> state[p].facts, hypotheses |-> <<h>>, options |-> os]]
        /\ pc' = [pc EXCEPT ![p] = "save_reasoning"]
        /\ UNCHANGED <<flagged, thread, attempt>>
    BY <1>1, <2>2, <2>3 DEF InsertEdges, UpdateRow, Goto
  <2>7. Inserted(p, as, h, os, Reasoning(p, payload, facts, as, h, os))
    BY <1>1, <2>2, <2>4, <2>5, <2>6, Zenon DEF Inserted
  <2> QED BY <2>2, <2>7, Zenon
<1> QED BY <1>2, <1>3, <1>4

LEMMA StoreReasoningInv ==
  ASSUME NEW p \in Worker, Inv, StoreReasoning(p)
  PROVE  Inv'
BY StoreReasoningStep, RaiseInv, InsertedInv

LEMMA Invariance == Spec => []Inv
<1>1. ASSUME Inv, [Next]_vars
      PROVE  Inv'
  <2>1. CASE UNCHANGED vars
    BY <1>1, <2>1 DEF vars, Inv, TypeOK, GraphIsSound, StatesAreSound, Sound
  <2> QED BY <1>1, <2>1, QuietInv, StoreFactsInv, StoreReasoningInv DEF Next, Work
<1> QED BY <1>1, InitInv, PTL DEF Spec

-----------------------------------------------------------------------------
\* The tables, the states and the tries of the gateway keep their types, for any
\* number of workers, facts and tries, and whether or not resumes overlap.
THEOREM TypeCorrect == Spec => []TypeOK
<1>1. Inv => TypeOK
  BY DEF Inv
<1> QED BY <1>1, Invariance, PTL

\* Whatever integers the LLM cites, everything derived is derived from stored
\* facts and a hypothesis depends on the assumptions of its own answer.
THEOREM GraphSound == Spec => []GraphIsSound
<1>1. Inv => GraphIsSound
  BY DEF Inv
<1> QED BY <1>1, Invariance, PTL

\* Postgres first: what a checkpoint or a worker's state lists is in the tables.
THEOREM StateStored == Spec => []StateIsStored
<1>1. Inv => StateIsStored
  <2> SUFFICES ASSUME Inv, NEW s \in {thread.state} \cup Range(state)
               PROVE  Listed(s) \subseteq nodes
    BY DEF StateIsStored, Listed
  <2>1. CASE s = thread.state
    BY <2>1 DEF Inv, StatesAreSound, Sound
  <2>2. ASSUME NEW p \in Worker, s = state[p]
        PROVE  Listed(s) \subseteq nodes
    BY <2>2 DEF Inv, StatesAreSound, Sound
  <2> QED BY <2>1, <2>2 DEF Inv, TypeOK, Range
<1> QED BY <1>1, Invariance, PTL
=============================================================================
