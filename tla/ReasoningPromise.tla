--------------------------- MODULE ReasoningPromise ---------------------------
(***************************************************************************)
(* What the extraction promises about the reasoning of one bet: facts are  *)
(* gathered, a hypothesis is proposed that rests on gathered facts, perhaps*)
(* a new one after it, and the last one is put to the PM.  From then on    *)
(* nothing changes any more: the PM decides on what is stored.  Calls,     *)
(* retries, payloads, checkpoints and crashes do not show.                 *)
(***************************************************************************)
CONSTANTS Fact, Hypothesis,
          NoHypothesis          \* none proposed yet, none put to the PM yet

VARIABLES facts,                \* gathered so far
          proposed,             \* every hypothesis so far
          current, grounds,     \* the last one, and the facts it is derived from
          shown                 \* the one the PM is asked about

promiseVars == <<facts, proposed, current, grounds, shown>>

Init ==
  /\ facts = {} /\ proposed = {} /\ grounds = {}
  /\ current = NoHypothesis /\ shown = NoHypothesis

Gather(F) ==
  /\ shown = NoHypothesis
  /\ facts' = facts \cup F
  /\ UNCHANGED <<proposed, current, grounds, shown>>

Propose(h, F) ==
  /\ shown = NoHypothesis
  /\ h \notin proposed /\ F \subseteq facts
  /\ proposed' = proposed \cup {h}
  /\ current' = h /\ grounds' = F
  /\ UNCHANGED <<facts, shown>>

Show ==
  /\ shown = NoHypothesis /\ current # NoHypothesis
  /\ shown' = current
  /\ UNCHANGED <<facts, proposed, current, grounds>>

Next ==
  \/ \E F \in SUBSET Fact : Gather(F) \/ \E h \in Hypothesis : Propose(h, F)
  \/ Show

Spec == Init /\ [][Next]_promiseVars
=============================================================================
