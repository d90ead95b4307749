\* One bet: its first run and an early resume, with crashes and failures at every
\* step and LLM payloads with indices in and out of range on both sides.
SPECIFICATION Spec
CONSTANTS
  Worker = {w1, w2}
  NoNode = NoNode
  MaxFacts = 2
  MaxAttempts = 2
  Overlap = FALSE
INVARIANTS
  TypeOK
  
  StateIsStored
  RowIsShown
  OneHypothesisPerDeath
PROPERTIES
  KeepsPromise
  EveryRunEnds
CHECK_DEADLOCK FALSE
