\* One bet, its first run and one later resume, two review checks at a time;
\* every failure, crash and interleaving.
SPECIFICATION Spec
CONSTANTS
  Bet = {b1}
  Worker = {w1, w2}
  MaxOptions = 2
  NoBet = NoBet
  Reviewer = {r1, r2}
  NoReview = NoReview
  Overlap = TRUE
  Crashes = TRUE
  BusyTracker = TRUE
  Flaky = {"gdocs", "llm", "slack", "github", "gcal", "posthog"}
  DemoMode = FALSE
SYMMETRY Symmetry
INVARIANTS
  TypeOK
  HumanAttested
  StatusIsBacked
  OneGrade
  GradedAfterDecision
  PostgresFirst
  RecordsAreReal
  ReviewFindsBet
  OneFirstRun
PROPERTIES
  GradeAndDecisionsAreFinal
CHECK_DEADLOCK FALSE
