\* A bet that was put to the PM: two resumes that may overlap and a review check
\* in demo mode, with crashes and no failing service.
SPECIFICATION PendingSpec
CONSTANTS
  Bet = {b1}
  Worker = {w1, w2}
  MaxOptions = 2
  NoBet = NoBet
  Reviewer = {r1}
  NoReview = NoReview
  Overlap = TRUE
  Crashes = TRUE
  BusyTracker = TRUE
  Flaky = {}
  DemoMode = TRUE
SYMMETRY Symmetry
INVARIANTS
  HumanAttested
  StatusIsBacked
  PostgresFirst
CHECK_DEADLOCK FALSE
