\* Two clicks that overlap, with every call succeeding and no crash.
SPECIFICATION PendingSpec
CONSTANTS
  Bet = {b1}
  NoBet = NoBet
  NoReview = NoReview
  Worker = {w1, w2}
  MaxOptions = 2
  Reviewer = {}
  Overlap = TRUE
  Crashes = FALSE
  BusyTracker = FALSE
  Flaky = {}
  DemoMode = FALSE
INVARIANTS
  NeverTwoDecisions
CHECK_DEADLOCK FALSE
