\* Two requests for one document, with every call succeeding and no crash.
SPECIFICATION RequestsSpec
CONSTANTS
  Bet = {b1, b2}
  NoBet = NoBet
  NoReview = NoReview
  Worker = {w1, w2}
  MaxOptions = 1
  Reviewer = {}
  Overlap = FALSE
  Crashes = FALSE
  BusyTracker = FALSE
  Flaky = {}
  DemoMode = FALSE
INVARIANTS
  OnePendingBet
CHECK_DEADLOCK FALSE
