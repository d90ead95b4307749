\* Two resumes, one after the other, a crash, and a review check.
SPECIFICATION PendingSpec
CONSTANTS
  Bet = {b1}
  NoBet = NoBet
  NoReview = NoReview
  Worker = {w1, w2}
  MaxOptions = 2
  Reviewer = {r1}
  Overlap = FALSE
  Crashes = TRUE
  BusyTracker = FALSE
  Flaky = {}
  DemoMode = FALSE
INVARIANTS
  GradedIsNotDue
CHECK_DEADLOCK FALSE
