\* Two resumes, one after the other, and a crash.
SPECIFICATION PendingSpec
CONSTANTS
  Bet = {b1}
  NoBet = NoBet
  NoReview = NoReview
  Worker = {w1, w2}
  MaxOptions = 2
  Reviewer = {}
  Overlap = FALSE
  Crashes = TRUE
  BusyTracker = FALSE
  Flaky = {}
  DemoMode = FALSE
INVARIANTS
  DecidedThreadResumes
CHECK_DEADLOCK FALSE
