\* The first run of a bet, with calls that may fail and no crash.
SPECIFICATION Spec
CONSTANTS
  Bet = {b1}
  NoBet = NoBet
  NoReview = NoReview
  Worker = {w1}
  MaxOptions = 2
  Reviewer = {}
  Overlap = FALSE
  Crashes = FALSE
  BusyTracker = FALSE
  Flaky = {"gdocs", "llm", "slack", "github", "gcal", "posthog"}
  DemoMode = FALSE
INVARIANTS
  FailureLeavesFlag
CHECK_DEADLOCK FALSE
