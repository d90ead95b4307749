\* Progress: the first run of a bet, one resume, a review check that is called again
\* and again; every call may fail, no process dies.
SPECIFICATION FairSpec
CONSTANTS
  Bet = {b1}
  NoBet = NoBet
  NoReview = NoReview
  Worker = {w1, w2}
  MaxOptions = 1
  Reviewer = {r1}
  Overlap = FALSE
  Crashes = FALSE
  BusyTracker = FALSE
  Flaky = {"gdocs", "llm", "slack", "github", "gcal", "posthog"}
  DemoMode = FALSE
PROPERTIES
  
  DecisionIsScheduled
  
CHECK_DEADLOCK FALSE
