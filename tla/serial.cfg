\* One bet, its first run and two resumes that wait for each other, a review
\* check; crashes, and failures of the services that a resume calls.
SPECIFICATION Spec
CONSTANTS
  Bet = {b1}
  NoBet = NoBet
  NoReview = NoReview
  Worker = {w1, w2, w3}
  MaxOptions = 2
  Reviewer = {r1}
  Overlap = FALSE
  Crashes = TRUE
  BusyTracker = FALSE
  Flaky = {"slack", "github", "gcal"}
  DemoMode = FALSE
SYMMETRY Symmetry
INVARIANTS
  AtMostOneDecision
  OneIssuePerBet
  DecidedIsScheduledOrFlagged
PROPERTIES
  
  KeepsPromise
CHECK_DEADLOCK FALSE
