\* Three reviews of two bets; lifts below, at both ends of, and above the interval
\* of the tolerance.
SPECIFICATION Spec
CONSTANTS
  Bet = {b1, b2}
  Reviewer = {r1, r2, r3}
  Lift = {1, 2, 4, 5}
  Predicted = 3
  Tolerance = 1
  NoLift = NoLift
  NoBet = NoBet
  NoRow = NoRow
SYMMETRY Symmetry
INVARIANTS
  TypeOK
  
  CalibrationIsOneSnapshot
  ReportsAgree
CHECK_DEADLOCK FALSE
