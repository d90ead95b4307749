\* Two operators whose migrations may overlap, three files, two demo bets that are
\* inserted up to three times, with crashes and failing SQL at every step.
SPECIFICATION Spec
CONSTANTS
  Operator = {o1, o2}
  Files = 3
  Key = {S1, D1}
  MaxBatches = 3
INVARIANTS
  TypeOK
  MigrationsAreExact
  DoneIsUpToDate
  BatchIsWhole
CHECK_DEADLOCK FALSE
