CONSTANTS
  Workers = {w1, w2}
  MaxTotal = 3
  Targets = 2
  Durations = {1, 2, 3}
SPECIFICATION Spec
CHECK_DEADLOCK FALSE
INVARIANTS TypeOK Claims ReportExact
PROPERTY Ends
