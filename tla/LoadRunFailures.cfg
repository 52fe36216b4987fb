CONSTANTS
  Workers = {w1, w2}
  MaxTotal = 2
  Targets = 1
  Durations = {1, 2}
SPECIFICATION Spec
CHECK_DEADLOCK FALSE
INVARIANT DescribesSuccesses
