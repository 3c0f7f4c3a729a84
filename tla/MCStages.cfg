CONSTANTS
  N = 4
  MaxMade = 6
  MaxFaults = 2
SPECIFICATION Spec
INVARIANT FinishesConsistent
PROPERTY RunReturns
CHECK_DEADLOCK FALSE
