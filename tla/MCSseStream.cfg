CONSTANTS
  MaxCalls = 2
  MaxLines = 5
SPECIFICATION StreamSpec
INVARIANTS
  EndsOnce
  TextsDelivered
  CallsWhole
  AsCollected
CHECK_DEADLOCK FALSE
