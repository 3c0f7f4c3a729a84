CONSTANTS
  MaxAttempts = 4
  MaxFallbacks = 4
  Width = 16
  Ceiling = 6
  DefaultTokens = 2
SPECIFICATION Spec
INVARIANTS
  FallbackAtMostOnce
  OverloadTriesAll
  EscalatedLimit
PROPERTY Terminates
CHECK_DEADLOCK FALSE
