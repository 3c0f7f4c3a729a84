CONSTANTS
  MaxRounds = 2
  MaxConcurrency = 2
  MaxCalls = 4
SPECIFICATION Spec
INVARIANTS
  ConversationWellFormed
  NoToolBeside
  ConcurrencyCapped
PROPERTY EveryRunEnds
CHECK_DEADLOCK FALSE
