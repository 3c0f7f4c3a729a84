CONSTANTS
  Children = 2
  MaxTime = 3
  MaxSpawns = 3
  MaxFaults = 2
SPECIFICATION Spec
INVARIANTS
  FinishesLast
  KeyedConfigsRun
  GuardedSpawnsOnce
PROPERTY GuardedParentFinishes
CHECK_DEADLOCK FALSE
