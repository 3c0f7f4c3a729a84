CONSTANTS
  c1 = c1
  c2 = c2
  c3 = c3
  data = data
  intent = intent
  Cases <- MCCases
  Registered <- MCRegistered
  Polls <- MCPolls
  RouterPolls <- MCRouter
  MaxAborts = 1
SPECIFICATION FairSpec
INVARIANTS
  TypeOK
  RunsMatchDict
  NoLostWake
PROPERTIES
  ImplementsCaseLifecycle
  EveryRunnableIsDispatched
  ShutdownDrains
