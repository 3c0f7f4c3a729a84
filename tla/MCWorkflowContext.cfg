CONSTANTS
  fetch = fetch
  report = report
  chat = chat
  score = score
  cart = cart
  v1 = v1
  v2 = v2
  Null = Null
  Absent = Absent
  Steps <- MCSteps
  ToolSteps <- MCToolSteps
  Names <- MCNames
  Keys <- MCKeys
  StepKey <- MCStepKey
  StateKey <- MCStateKey
  Vals <- MCVals
  Shared <- MCShared
  MaxWrites = 2
SYMMETRY MCSymmetry
SPECIFICATION Spec
INVARIANTS
  ReturnedIsDurable
  CacheAgrees
  ReturnedNotRerun
PROPERTIES
  ImplementsDurableSteps
  SessionReadsForward
