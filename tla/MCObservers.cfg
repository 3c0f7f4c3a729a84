CONSTANTS
  Cases = {c1, c2}
  Steps <- MCSteps
  Outputs = {o1}
  None = None
  MaxRuns = 2
  MaxCrashes = 1
SPECIFICATION Spec
INVARIANTS
  ReplayHasOriginal
  CompleteListsSteps
  FinishedIsOnFile
PROPERTY FlushReturns
CHECK_DEADLOCK FALSE
