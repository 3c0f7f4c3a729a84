CONSTANTS
  c1 = c1
  c2 = c2
  Review = Review
  Cases <- MCCases
  Registered <- MCCases
  Polls <- MCPolls
  RouterPolls <- MCNone
  MaxAborts = 1
  MaxFaults = 2
SPECIFICATION ESpec
INVARIANTS
  SubmittedOncePerFault
  WaitsWithCheckpoint
  FinishedIsStored
PROPERTY DecisionFinishes
