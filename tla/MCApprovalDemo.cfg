CONSTANTS
  c1 = c1
  c2 = c2
  Review = Review
  Cases <- MCCases
  Registered <- MCCases
  Polls <- MCPolls
  RouterPolls <- MCNone
  MaxAborts = 0
  MaxFaults = 0
SPECIFICATION DemoSpec
PROPERTY DecisionFinishes
