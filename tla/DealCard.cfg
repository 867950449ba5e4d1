SPECIFICATION Spec
CONSTANTS
  Workers = {w1, w2}
  Starts <- MCStarts
  Cases <- MCCases
  Forms <- MCForms
  OrderTargets <- MCOrderTargets
  PayTargets <- MCPayTargets
  NextSteps <- MCNextSteps
  MaxRequests = 2
INVARIANTS TypeOK CardFollowsDocuments

CHECK_DEADLOCK FALSE

