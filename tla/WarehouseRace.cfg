SPECIFICATION Spec
CONSTANTS
  main = main
  branch = branch
  kit = kit
  headset = headset
  Requests = {r1, r2, r3}
  Positions = {kit, headset}
  Warehouses = {main, branch}
  Jobs <- MCJobs
  Stocks <- MCStocks
INVARIANTS TypeOK UnitsConserved BalancesAgree
PROPERTIES CountHolds Answered
