SPECIFICATION Spec
CONSTANTS
  NumRequests = 3
  NumLots = 2
  Kinds <- AllKinds
  Units = 1
  MaxUnits = 2
  Surplus = 2
INVARIANTS TypeOK NeverHeldTwice CoveredOnce
