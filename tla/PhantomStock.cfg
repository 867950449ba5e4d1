SPECIFICATION Spec
CONSTANTS
  NumRequests = 3
  NumLots = 1
  Kinds <- Stocking
  Units = 1
  MaxUnits = 3
  Surplus = 0
INVARIANT NoPhantomStock
