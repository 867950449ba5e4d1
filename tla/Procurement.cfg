SPECIFICATION Spec
CONSTANTS
  Workers = {w1, w2}
  Orders = {o1}
  Warehouses = {h1}
  FirstLines = 2
  CargoForm <- Shown
  PurchaseForm <- Placed
  MaxUnits = 2
  MaxRequests = 3
  NoOrder = noOrder
  NoWarehouse = noWarehouse
CHECK_DEADLOCK FALSE
INVARIANTS TypeOK CountedIsBooked LineNeverAhead OnlyRacesOverbook
PROPERTY Answered
