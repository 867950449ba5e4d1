SPECIFICATION OrderDeskSpec
CONSTANTS
  o1 = o1
  o2 = o2
  NoOrder = NoOrder
  Orders <- TwoOrders
  Ordered <- TwoAndOne
  NumWarehouses = 2
  MaxLots = 2
  MaxResvs = 2
  MaxLines = 3
  MaxQty = 2
  Targets <- ShopTargets
  DealWarehouses <- NoDealWarehouse
INVARIANTS TypeOK UnitsAccountedFor ClosedReservationsAreEmpty
PROPERTIES CompletedRequestsPublish ReservingIsCovered
