SPECIFICATION OrderDeskSpec
CONSTANTS
  o1 = o1
  o2 = o2
  NoOrder = NoOrder
  Orders <- OneOrder
  Ordered <- OneUnit
  NumWarehouses = 1
  MaxLots = 1
  MaxResvs = 2
  MaxLines = 2
  MaxQty = 1
  Targets <- ShopTargets
  DealWarehouses <- NoDealWarehouse
INVARIANT CancelledOrderHoldsNoStock
