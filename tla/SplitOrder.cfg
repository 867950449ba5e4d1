SPECIFICATION Spec
CONSTANTS
  o1 = o1
  o2 = o2
  NoOrder = NoOrder
  Orders <- OneOrder
  Ordered <- TwoUnits
  NumWarehouses = 2
  MaxLots = 2
  MaxResvs = 2
  MaxLines = 3
  MaxQty = 2
  Targets <- DeskTargets
  DealWarehouses <- AnyDealWarehouse
INVARIANTS BalanceIsTotal ShipmentsMatchStock HoldsAreDocumented PromisedWithinOrder
PROPERTY ConsumedShipmentsAreFinal
