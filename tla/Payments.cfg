SPECIFICATION Spec
CONSTANTS
  o1 = o1
  o2 = o2
  p1 = p1
  Orders = {o1, o2}
  Payments = {p1}
  Workers = {w1, w2}
  OrderOf <- PaymentsOf
  WithBonus = {o1}
  Callbacks <- Settling
  StaffTargets <- PaidOrRefunded
  EditedOrders = {o2}
  MaxEdits = 1
  MaxUnsure = 1
INVARIANTS TypeOK BonusNotForgotten NotifiedOnce
PROPERTIES LedgerKept RefundStays BonusArrives
