SPECIFICATION Spec
CONSTANTS
  o1 = o1
  o2 = o2
  p1 = p1
  Orders = {o1}
  Payments = {p1}
  Workers = {w1, w2}
  OrderOf <- PaymentsOf
  WithBonus = {o1}
  Callbacks <- JustFinished
  StaffTargets <- PaidOrRefunded
  EditedOrders = {o1}
  MaxEdits = 1
  MaxUnsure = 0
INVARIANT BonusOnce
