SPECIFICATION Spec
CONSTANTS
  e1 = e1
  e2 = e2
  g1 = g1
  Users = {r1, r2, s1}
  Sessions = {s1}
  Emails = {e1, e2}
  NoEmail = NoEmail
  MayUse <- OneMailbox
  Workers = {w1, w2}
  GuestOrders = {g1}
  NoUser = NoUser
  OrderEmail <- OrderOfFirst
INVARIANTS TypeOK OneRegistration ClaimedByOwner NoOrphans
PROPERTIES EmailIsFinal
SYMMETRY Alike
CHECK_DEADLOCK FALSE
