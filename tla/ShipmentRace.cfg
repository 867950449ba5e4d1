SPECIFICATION Spec
CONSTANTS
  r1 = r1
  r2 = r2
  r3 = r3
  NoRequest = NoRequest
  Requests <- ThreeRequests
  Kinds <- AllKinds
  Quantity = 1
INVARIANTS TypeOK TakenOnce
PROPERTY Answered
