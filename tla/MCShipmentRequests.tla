------------------------- MODULE MCShipmentRequests -------------------------
(* Three requests of every kind: enough for two of them to have read the      *)
(* same rows while a third one has the lock.                                  *)
EXTENDS ShipmentRequests

CONSTANTS r1, r2, r3

ThreeRequests == {r1, r2, r3}
AllKinds == {"dispatch", "cancel", "deliver", "release", "return"}
=============================================================================
