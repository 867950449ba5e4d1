--------------------------- MODULE MCProcurement ---------------------------
(* The statuses that the forms offer when Procurement is checked.           *)
EXTENDS Procurement

Shown  == {"created", "cancelled"}
Placed == {"ordered", "cancelled"}
=============================================================================
