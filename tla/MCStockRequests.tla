-------------------------- MODULE MCStockRequests --------------------------
(* The kinds of requests of each run on the lots of one position.             *)
EXTENDS StockRequests

AllKinds == {"receive", "reserve", "ship", "writeoff", "manual", "elsewhere"}
Stocking == {"receive", "reserve", "ship"}
=============================================================================
